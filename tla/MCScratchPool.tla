---------------------------- MODULE MCScratchPool ----------------------------
(* Problems and bounds for model-checking ScratchPool on the plans that     *)
(* ScratchPlans builds.  The kernels are those the library registers; the   *)
(* sizes need one or several levels of Cooley-Tukey (18, 34, 45) or         *)
(* Bluestein (17, 34).                                                      *)
EXTENDS ScratchPlans, ScratchPool

MCKernels == 2..16
MCLargeKernels == {20, 48}

L(n, s) == [n |-> n, is |-> s, os |-> s]

(* Dimensions and loops packed one after the other, the first with stride s.*)
Packed(ns, s) ==
    [i \in 1..Len(ns) |-> L(ns[i], FoldLeft(LAMBDA m, n : m * n, s, SubSeq(ns, 1, i - 1)))]
Natural(ns, b) == LET all == Packed(Append(ns, b), 1) IN
    [dims |-> SubSeq(all, 1, Len(ns)), vecs |-> <<all[Len(all)]>>]
(* Batches innermost: the column-major layout. *)
Interleaved(ns, b) == [dims |-> Packed(ns, b), vecs |-> <<L(b, 1)>>]

Ask(ls, t, inPlace) ==
    [dims |-> ls.dims, vecs |-> ls.vecs, threads |-> t, inPlace |-> inPlace, kind |-> "complex"]
AskAll(S, T) == {Ask(ls, t, i) : ls \in S, t \in T, i \in BOOLEAN}
AskReal(S, T) ==
    {[Ask(ls, t, FALSE) EXCEPT !.kind = k] : ls \in S, t \in T, k \in {"forward", "backward"}}

Line == {Natural(<<45>>, 3), Natural(<<90>>, 2), Natural(<<34>>, 2), Natural(<<17>>, 3)}
Columns == {Interleaved(<<45>>, 3), Interleaved(<<18>>, 2)}
Plane == {Natural(<<18, 3>>, 1), Natural(<<45, 2>>, 1), Natural(<<3, 45>>, 2), Natural(<<17, 18>>, 1)}
Cube == {Natural(<<18, 3, 34>>, 1), Natural(<<3, 18, 2>>, 2), Natural(<<2, 3, 45>>, 1)}

(* Real problems: the first dimension holds the lines of real points.       *)
Real == {Natural(<<4, 45>>, 3), Natural(<<2, 34>>, 2), Interleaved(<<2, 45>>, 2),
         Natural(<<2, 18, 3>>, 2), Natural(<<2, 3, 45>>, 3)}
Real4D == {Natural(<<2, 2, 3, 18>>, 2)}

MCProblems ==
    AskAll(Line \cup Columns \cup Plane \cup Cube, {1, 3, 4})
        \cup AskReal(Real, {2, 4}) \cup AskReal(Real4D, {2})

(* Three dimensions with a gap between the points. *)
MCStrided == {Ask([dims |-> Packed(<<3, 3, 45>>, 3), vecs |-> <<L(1, 1)>>], 3, TRUE)}

(* The plans of a problem, a tree put together from those of its children.  *)
RECURSIVE Trees(_), TreesOf(_)
Join(v, ts) ==
    LET ks == [c \in DOMAIN ts |-> Adjusted(v, ts[c][<<>>])]
        ways == {<<>>} \cup UNION {{<<c>> \o w : w \in DOMAIN ts[c]} : c \in DOMAIN ts}
    IN  [w \in ways |-> IF w = <<>> THEN NodeFor(v, ks)
                        ELSE IF Len(w) = 1 THEN ks[w[1]] ELSE ts[w[1]][Tail(w)]]
Trees(v) == UNION {{Join(v, ts) : ts \in TreesOf(asks)} : asks \in Asks(v)}
TreesOf(asks) ==
    IF asks = <<>> THEN {<<>>}
    ELSE {<<t>> \o ts : t \in Trees(Head(asks)), ts \in TreesOf(Tail(asks))}

MCPlans(p) == Trees(RootAsk(p))
ASSUME \A p \in Problems : \A T \in MCPlans(p) : PlanOf(T, p)

MCRoots == {Layout(T) : T \in UNION {MCPlans(p) : p \in Problems}}
=============================================================================
