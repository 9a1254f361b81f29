----------------------------- MODULE MCRealBatch -----------------------------
(* Problems and bounds for model-checking RealBatch. *)
EXTENDS RealBatch

CONSTANTS x, y

V(n, is, os) == [n |-> n, is |-> is, os |-> os]

Loops(vs) == [size1 |-> FALSE, dir |-> FORWARD_FFT_DIR, inplace |-> FALSE,
              fuseFirst |-> TRUE, threads |-> 1, vecs |-> vs]

(* One loop; two that fuse; two that fuse on the input side only; three of
   which the last two fuse; three of which none do; a loop of one batch. *)
Shapes == {<<V(3, 5, 4)>>,
           <<V(2, 4, 3), V(2, 8, 6)>>,
           <<V(2, 4, 3), V(2, 8, 9)>>,
           <<V(2, 4, 3), V(2, 20, 15), V(2, 40, 30)>>,
           <<V(2, 1, 1), V(2, 4, 3), V(2, 20, 10)>>,
           <<V(1, 4, 3), V(3, 7, 5)>>}

(* In-place problems: the complex stride is half the real one. *)
InPlaceForward == {<<V(2, 8, 4), V(2, 40, 20)>>}
InPlaceBackward == {<<V(2, 4, 8), V(2, 20, 40)>>}

Directed(S, d) == {[Loops(vs) EXCEPT !.dir = d] : vs \in S}
OutOfPlace == Directed(Shapes, FORWARD_FFT_DIR) \cup Directed(Shapes, BACKWARD_FFT_DIR)
InPlace == {[p EXCEPT !.inplace = TRUE] :
              p \in Directed(InPlaceForward, FORWARD_FFT_DIR)
                    \cup Directed(InPlaceBackward, BACKWARD_FFT_DIR)}
Wide(S) == S \cup {[p EXCEPT !.fuseFirst = FALSE] : p \in S}

(* Size-one transforms whose loops fuse into one. *)
SizeOneFused ==
    {[Loops(vs) EXCEPT !.size1 = TRUE, !.dir = d] :
        vs \in {<<V(3, 5, 4)>>, <<V(2, 4, 3), V(2, 8, 6)>>},
        d \in {FORWARD_FFT_DIR, BACKWARD_FFT_DIR}}
    \cup {[Loops(<<V(3, 2, 4)>>) EXCEPT !.size1 = TRUE, !.inplace = TRUE,
                                        !.dir = BACKWARD_FFT_DIR]}

MCProblems ==
    SizeOneFused \cup UNION {
      {[p EXCEPT !.threads = k] : p \in Wide(OutOfPlace) \cup InPlace} : k \in {1, 3}}

(* Size-one transforms whose loops do not fuse. *)
MCProblemsSizeOne ==
    {[Loops(<<V(2, 1, 1), V(2, 4, 4)>>) EXCEPT !.size1 = TRUE]}

MCBufs == {x, y}

(* These problems meet the hypotheses of the theorem EachBatchOnce.         *)
ASSUME Problems = MCProblems => ProblemsApart /\ SizeOneFuses
=============================================================================
