--------------------------- MODULE MCDirectSplit ---------------------------
(* Nodes small enough to run all orders of their jobs, of every kind, for   *)
(* every SIMD level and precision, the counts reaching past one full        *)
(* register of the widest (8 complex floats) into each of its tails.        *)
EXTENDS DirectSplit

Kernels == {[isa |-> i, prec |-> f] : i \in 0 .. 3, f \in {"float", "double"}}

Node(kind, k, n, batches, freq, groups, forward, avl) ==
    [kind |-> kind, n |-> n, batches |-> batches, freq |-> freq, groups |-> groups,
     radix |-> 3, isa |-> k.isa, prec |-> k.prec, forward |-> forward, avl |-> avl]

(* Bound on the jobs of a node.                                             *)
MaxJobs == 8

MCProblems ==
    {p \in {Node("plain", k, n, 1, 1, 1, TRUE, 2) : k \in Kernels, n \in 1 .. 15}
           \cup {Node(kind, k, 2, b, 1, 1, TRUE, t) :
                    kind \in {"rowmajor", "colmajor"}, k \in Kernels, b \in 1 .. 18, t \in 2 .. 3}
           \cup {Node("direct", k, n, 1, 1, 1, TRUE, 2) : k \in Kernels, n \in 1 .. 17}
           \cup {Node("stage", k, 1, 1, f, g, d, t) :
                    k \in Kernels, f \in 1 .. 8, g \in 1 .. 4, d \in BOOLEAN, t \in 2 .. 4} :
        Cardinality(Jobs(p)) <= MaxJobs}
=============================================================================
