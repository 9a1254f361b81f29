------------------------------ MODULE FuseVecs ------------------------------
(* Loops over transforms, innermost first, each [n, is, os]: count, input   *)
(* stride and output stride.  Setup replaces a run of loops that step over  *)
(* memory as one loop would by that loop.                                   *)
EXTENDS Integers, SequencesExt

(* Faulty variant: only the input strides are compared.                     *)
ContinuesInput(u, v) == u.n * u.is = v.is

(* Loop v goes on where the loop u inside it ends, on both sides.           *)
Continues(u, v) == u.n * u.is = v.is /\ u.n * u.os = v.os

(* A group of loops keeps the strides of its first one.  The second loop    *)
(* joins the first only if mayFuseFirst: a kernel takes the transform, or   *)
(* its dimension is the innermost one.                                      *)
fuse_vecs(vecs, mayFuseFirst) ==
    LET step(out, i) ==
            IF Continues(vecs[i - 1], vecs[i]) /\ (i # 2 \/ mayFuseFirst)
            THEN [out EXCEPT ![Len(out)].n = @ * vecs[i].n]
            ELSE Append(out, vecs[i])
    IN  FoldLeft(step, <<vecs[1]>>, [k \in 1 .. Len(vecs) - 1 |-> k + 1])
=============================================================================
