----------------------------- MODULE MCBluestein -----------------------------
(* Bounds for model-checking Bluestein: two calls on neighbouring slots, a  *)
(* convolution whose length is no multiple of the alignment, and chunks     *)
(* that are uneven (three workers on seven points) or, for the copies of    *)
(* four points, partly empty.                                               *)
EXTENDS Bluestein
=============================================================================
