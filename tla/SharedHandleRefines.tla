------------------------ MODULE SharedHandleRefines ------------------------
(***************************************************************************)
(* The handle implements the calls of FftCalls: scratch memory, the claim  *)
(* and the slabs are invisible to callers.                                 *)
(***************************************************************************)
EXTENDS SharedHandle

(* The output of a running call has been written to. *)
OutputTouched(t) ==
    Running(t) /\ \E k \in 1 .. step[t] : RouteOf(t)[k] = "out"

phaseBar ==
    [t \in Threads |->
        CASE pc[t] = "idle" -> "idle"
          [] pc[t] \in {"release", "free", "done"} -> "returned"
          [] OutputTouched(t) -> "working"
          [] OTHER -> "called"]

reqBar == [t \in Threads |-> [in |-> call[t].in, out |-> call[t].out]]

resultBar ==
    [t \in Threads |-> IF phaseBar[t] = "returned" THEN status[t] ELSE NULL]

dataBar ==
    [b \in Bufs |->
        IF \E t \in Threads : OutputTouched(t) /\ call[t].out = b THEN Junk ELSE buf[b]]

Calls == INSTANCE FftCalls WITH
    phase <- phaseBar, req <- reqBar, result <- resultBar, data <- dataBar,
    Undefined <- Junk

(* Every step of the handle is a step of FftCalls or invisible to callers: a
   call that succeeds has transformed its own input, one that fails has not
   touched its output, and no call disturbs the buffers of another. *)
ImplementsFftCalls == Calls!Spec
=============================================================================
