------------------------------ MODULE FftCalls ------------------------------
(***************************************************************************)
(* What the execute API promises its callers: each call on a handle, from  *)
(* whatever thread, takes its input and leaves the transform of it in its  *)
(* output, or fails and leaves its output alone.  The output is undefined  *)
(* from the moment the call starts working until it returns; calls never   *)
(* see one another.                                                        *)
(***************************************************************************)
CONSTANTS Threads, Bufs, NULL, Fft(_), Raw(_), Undefined

Failures == {"EXECUTION_FAILURE", "MEMORY_FAILURE"}

VARIABLES phase, req, result, data

vars == <<phase, req, result, data>>

NoReq == [in |-> NULL, out |-> NULL]

Init ==
    /\ phase = [t \in Threads |-> "idle"]
    /\ req = [t \in Threads |-> NoReq]
    /\ result = [t \in Threads |-> NULL]
    /\ data = [b \in Bufs |-> Undefined]

(* The caller fills its buffers and calls. *)
Begin(t, in, out) ==
    /\ phase[t] = "idle"
    /\ phase' = [phase EXCEPT ![t] = "called"]
    /\ req' = [req EXCEPT ![t] = [in |-> in, out |-> out]]
    /\ data' = [data EXCEPT ![in] = Raw(in), ![out] = Raw(out)]
    /\ UNCHANGED result

(* The call starts overwriting its output. *)
Work(t) ==
    /\ phase[t] = "called"
    /\ phase' = [phase EXCEPT ![t] = "working"]
    /\ data' = [data EXCEPT ![req[t].out] = Undefined]
    /\ UNCHANGED <<req, result>>

(* The transform is in out when the call returns SUCCESS. *)
Succeed(t) ==
    /\ phase[t] \in {"called", "working"}
    /\ phase' = [phase EXCEPT ![t] = "returned"]
    /\ data' = [data EXCEPT ![req[t].out] = Fft(req[t].in)]
    /\ result' = [result EXCEPT ![t] = "SUCCESS"]
    /\ UNCHANGED req

(* A call fails only before it touched its output. *)
Fail(t) ==
    /\ phase[t] = "called"
    /\ phase' = [phase EXCEPT ![t] = "returned"]
    /\ \E f \in Failures : result' = [result EXCEPT ![t] = f]
    /\ UNCHANGED <<req, data>>

(* A call without buffers fails at once. *)
FailNull(t) ==
    /\ phase[t] = "idle"
    /\ phase' = [phase EXCEPT ![t] = "returned"]
    /\ result' = [result EXCEPT ![t] = "EXECUTION_FAILURE"]
    /\ UNCHANGED <<req, data>>

Collect(t) ==
    /\ phase[t] = "returned"
    /\ phase' = [phase EXCEPT ![t] = "idle"]
    /\ req' = [req EXCEPT ![t] = NoReq]
    /\ result' = [result EXCEPT ![t] = NULL]
    /\ UNCHANGED data

(* Between calls, when the handle is replaced, the caller may do anything
   with its buffers. *)
Scribble ==
    /\ \A t \in Threads : phase[t] = "idle"
    /\ data' = [b \in Bufs |-> Undefined]
    /\ UNCHANGED <<phase, req, result>>

Next ==
    \/ Scribble
    \/ \E t \in Threads :
         \/ \E in, out \in Bufs : Begin(t, in, out)
         \/ Work(t)
         \/ Succeed(t)
         \/ Fail(t)
         \/ FailNull(t)
         \/ Collect(t)

Spec == Init /\ [][Next]_vars
=============================================================================
