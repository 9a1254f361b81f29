------------------------------ MODULE Bluestein ------------------------------
(***************************************************************************)
(* The Bluestein solvers: a transform of N points by a convolution of M    *)
(* points in scratch memory.  Several calls run at once, one per thread of *)
(* a batched parent; they share the two pools bs_in and bs_out, each call  *)
(* owning the slot its bs_slot_idx selects.  The multi-threaded solver     *)
(* dispatches the element-wise steps to Threads workers, each with the     *)
(* chunk chunk_range gives it, and waits for all of them after every step; *)
(* with one thread the model is the sequential solver.                     *)
(*                                                                         *)
(* An element holds whose datum it is and the stage of the algorithm it    *)
(* has reached.  The chirp factors, the FFTs and the scaling are operations*)
(* on stages that yield a bad element when applied to the wrong stage, in  *)
(* the wrong direction or to a mixture of data.                            *)
(***************************************************************************)
EXTENDS ChunkRange

CONSTANTS
    N, M,     \* points of the transform and of the convolution
    Threads,  \* workers of a dispatch (thread_info->n_threads)
    Align,    \* elements per MIN_ALIGNMENT bytes
    NumCalls, \* concurrent invocations (active_threads of the node)
    InPlace   \* BOOLEAN: cur_in = cur_out

ASSUME Sizes ==
    /\ N \in Nat \ {0} /\ M \in Nat /\ M >= 2 * N - 1
    /\ Threads \in Nat \ {0} /\ Align \in Nat \ {0}
    /\ NumCalls \in Nat /\ InPlace \in BOOLEAN

(* The invocations, numbered by their bs_slot_idx.                          *)
Calls == 0 .. NumCalls - 1

VARIABLES
    unit,   \* BOOLEAN: the output is contiguous (out_stride = 1)
    dir,    \* per call, the direction the user asked for
    flag,   \* per call, the direction in its context flags (bs_ctx.flags)
    bsIn, bsOut, \* the shared pools, one element per address
    out,    \* per call, the caller's output buffer
    left,   \* per call, the workers of the current dispatch yet to run
    pc

vars == <<unit, dir, flag, bsIn, bsOut, out, left, pc>>

Directions == {"forward", "backward"}
Opposite(d) == IF d = "forward" THEN "backward" ELSE "forward"
Stages == {"junk", "input", "zero", "chirped", "spectrum", "product",
           "convolution", "scaled", "result", "bad"}
Workers == 0 .. Threads - 1
NoCall == -1
Element(c, s) == [of |-> c, at |-> s]
Junk == Element(NoCall, "junk")

-----------------------------------------------------------------------------
(* Where a call's slot lies *)

(* Faulty variant: slots are laid out without padding.                      *)
SlotSizeUnpadded == M

(* bs_buf_size in elements: M rounded up to the alignment.                  *)
SlotSize == NumBlocks(M, Align) * Align

(* Faulty variant: the thread's slot is forgotten.                          *)
SlotBaseShared(c) == 0

SlotBase(c) == SlotSize * c

Slot(c, n) == SlotBase(c) .. SlotBase(c) + n - 1

Pool == 0 .. SlotSize * NumCalls - 1

(* Addresses of worker w in a dispatch over n elements in blocks of a.      *)
Work(c, w, n, a) == {SlotBase(c) + i : i \in Items(Chunk(w, Threads, n, a))}

-----------------------------------------------------------------------------
(* What the operations do to an element *)

(* ele_mul[d] of call c: the chirp on the way in, the chirp's spectrum,     *)
(* the chirp on the way out.  The middle one takes the other direction.     *)
EleMul(c, d, e) ==
    IF e = Element(c, "input") /\ d = dir[c] THEN Element(c, "chirped")
    ELSE IF e = Element(c, "spectrum") /\ d = Opposite(dir[c]) THEN Element(c, "product")
    ELSE IF e = Element(c, "scaled") /\ d = dir[c] THEN Element(c, "result")
    ELSE Element(c, "bad")

Normalized(c, e) ==
    IF e = Element(c, "convolution") THEN Element(c, "scaled") ELSE Element(c, "bad")

(* The inner FFT reads all M points; its direction is the context's.        *)
ForwardFFT(c) ==
    IF /\ flag[c] = "forward"
       /\ \A a \in Slot(c, M) :
            bsIn[a] = Element(c, IF a < SlotBase(c) + N THEN "chirped" ELSE "zero")
    THEN Element(c, "spectrum") ELSE Element(c, "bad")
InverseFFT(c) ==
    IF flag[c] = "backward" /\ \A a \in Slot(c, M) : bsOut[a] = Element(c, "product")
    THEN Element(c, "convolution") ELSE Element(c, "bad")

-----------------------------------------------------------------------------
Init ==
    /\ unit \in BOOLEAN
    /\ dir \in [Calls -> Directions]
    /\ flag = dir
    /\ bsIn = [a \in Pool |-> Junk]
    /\ bsOut = [a \in Pool |-> Junk]
    /\ out = [c \in Calls |-> [i \in 0 .. N - 1 |-> IF InPlace THEN Element(c, "input") ELSE Junk]]
    /\ left = [c \in Calls |-> {}]
    /\ pc = [c \in Calls |-> "start"]

(* The call leaves its step p for q, where all workers of a dispatch run.   *)
Step(c, p, q) ==
    /\ pc[c] = p /\ left[c] = {}
    /\ pc' = [pc EXCEPT ![c] = q]
    /\ left' = [left EXCEPT ![c] = IF q \in {"premul", "product", "normalize", "postmul"}
                                   THEN Workers ELSE {}]
    /\ UNCHANGED unit

(* The N points are copied to the slot, the rest of the M zeroed, and the   *)
(* context's direction forced to forward for the first FFT.                 *)
CopyIn(c) ==
    /\ Step(c, "start", "premul")
    /\ bsIn' = [a \in Pool |-> IF a \in Slot(c, N) THEN Element(c, "input")
                               ELSE IF a \in Slot(c, M) THEN Element(c, "zero") ELSE bsIn[a]]
    /\ flag' = [flag EXCEPT ![c] = "forward"]
    /\ UNCHANGED <<dir, bsOut, out>>

(* Worker w of call c has run its part of step p.                           *)
Worked(c, w, p) ==
    /\ pc[c] = p /\ w \in left[c]
    /\ left' = [left EXCEPT ![c] = @ \ {w}]
    /\ UNCHANGED <<unit, dir, flag, pc>>

PreMul(c, w) ==
    /\ Worked(c, w, "premul")
    /\ bsIn' = [a \in Pool |-> IF a \in Work(c, w, N, 1)
                               THEN EleMul(c, dir[c], bsIn[a]) ELSE bsIn[a]]
    /\ UNCHANGED <<bsOut, out>>

(* The inner FFT of the slot of bs_in into the slot of bs_out; it may fail. *)
InnerForward(c) ==
    /\ Step(c, "forward", "product")
    /\ bsOut' = [a \in Pool |-> IF a \in Slot(c, M) THEN ForwardFFT(c) ELSE bsOut[a]]
    /\ UNCHANGED <<dir, flag, bsIn, out>>

Product(c, w) ==
    /\ Worked(c, w, "product")
    /\ bsOut' = [a \in Pool |-> IF a \in Work(c, w, M, 1)
                                THEN EleMul(c, Opposite(dir[c]), bsOut[a]) ELSE bsOut[a]]
    /\ UNCHANGED <<bsIn, out>>

(* The product turns the context to backward and swaps the two slots.       *)
SwapBuffers(c) ==
    /\ Step(c, "product", "inverse")
    /\ flag' = [flag EXCEPT ![c] = "backward"]
    /\ UNCHANGED <<dir, bsIn, bsOut, out>>

InnerInverse(c) ==
    /\ Step(c, "inverse", "normalize")
    /\ bsIn' = [a \in Pool |-> IF a \in Slot(c, M) THEN InverseFFT(c) ELSE bsIn[a]]
    /\ UNCHANGED <<dir, flag, bsOut, out>>

(* The scaling kernel loads and stores aligned blocks.                      *)
Normalize(c, w) ==
    /\ Worked(c, w, "normalize")
    /\ bsIn' = [a \in Pool |-> IF a \in Work(c, w, N, Align)
                               THEN Normalized(c, bsIn[a]) ELSE bsIn[a]]
    /\ UNCHANGED <<bsOut, out>>

(* The last chirp goes straight to a contiguous output, else back to the    *)
(* slot, to be copied out afterwards.                                       *)
PostMul(c, w) ==
    /\ Worked(c, w, "postmul")
    /\ LET part == Work(c, w, N, 1)
           y(a) == EleMul(c, dir[c], bsIn[a])
       IN  IF unit
           THEN /\ out' = [out EXCEPT ![c] = [i \in DOMAIN @ |->
                             IF SlotBase(c) + i \in part THEN y(SlotBase(c) + i) ELSE @[i]]]
                /\ UNCHANGED bsIn
           ELSE /\ bsIn' = [a \in Pool |-> IF a \in part THEN y(a) ELSE bsIn[a]]
                /\ UNCHANGED out
    /\ UNCHANGED bsOut

(* Faulty variant: one point too many is copied out.                        *)
CopyOutOneMore(c) ==
    /\ Step(c, "copyout", "done")
    /\ out' = [out EXCEPT ![c] = [i \in 0 .. N |-> bsIn[SlotBase(c) + i]]]
    /\ UNCHANGED <<dir, flag, bsIn, bsOut>>

CopyOut(c) ==
    /\ Step(c, "copyout", "done")
    /\ out' = [out EXCEPT ![c] = [i \in DOMAIN @ |-> bsIn[SlotBase(c) + i]]]
    /\ UNCHANGED <<dir, flag, bsIn, bsOut>>

(* Faulty variant: a failed inner FFT ends the call after the output was    *)
(* cleared.                                                                 *)
InnerFailsClearing(c) ==
    /\ Step(c, "forward", "failed") \/ Step(c, "inverse", "failed")
    /\ out' = [out EXCEPT ![c] = [i \in DOMAIN @ |-> Element(c, "bad")]]
    /\ UNCHANGED <<dir, flag, bsIn, bsOut>>

(* An inner FFT reports an error: the call returns it at once.              *)
InnerFails(c) ==
    /\ Step(c, "forward", "failed") \/ Step(c, "inverse", "failed")
    /\ UNCHANGED <<dir, flag, bsIn, bsOut, out>>

(* Faulty variant: the barrier counts one worker more than were started.    *)
BarrierMiscounts(c) ==
    /\ \/ Step(c, "premul", "forward") \/ Step(c, "normalize", "postmul")
       \/ Step(c, "postmul", IF unit THEN "done" ELSE "copyout")
    /\ left[c] # {}
    /\ UNCHANGED <<dir, flag, bsIn, bsOut, out>>

(* All workers of a dispatch have run: the call goes on.                    *)
Barrier(c) ==
    /\ \/ Step(c, "premul", "forward") \/ Step(c, "normalize", "postmul")
       \/ Step(c, "postmul", IF unit THEN "done" ELSE "copyout")
    /\ UNCHANGED <<dir, flag, bsIn, bsOut, out>>

CallStep(c) ==
    \/ CopyIn(c) \/ InnerForward(c) \/ SwapBuffers(c) \/ InnerInverse(c)
    \/ InnerFails(c) \/ Barrier(c) \/ CopyOut(c)
    \/ \E w \in Workers : PreMul(c, w) \/ Product(c, w) \/ Normalize(c, w) \/ PostMul(c, w)

Next == \E c \in Calls : CallStep(c)

Spec == Init /\ [][Next]_vars
FairSpec == Spec /\ \A c \in Calls : WF_vars(CallStep(c))

-----------------------------------------------------------------------------
(* Properties *)

Datum == [of : Calls \cup {NoCall}, at : Stages]

(* Every variable keeps its type, the pools their length.                   *)
TypeOK ==
    /\ unit \in BOOLEAN
    /\ dir \in [Calls -> Directions] /\ flag \in [Calls -> Directions]
    /\ bsIn \in [Pool -> Datum] /\ bsOut \in [Pool -> Datum]
    /\ out \in [Calls -> [0 .. N - 1 -> Datum]]
    /\ left \in [Calls -> SUBSET Workers]
    /\ pc \in [Calls -> {"start", "premul", "forward", "product", "inverse", "normalize",
                         "postmul", "copyout", "done", "failed"}]

(* A call that succeeds has its own transform in all N output points: every *)
(* element went through every step exactly once, in order and in the right  *)
(* direction, whatever the other calls on the pools and the workers did in  *)
(* between (execute_mt_bluestein_solver).                                   *)
ResultExact ==
    \A c \in Calls : pc[c] = "done" =>
        \A i \in 0 .. N - 1 : out[c][i] = Element(c, "result")

(* A call whose inner FFT fails has not written the output, so an in-place  *)
(* caller still has its input.                                              *)
FailureKeepsOutput ==
    \A c \in Calls : pc[c] = "failed" =>
        out[c] = [i \in 0 .. N - 1 |-> IF InPlace THEN Element(c, "input") ELSE Junk]

(* The scaling kernels of all calls start at aligned addresses of the pool: *)
(* the padding of the slots and the blocks of the chunks agree.             *)
AlignedKernels ==
    \A c \in Calls : pc[c] = "normalize" =>
        \A w \in left[c] : LET k == Chunk(w, Threads, N, Align) IN
            k.size > 0 => (SlotBase(c) + k.start) % Align = 0

(* A step of one call changes the pools in that call's slot only: no other  *)
(* call's slot, whole and padded, loses an element.                         *)
SlotsApart ==
    [][\A c \in Calls : pc'[c] = pc[c] /\ left'[c] = left[c] =>
        \A a \in SlotSize * c .. SlotSize * (c + 1) - 1 :
            bsIn'[a] = bsIn[a] /\ bsOut'[a] = bsOut[a]]_vars

(* Every call ends, with or without an error.                               *)
CallsEnd == \A c \in Calls : pc[c] = "start" ~> pc[c] \in {"done", "failed"}
=============================================================================
