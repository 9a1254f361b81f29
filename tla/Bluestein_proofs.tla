--------------------------- MODULE Bluestein_proofs ---------------------------
(***************************************************************************)
(* Proofs about the Bluestein solvers for any number of points, workers,   *)
(* calls and any alignment: slots do not meet, a call that fails has not   *)
(* written its output, the scaling kernels are aligned, and a call that    *)
(* succeeds has its own transform in every point of the output.            *)
(***************************************************************************)
EXTENDS Bluestein, ChunkRange_proofs

(* Slots: where they begin, that they lie in the pools, and that they are   *)
(* apart.                                                                   *)
LEMMA SlotHoldsM == SlotSize \in Nat /\ M <= SlotSize /\ N <= M
<1>1. M \in Nat /\ N \in Nat /\ N >= 1 /\ Align \in Nat \ {0} /\ M >= 2 * N - 1
  BY Sizes
<1>2. NumBlocks(M, Align) \in Nat /\ M <= NumBlocks(M, Align) * Align
  BY <1>1, BlockCount, 1 \in Nat \ {0}
<1>3. NumBlocks(M, Align) * Align \in Nat
  BY <1>1, <1>2
<1> QED BY <1>1, <1>2, <1>3 DEF SlotSize

LEMMA Products ==
    ASSUME NEW s \in Nat, NEW c \in Nat, NEW n \in Nat, c < n
    PROVE  s * c \in Nat /\ s * c + s <= s * n
<1>1. s * (c + 1) = s * c + s
  OBVIOUS
<1>2. (c + 1) * s <= n * s
  BY MulMono, c + 1 \in Nat
<1>3. s * c \in Nat /\ s * n = n * s /\ s * (c + 1) = (c + 1) * s
  OBVIOUS
<1> QED BY <1>1, <1>2, <1>3

LEMMA SlotBaseNat ==
    ASSUME NEW c \in Calls
    PROVE  SlotBase(c) \in Nat
<1>1. c \in Nat
  BY Sizes DEF Calls
<1> QED BY <1>1, SlotHoldsM DEF SlotBase

LEMMA InPool ==
    ASSUME NEW c \in Calls, NEW i \in 0 .. SlotSize - 1
    PROVE  SlotBase(c) + i \in Pool
<1>1. c \in Nat /\ NumCalls \in Nat /\ c < NumCalls
  BY Sizes DEF Calls
<1>2. SlotSize * c \in Nat /\ SlotSize * c + SlotSize <= SlotSize * NumCalls
  BY <1>1, SlotHoldsM, Products
<1>3. SlotSize \in Nat /\ SlotSize * NumCalls \in Nat
  BY <1>1, SlotHoldsM
<1> QED BY <1>2, <1>3 DEF SlotBase, Pool

LEMMA SlotsDisjoint ==
    ASSUME NEW c \in Calls, NEW d \in Calls, c # d,
           NEW i \in 0 .. SlotSize - 1, NEW j \in 0 .. SlotSize - 1
    PROVE  SlotBase(c) + i # SlotBase(d) + j
<1>1. c \in Nat /\ d \in Nat /\ SlotSize \in Nat
  BY Sizes, SlotHoldsM DEF Calls
<1>2. CASE c < d
  <2>1. SlotSize * c \in Nat /\ SlotSize * c + SlotSize <= SlotSize * d
    BY <1>1, <1>2, Products
  <2>2. SlotSize * d \in Nat
    BY <1>1
  <2> QED BY <1>1, <2>1, <2>2 DEF SlotBase
<1>3. CASE d < c
  <2>1. SlotSize * d \in Nat /\ SlotSize * d + SlotSize <= SlotSize * c
    BY <1>1, <1>3, Products
  <2>2. SlotSize * c \in Nat
    BY <1>1
  <2> QED BY <1>1, <2>1, <2>2 DEF SlotBase
<1> QED BY <1>1, <1>2, <1>3

LEMMA SlotMember ==
    ASSUME NEW c \in Calls, NEW i \in Int, NEW n \in Nat
    PROVE  SlotBase(c) + i \in Slot(c, n) <=> i \in 0 .. n - 1
BY SlotBaseNat DEF Slot

(* The chunks of the workers of a dispatch over n points.                   *)
Part(w, n, a) == Items(Chunk(w, Threads, n, a))

LEMMA WorkMember ==
    ASSUME NEW c \in Calls, NEW w, NEW n, NEW a, NEW i \in Int,
           Part(w, n, a) \subseteq Int
    PROVE  SlotBase(c) + i \in Work(c, w, n, a) <=> i \in Part(w, n, a)
BY SlotBaseNat DEF Work, Part

LEMMA PartsCover ==
    ASSUME NEW n \in Nat, NEW a \in Nat \ {0}
    PROVE  /\ \A w \in Workers : Part(w, n, a) \subseteq 0 .. n - 1
           /\ \A i \in 0 .. n - 1 : \E w \in Workers : i \in Part(w, n, a)
<1>1. UNION {Items(Chunk(t, Threads, n, a)) : t \in 0 .. Threads - 1} = 0 .. n - 1
  BY ChunksCover, Sizes
<1> QED BY <1>1 DEF Part, Workers

LEMMA PartsDisjoint ==
    ASSUME NEW n \in Nat, NEW a \in Nat \ {0},
           NEW w \in Workers, NEW v \in Workers, w # v
    PROVE  Part(w, n, a) \cap Part(v, n, a) = {}
BY ChunksDisjoint, Sizes DEF Part, Workers

(* Types of the elements, and what the operations make of the right stage.  *)
LEMMA ElementType ==
    ASSUME NEW c \in Calls \cup {NoCall}, NEW s \in Stages
    PROVE  Element(c, s) \in Datum
BY DEF Element, Datum

LEMMA ElementStage ==
    ASSUME NEW c, NEW s, NEW t, Element(c, s) = Element(c, t)
    PROVE  s = t
<1>1. Element(c, s).at = s /\ Element(c, t).at = t
  BY DEF Element
<1> QED BY <1>1

LEMMA OperationTypes ==
    ASSUME NEW c \in Calls, NEW d, NEW e
    PROVE  /\ EleMul(c, d, e) \in Datum
           /\ Normalized(c, e) \in Datum
           /\ ForwardFFT(c) \in Datum
           /\ InverseFFT(c) \in Datum
<1>1. \A s \in Stages : Element(c, s) \in Datum
  BY ElementType
<1>2. {"chirped", "product", "result", "bad", "scaled", "spectrum", "convolution"} \subseteq Stages
  BY DEF Stages
<1> QED BY <1>1, <1>2 DEF EleMul, Normalized, ForwardFFT, InverseFFT

LEMMA RightStage ==
    ASSUME NEW c \in Calls
    PROVE  /\ EleMul(c, dir[c], Element(c, "input")) = Element(c, "chirped")
           /\ EleMul(c, Opposite(dir[c]), Element(c, "spectrum")) = Element(c, "product")
           /\ EleMul(c, dir[c], Element(c, "scaled")) = Element(c, "result")
           /\ Normalized(c, Element(c, "convolution")) = Element(c, "scaled")
<1>1. /\ Element(c, "spectrum") # Element(c, "input")
      /\ Element(c, "scaled") # Element(c, "input")
      /\ Element(c, "scaled") # Element(c, "spectrum")
  BY ElementStage
<1> QED BY <1>1 DEF EleMul, Normalized

(* Types: every step keeps them.                                            *)
LEMMA InitType == Init => TypeOK
<1>1. Junk \in Datum /\ \A c \in Calls : Element(c, "input") \in Datum
  BY ElementType DEF Junk, Stages
<1> QED BY <1>1 DEF Init, TypeOK, Workers

LEMMA StepType ==
    ASSUME TypeOK, NEW c \in Calls, NEW p, NEW q, Step(c, p, q),
           q \in {"start", "premul", "forward", "product", "inverse", "normalize",
                  "postmul", "copyout", "done", "failed"}
    PROVE  /\ unit' \in BOOLEAN
           /\ left' \in [Calls -> SUBSET Workers]
           /\ pc' \in [Calls -> {"start", "premul", "forward", "product", "inverse",
                                 "normalize", "postmul", "copyout", "done", "failed"}]
BY DEF TypeOK, Step

LEMMA NextType == TypeOK /\ [Next]_vars => TypeOK'
<1> SUFFICES ASSUME TypeOK, [Next]_vars
             PROVE  TypeOK'
  OBVIOUS
<1>s. \A c \in Calls : \A s \in Stages : Element(c, s) \in Datum
  BY ElementType
<1>o. \A c \in Calls : \A d, e : /\ EleMul(c, d, e) \in Datum
                                 /\ Normalized(c, e) \in Datum
                                 /\ ForwardFFT(c) \in Datum
                                 /\ InverseFFT(c) \in Datum
  BY OperationTypes
<1>1. CASE UNCHANGED vars
  BY <1>1 DEF vars, TypeOK
<1>2. ASSUME NEW c \in Calls, CopyIn(c)
      PROVE  TypeOK'
  <2>1. Element(c, "input") \in Datum /\ Element(c, "zero") \in Datum
    BY <1>s DEF Stages
  <2> QED BY <1>2, <2>1, StepType DEF CopyIn, TypeOK, Directions
<1>3. ASSUME NEW c \in Calls, InnerForward(c)
      PROVE  TypeOK'
  BY <1>3, <1>o, StepType DEF InnerForward, TypeOK
<1>4. ASSUME NEW c \in Calls, SwapBuffers(c)
      PROVE  TypeOK'
  BY <1>4, StepType DEF SwapBuffers, TypeOK, Directions
<1>5. ASSUME NEW c \in Calls, InnerInverse(c)
      PROVE  TypeOK'
  BY <1>5, <1>o, StepType DEF InnerInverse, TypeOK
<1>6. ASSUME NEW c \in Calls, InnerFails(c)
      PROVE  TypeOK'
  BY <1>6, StepType DEF InnerFails, TypeOK
<1>7. ASSUME NEW c \in Calls, Barrier(c)
      PROVE  TypeOK'
  BY <1>7, StepType DEF Barrier, TypeOK
<1>8. ASSUME NEW c \in Calls, CopyOut(c)
      PROVE  TypeOK'
  <2>1. \A i \in 0 .. N - 1 : SlotBase(c) + i \in Pool
    <3>1. \A i \in 0 .. N - 1 : i \in 0 .. SlotSize - 1
      BY Sizes, SlotHoldsM
    <3> QED BY <3>1, InPool
  <2>2. [i \in DOMAIN out[c] |-> bsIn[SlotBase(c) + i]] \in [0 .. N - 1 -> Datum]
    BY <2>1 DEF TypeOK
  <2> QED BY <1>8, <2>2, StepType DEF CopyOut, TypeOK
<1>9. ASSUME NEW c \in Calls, NEW w \in Workers, PreMul(c, w)
      PROVE  TypeOK'
  BY <1>9, <1>o DEF PreMul, Worked, TypeOK
<1>10. ASSUME NEW c \in Calls, NEW w \in Workers, Product(c, w)
       PROVE  TypeOK'
  BY <1>10, <1>o DEF Product, Worked, TypeOK
<1>11. ASSUME NEW c \in Calls, NEW w \in Workers, Normalize(c, w)
       PROVE  TypeOK'
  BY <1>11, <1>o DEF Normalize, Worked, TypeOK
<1>12. ASSUME NEW c \in Calls, NEW w \in Workers, PostMul(c, w)
       PROVE  TypeOK'
  <2>1. CASE unit
    <3>1. bsIn' = bsIn /\ bsOut' = bsOut /\ UNCHANGED <<unit, dir, flag, pc>>
      BY <1>12, <2>1 DEF PostMul, Worked
    <3>2. out' \in [Calls -> [0 .. N - 1 -> Datum]]
      <4> DEFINE part == Work(c, w, N, 1)
                 y(a) == EleMul(c, dir[c], bsIn[a])
      <4>1. \A a : y(a) \in Datum
        BY <1>o
      <4>2. out' = [out EXCEPT ![c] = [i \in DOMAIN out[c] |->
                      IF SlotBase(c) + i \in part THEN y(SlotBase(c) + i) ELSE out[c][i]]]
        BY <1>12, <2>1 DEF PostMul
      <4> HIDE DEF part, y
      <4> QED BY <4>1, <4>2 DEF TypeOK
    <3>3. left' \in [Calls -> SUBSET Workers]
      BY <1>12 DEF PostMul, Worked, TypeOK
    <3> QED BY <3>1, <3>2, <3>3 DEF TypeOK
  <2>2. CASE ~unit
    BY <1>12, <2>2, <1>o DEF PostMul, Worked, TypeOK
  <2> QED BY <2>1, <2>2
<1> QED BY <1>1, <1>2, <1>3, <1>4, <1>5, <1>6, <1>7, <1>8, <1>9, <1>10, <1>11, <1>12
        DEF Next, CallStep

(* Every variable keeps its type, whatever the calls do.                    *)
THEOREM TypeCorrect == Spec => []TypeOK
<1> QED BY InitType, NextType, PTL DEF Spec

-----------------------------------------------------------------------------
(* The inductive invariant: at every step of a call, how far each element   *)
(* of its slots has come.                                                   *)
In(c, i) == bsIn[SlotBase(c) + i]
Bo(c, i) == bsOut[SlotBase(c) + i]
Pending(c, i, n, a) == \E w \in left[c] : i \in Part(w, n, a)
Original(c) == [i \in 0 .. N - 1 |-> IF InPlace THEN Element(c, "input") ELSE Junk]

Idle(c) ==
    pc[c] \notin {"premul", "product", "normalize", "postmul"} => left[c] = {}

Turned(c) ==
    /\ pc[c] \in {"premul", "forward"} => flag[c] = "forward"
    /\ pc[c] = "inverse" => flag[c] = "backward"

Chirping(c) ==
    pc[c] \in {"premul", "forward"} =>
        /\ \A i \in 0 .. N - 1 :
             In(c, i) = Element(c, IF Pending(c, i, N, 1) THEN "input" ELSE "chirped")
        /\ \A i \in N .. M - 1 : In(c, i) = Element(c, "zero")

Multiplying(c) ==
    pc[c] \in {"product", "inverse"} =>
        \A i \in 0 .. M - 1 :
            Bo(c, i) = Element(c, IF Pending(c, i, M, 1) THEN "spectrum" ELSE "product")

Scaling(c) ==
    pc[c] = "normalize" =>
        \A i \in 0 .. N - 1 :
            In(c, i) = Element(c, IF Pending(c, i, N, Align) THEN "convolution" ELSE "scaled")

FinishedOut(c, i) ==
    /\ In(c, i) = Element(c, "scaled")
    /\ ~Pending(c, i, N, 1) => out[c][i] = Element(c, "result")

FinishedIn(c, i) ==
    In(c, i) = Element(c, IF Pending(c, i, N, 1) THEN "scaled" ELSE "result")

Finishing(c) ==
    pc[c] = "postmul" =>
        \A i \in 0 .. N - 1 : IF unit THEN FinishedOut(c, i) ELSE FinishedIn(c, i)

Copying(c) ==
    pc[c] = "copyout" => \A i \in 0 .. N - 1 : In(c, i) = Element(c, "result")

Finished(c) ==
    pc[c] = "done" => \A i \in 0 .. N - 1 : out[c][i] = Element(c, "result")

Unwritten(c) ==
    pc[c] \notin {"postmul", "copyout", "done"} => out[c] = Original(c)

CallInv(c) ==
    /\ Idle(c) /\ Turned(c) /\ Chirping(c) /\ Multiplying(c) /\ Scaling(c)
    /\ Finishing(c) /\ Copying(c) /\ Finished(c) /\ Unwritten(c)

IInv == TypeOK /\ \A c \in Calls : CallInv(c)

(* A step that leaves a call's slots, output, workers and context alone     *)
(* keeps the invariant of that call.                                        *)
Undisturbed(c) ==
    /\ \A i \in 0 .. SlotSize - 1 : In(c, i)' = In(c, i) /\ Bo(c, i)' = Bo(c, i)
    /\ pc'[c] = pc[c] /\ left'[c] = left[c] /\ flag'[c] = flag[c]
    /\ out'[c] = out[c] /\ unit' = unit

LEMMA Indices ==
    /\ 0 .. N - 1 \subseteq 0 .. SlotSize - 1
    /\ 0 .. M - 1 \subseteq 0 .. SlotSize - 1
    /\ N .. M - 1 \subseteq 0 .. SlotSize - 1
BY SlotHoldsM, Sizes

LEMMA UndisturbedKeeps ==
    ASSUME NEW c \in Calls, CallInv(c), Undisturbed(c)
    PROVE  CallInv(c)'
<1>1. \A i, n, a : Pending(c, i, n, a)' = Pending(c, i, n, a)
  BY DEF Undisturbed, Pending
<1>2. /\ \A i \in 0 .. N - 1 : In(c, i)' = In(c, i)
      /\ \A i \in 0 .. M - 1 : Bo(c, i)' = Bo(c, i)
      /\ \A i \in N .. M - 1 : In(c, i)' = In(c, i)
  BY Indices DEF Undisturbed
<1>3. pc'[c] = pc[c] /\ left'[c] = left[c] /\ flag'[c] = flag[c] /\ out'[c] = out[c] /\ unit' = unit
  BY DEF Undisturbed
<1>4. Original(c)' = Original(c)
  BY DEF Original, Element, Junk
<1>5. Idle(c)' /\ Turned(c)' /\ Finished(c)' /\ Unwritten(c)'
  BY <1>3, <1>4 DEF CallInv, Idle, Turned, Finished, Unwritten, Element
<1>6. Chirping(c)'
  BY <1>1, <1>2, <1>3 DEF CallInv, Chirping, Element
<1>7. Multiplying(c)' /\ Scaling(c)'
  BY <1>1, <1>2, <1>3 DEF CallInv, Multiplying, Scaling, Element
<1>8. Finishing(c)' /\ Copying(c)'
  BY <1>1, <1>2, <1>3 DEF CallInv, Finishing, FinishedOut, FinishedIn, Copying, Element
<1> QED BY <1>5, <1>6, <1>7, <1>8 DEF CallInv

(* The step of another call leaves this one undisturbed.                    *)
LEMMA ElsewhereSlot ==
    ASSUME NEW c \in Calls, NEW d \in Calls, c # d,
           NEW i \in 0 .. SlotSize - 1, NEW n \in 0 .. SlotSize
    PROVE  SlotBase(c) + i \notin Slot(d, n)
<1> SUFFICES ASSUME SlotBase(c) + i \in Slot(d, n)
             PROVE  FALSE
  OBVIOUS
<1>1. SlotBase(c) \in Nat /\ SlotBase(d) \in Nat /\ SlotSize \in Nat
  BY SlotBaseNat, SlotHoldsM
<1>2. PICK j \in 0 .. SlotSize - 1 : SlotBase(c) + i = SlotBase(d) + j
  <2> DEFINE j == SlotBase(c) + i - SlotBase(d)
  <2>1. j \in 0 .. SlotSize - 1 /\ SlotBase(c) + i = SlotBase(d) + j
    BY <1>1 DEF Slot
  <2> QED BY <2>1
<1> QED BY <1>2, SlotsDisjoint

LEMMA WorkInSlot ==
    ASSUME NEW d \in Calls, NEW w \in Workers, NEW n \in Nat, NEW a \in Nat \ {0}
    PROVE  Work(d, w, n, a) \subseteq Slot(d, n)
<1>1. Part(w, n, a) \subseteq 0 .. n - 1
  BY PartsCover
<1>2. Work(d, w, n, a) = {SlotBase(d) + i : i \in Part(w, n, a)}
  BY DEF Work, Part
<1> QED BY <1>1, <1>2, SlotBaseNat DEF Slot

LEMMA Elsewhere ==
    ASSUME NEW c \in Calls, NEW d \in Calls, c # d,
           NEW i \in 0 .. SlotSize - 1, NEW w \in Workers
    PROVE  /\ SlotBase(c) + i \in Pool
           /\ SlotBase(c) + i \notin Slot(d, N)
           /\ SlotBase(c) + i \notin Slot(d, M)
           /\ SlotBase(c) + i \notin Work(d, w, N, 1)
           /\ SlotBase(c) + i \notin Work(d, w, M, 1)
           /\ SlotBase(c) + i \notin Work(d, w, N, Align)
<1>1. SlotBase(c) + i \in Pool
  BY InPool
<1>2. /\ N \in Nat /\ M \in Nat /\ SlotSize \in Nat
      /\ N \in 0 .. SlotSize /\ M \in 0 .. SlotSize
      /\ Align \in Nat \ {0} /\ 1 \in Nat \ {0}
  BY Sizes, SlotHoldsM
<1>3. SlotBase(c) + i \notin Slot(d, N) /\ SlotBase(c) + i \notin Slot(d, M)
  BY <1>2, ElsewhereSlot
<1>4. /\ Work(d, w, N, 1) \subseteq Slot(d, N)
      /\ Work(d, w, M, 1) \subseteq Slot(d, M)
      /\ Work(d, w, N, Align) \subseteq Slot(d, N)
  BY <1>2, WorkInSlot
<1> QED BY <1>1, <1>3, <1>4

LEMMA OthersUndisturbed ==
    ASSUME TypeOK, NEW d \in Calls, CallStep(d), NEW c \in Calls, c # d
    PROVE  Undisturbed(c)
<1>1. 0 \in Workers
  BY Sizes DEF Workers
<1>2. \A i \in 0 .. SlotSize - 1 : \A w \in Workers :
        /\ SlotBase(c) + i \in Pool
        /\ SlotBase(c) + i \notin Slot(d, N)
        /\ SlotBase(c) + i \notin Slot(d, M)
        /\ SlotBase(c) + i \notin Work(d, w, N, 1)
        /\ SlotBase(c) + i \notin Work(d, w, M, 1)
        /\ SlotBase(c) + i \notin Work(d, w, N, Align)
  BY Elsewhere
<1>3. \A i \in 0 .. SlotSize - 1 :
        /\ SlotBase(c) + i \in Pool
        /\ SlotBase(c) + i \notin Slot(d, N)
        /\ SlotBase(c) + i \notin Slot(d, M)
  BY <1>1, <1>2
<1>4. CASE CopyIn(d)
  BY <1>3, <1>4 DEF CopyIn, Step, TypeOK, Undisturbed, In, Bo
<1>5. CASE InnerForward(d)
  BY <1>3, <1>5 DEF InnerForward, Step, TypeOK, Undisturbed, In, Bo
<1>6. CASE SwapBuffers(d)
  BY <1>6 DEF SwapBuffers, Step, TypeOK, Undisturbed, In, Bo
<1>7. CASE InnerInverse(d)
  BY <1>3, <1>7 DEF InnerInverse, Step, TypeOK, Undisturbed, In, Bo
<1>8. CASE InnerFails(d)
  BY <1>8 DEF InnerFails, Step, TypeOK, Undisturbed, In, Bo
<1>9. CASE Barrier(d)
  BY <1>9 DEF Barrier, Step, TypeOK, Undisturbed, In, Bo
<1>10. CASE CopyOut(d)
  BY <1>10 DEF CopyOut, Step, TypeOK, Undisturbed, In, Bo
<1>11. ASSUME NEW w \in Workers, PreMul(d, w) PROVE Undisturbed(c)
  BY <1>2, <1>11 DEF PreMul, Worked, TypeOK, Undisturbed, In, Bo
<1>12. ASSUME NEW w \in Workers, Product(d, w) PROVE Undisturbed(c)
  BY <1>2, <1>12 DEF Product, Worked, TypeOK, Undisturbed, In, Bo
<1>13. ASSUME NEW w \in Workers, Normalize(d, w) PROVE Undisturbed(c)
  BY <1>2, <1>13 DEF Normalize, Worked, TypeOK, Undisturbed, In, Bo
<1>14. ASSUME NEW w \in Workers, PostMul(d, w) PROVE Undisturbed(c)
  BY <1>2, <1>14 DEF PostMul, Worked, TypeOK, Undisturbed, In, Bo
<1> QED BY <1>4, <1>5, <1>6, <1>7, <1>8, <1>9, <1>10, <1>11, <1>12, <1>13, <1>14
        DEF CallStep

(* Which elements are pending before and after a step.                      *)
LEMMA WorkerDone ==
    ASSUME TypeOK, NEW c \in Calls, NEW w \in Workers, NEW p, Worked(c, w, p),
           NEW n \in Nat, NEW a \in Nat \ {0}, NEW i
    PROVE  /\ i \in Part(w, n, a) => Pending(c, i, n, a) /\ ~Pending(c, i, n, a)'
           /\ i \notin Part(w, n, a) => (Pending(c, i, n, a)' <=> Pending(c, i, n, a))
<1>1. left'[c] = left[c] \ {w} /\ w \in left[c] /\ left[c] \subseteq Workers
  BY DEF Worked, TypeOK
<1>2. ASSUME i \in Part(w, n, a), NEW v \in left[c], v # w
      PROVE  i \notin Part(v, n, a)
  BY <1>1, <1>2, PartsDisjoint
<1>3. Pending(c, i, n, a)' <=> \E v \in left'[c] : i \in Part(v, n, a)
  BY DEF Pending, Part, Chunk, chunk_range, Items
<1> QED BY <1>1, <1>2, <1>3 DEF Pending

LEMMA Dispatched ==
    ASSUME TypeOK, NEW c \in Calls, NEW p, NEW q, Step(c, p, q),
           NEW n \in Nat, NEW a \in Nat \ {0}, NEW i
    PROVE  /\ ~Pending(c, i, n, a)
           /\ q \in {"premul", "product", "normalize", "postmul"} /\ i \in 0 .. n - 1 =>
                Pending(c, i, n, a)'
           /\ q \notin {"premul", "product", "normalize", "postmul"} =>
                ~Pending(c, i, n, a)'
<1>1. left[c] = {} /\ left'[c] = IF q \in {"premul", "product", "normalize", "postmul"}
                                THEN Workers ELSE {}
  BY DEF Step, TypeOK
<1>2. Pending(c, i, n, a)' <=> \E v \in left'[c] : i \in Part(v, n, a)
  BY DEF Pending, Part, Chunk, chunk_range, Items
<1>3. i \in 0 .. n - 1 => \E v \in Workers : i \in Part(v, n, a)
  BY PartsCover
<1> QED BY <1>1, <1>2, <1>3 DEF Pending

(* The addresses of a call's own elements.                                  *)
LEMMA Own ==
    ASSUME NEW c \in Calls, NEW i \in 0 .. SlotSize - 1, NEW w \in Workers
    PROVE  /\ SlotBase(c) + i \in Pool
           /\ SlotBase(c) + i \in Slot(c, N) <=> i \in 0 .. N - 1
           /\ SlotBase(c) + i \in Slot(c, M) <=> i \in 0 .. M - 1
           /\ SlotBase(c) + i \in Work(c, w, N, 1) <=> i \in Part(w, N, 1)
           /\ SlotBase(c) + i \in Work(c, w, M, 1) <=> i \in Part(w, M, 1)
           /\ SlotBase(c) + i \in Work(c, w, N, Align) <=> i \in Part(w, N, Align)
<1>1. N \in Nat /\ M \in Nat /\ Align \in Nat \ {0} /\ 1 \in Nat \ {0}
  BY Sizes
<1>2. /\ Part(w, N, 1) \subseteq Int /\ Part(w, M, 1) \subseteq Int
      /\ Part(w, N, Align) \subseteq Int
  BY <1>1, PartsCover
<1> QED BY <1>1, <1>2, InPool, SlotMember, WorkMember

LEMMA OriginalKept ==
    ASSUME NEW c
    PROVE  Original(c)' = Original(c)
BY DEF Original, Element, Junk

LEMMA ElementKept ==
    ASSUME NEW c, NEW s
    PROVE  Element(c, s)' = Element(c, s)
BY DEF Element

(* Each step of a call keeps the invariant of the call itself.              *)
LEMMA PreMulKeeps ==
    ASSUME TypeOK, NEW c \in Calls, CallInv(c), NEW w \in Workers, PreMul(c, w)
    PROVE  CallInv(c)'
<1>1. /\ pc[c] = "premul" /\ pc'[c] = "premul" /\ flag' = flag /\ out' = out /\ Worked(c, w, "premul")
      /\ bsIn' = [a \in Pool |-> IF a \in Work(c, w, N, 1)
                                 THEN EleMul(c, dir[c], bsIn[a]) ELSE bsIn[a]]
  BY DEF PreMul, Worked
<1>2. N \in Nat /\ 1 \in Nat \ {0}
  BY Sizes
<1>3. ASSUME NEW i \in 0 .. SlotSize - 1
      PROVE  In(c, i)' = IF i \in Part(w, N, 1) THEN EleMul(c, dir[c], In(c, i)) ELSE In(c, i)
  BY <1>1, Own DEF In
<1>4. Chirping(c)'
  <2>1. ASSUME NEW i \in 0 .. N - 1
        PROVE  In(c, i)' = Element(c, IF Pending(c, i, N, 1)' THEN "input" ELSE "chirped")
    <3>1. In(c, i) = Element(c, IF Pending(c, i, N, 1) THEN "input" ELSE "chirped")
      BY <1>1 DEF CallInv, Chirping
    <3>2. In(c, i)' = IF i \in Part(w, N, 1) THEN EleMul(c, dir[c], In(c, i)) ELSE In(c, i)
      BY <1>3, Indices
    <3>3. /\ i \in Part(w, N, 1) => Pending(c, i, N, 1) /\ ~Pending(c, i, N, 1)'
          /\ i \notin Part(w, N, 1) => (Pending(c, i, N, 1)' <=> Pending(c, i, N, 1))
      BY <1>1, <1>2, WorkerDone
    <3> QED BY <3>1, <3>2, <3>3, RightStage
  <2>2. ASSUME NEW i \in N .. M - 1
        PROVE  In(c, i)' = Element(c, "zero")
    <3>1. In(c, i) = Element(c, "zero")
      BY <1>1 DEF CallInv, Chirping
    <3>2. i \notin Part(w, N, 1)
      BY <1>2, PartsCover
    <3> QED BY <1>3, <3>1, <3>2, Indices
  <2> QED BY <2>1, <2>2, ElementKept DEF Chirping
<1>5. Idle(c)' /\ Turned(c)' /\ Unwritten(c)'
  BY <1>1, OriginalKept DEF CallInv, Idle, Turned, Unwritten
<1> QED BY <1>1, <1>4, <1>5
        DEF CallInv, Multiplying, Scaling, Finishing, Copying, Finished

LEMMA ProductKeeps ==
    ASSUME TypeOK, NEW c \in Calls, CallInv(c), NEW w \in Workers, Product(c, w)
    PROVE  CallInv(c)'
<1>1. /\ pc[c] = "product" /\ pc'[c] = "product" /\ flag' = flag /\ out' = out /\ Worked(c, w, "product")
      /\ bsOut' = [a \in Pool |-> IF a \in Work(c, w, M, 1)
                                  THEN EleMul(c, Opposite(dir[c]), bsOut[a]) ELSE bsOut[a]]
  BY DEF Product, Worked
<1>2. M \in Nat /\ 1 \in Nat \ {0}
  BY Sizes
<1>3. Multiplying(c)'
  <2>1. ASSUME NEW i \in 0 .. M - 1
        PROVE  Bo(c, i)' = Element(c, IF Pending(c, i, M, 1)' THEN "spectrum" ELSE "product")
    <3>1. Bo(c, i) = Element(c, IF Pending(c, i, M, 1) THEN "spectrum" ELSE "product")
      BY <1>1 DEF CallInv, Multiplying
    <3>2. Bo(c, i)' = IF i \in Part(w, M, 1) THEN EleMul(c, Opposite(dir[c]), Bo(c, i)) ELSE Bo(c, i)
      BY <1>1, Own, Indices DEF Bo
    <3>3. /\ i \in Part(w, M, 1) => Pending(c, i, M, 1) /\ ~Pending(c, i, M, 1)'
          /\ i \notin Part(w, M, 1) => (Pending(c, i, M, 1)' <=> Pending(c, i, M, 1))
      BY <1>1, <1>2, WorkerDone
    <3> QED BY <3>1, <3>2, <3>3, RightStage
  <2> QED BY <2>1, ElementKept DEF Multiplying
<1>4. Idle(c)' /\ Turned(c)' /\ Unwritten(c)'
  BY <1>1, OriginalKept DEF CallInv, Idle, Turned, Unwritten
<1> QED BY <1>1, <1>3, <1>4
        DEF CallInv, Chirping, Scaling, Finishing, Copying, Finished

LEMMA NormalizeKeeps ==
    ASSUME TypeOK, NEW c \in Calls, CallInv(c), NEW w \in Workers, Normalize(c, w)
    PROVE  CallInv(c)'
<1>1. /\ pc[c] = "normalize" /\ pc'[c] = "normalize" /\ flag' = flag /\ out' = out /\ Worked(c, w, "normalize")
      /\ bsIn' = [a \in Pool |-> IF a \in Work(c, w, N, Align)
                                 THEN Normalized(c, bsIn[a]) ELSE bsIn[a]]
  BY DEF Normalize, Worked
<1>2. N \in Nat /\ Align \in Nat \ {0}
  BY Sizes
<1>3. Scaling(c)'
  <2>1. ASSUME NEW i \in 0 .. N - 1
        PROVE  In(c, i)' = Element(c, IF Pending(c, i, N, Align)' THEN "convolution" ELSE "scaled")
    <3>1. In(c, i) = Element(c, IF Pending(c, i, N, Align) THEN "convolution" ELSE "scaled")
      BY <1>1 DEF CallInv, Scaling
    <3>2. In(c, i)' = IF i \in Part(w, N, Align) THEN Normalized(c, In(c, i)) ELSE In(c, i)
      BY <1>1, Own, Indices DEF In
    <3>3. /\ i \in Part(w, N, Align) => Pending(c, i, N, Align) /\ ~Pending(c, i, N, Align)'
          /\ i \notin Part(w, N, Align) => (Pending(c, i, N, Align)' <=> Pending(c, i, N, Align))
      BY <1>1, <1>2, WorkerDone
    <3> QED BY <3>1, <3>2, <3>3, RightStage
  <2> QED BY <2>1, ElementKept DEF Scaling
<1>4. Idle(c)' /\ Turned(c)' /\ Unwritten(c)'
  BY <1>1, OriginalKept DEF CallInv, Idle, Turned, Unwritten
<1> QED BY <1>1, <1>3, <1>4
        DEF CallInv, Chirping, Multiplying, Finishing, Copying, Finished

LEMMA PostMulKeeps ==
    ASSUME TypeOK, NEW c \in Calls, CallInv(c), NEW w \in Workers, PostMul(c, w)
    PROVE  CallInv(c)'
<1>1. /\ pc[c] = "postmul" /\ pc'[c] = "postmul" /\ flag' = flag /\ unit' = unit
      /\ Worked(c, w, "postmul")
  BY DEF PostMul, Worked
<1>2. N \in Nat /\ 1 \in Nat \ {0}
  BY Sizes
<1>3. ASSUME NEW i \in 0 .. N - 1
      PROVE  /\ i \in Part(w, N, 1) => Pending(c, i, N, 1) /\ ~Pending(c, i, N, 1)'
             /\ i \notin Part(w, N, 1) => (Pending(c, i, N, 1)' <=> Pending(c, i, N, 1))
  BY <1>1, <1>2, WorkerDone
<1>4. ASSUME unit PROVE Finishing(c)'
  <2>1. bsIn' = bsIn /\ out'[c] = [i \in 0 .. N - 1 |->
            IF SlotBase(c) + i \in Work(c, w, N, 1)
            THEN EleMul(c, dir[c], In(c, i)) ELSE out[c][i]]
    BY <1>4 DEF PostMul, TypeOK, In
  <2>2. ASSUME NEW i \in 0 .. N - 1
        PROVE  FinishedOut(c, i)'
    <3>1. /\ In(c, i) = Element(c, "scaled")
          /\ ~Pending(c, i, N, 1) => out[c][i] = Element(c, "result")
      BY <1>1, <1>4 DEF CallInv, Finishing, FinishedOut
    <3>2. In(c, i)' = In(c, i)
      BY <2>1 DEF In
    <3>3. SlotBase(c) + i \in Work(c, w, N, 1) <=> i \in Part(w, N, 1)
      BY Own, Indices
    <3>4. out'[c][i] = IF i \in Part(w, N, 1) THEN EleMul(c, dir[c], In(c, i)) ELSE out[c][i]
      BY <2>1, <3>3
    <3>5. /\ In(c, i)' = Element(c, "scaled")
          /\ ~Pending(c, i, N, 1)' => out'[c][i] = Element(c, "result")
      BY <1>3, <3>1, <3>2, <3>4, RightStage
    <3> QED BY <3>5, ElementKept DEF FinishedOut
  <2> QED BY <1>1, <1>4, <2>2 DEF Finishing
<1>5. ASSUME ~unit PROVE Finishing(c)'
  <2>1. bsIn' = [a \in Pool |-> IF a \in Work(c, w, N, 1)
                               THEN EleMul(c, dir[c], bsIn[a]) ELSE bsIn[a]]
    BY <1>5 DEF PostMul
  <2>2. ASSUME NEW i \in 0 .. N - 1
        PROVE  FinishedIn(c, i)'
    <3>1. In(c, i) = Element(c, IF Pending(c, i, N, 1) THEN "scaled" ELSE "result")
      BY <1>1, <1>5 DEF CallInv, Finishing, FinishedIn
    <3>2. In(c, i)' = IF i \in Part(w, N, 1) THEN EleMul(c, dir[c], In(c, i)) ELSE In(c, i)
      BY <2>1, Own, Indices DEF In
    <3>3. In(c, i)' = Element(c, IF Pending(c, i, N, 1)' THEN "scaled" ELSE "result")
      BY <1>3, <3>1, <3>2, RightStage
    <3> QED BY <3>3, ElementKept DEF FinishedIn
  <2> QED BY <1>1, <1>5, <2>2 DEF Finishing
<1>6. Finishing(c)'
  BY <1>4, <1>5
<1>7. Idle(c)' /\ Turned(c)' /\ Unwritten(c)'
  BY <1>1, OriginalKept DEF CallInv, Idle, Turned, Unwritten
<1> QED BY <1>1, <1>6, <1>7
        DEF CallInv, Chirping, Multiplying, Scaling, Copying, Finished

LEMMA CopyInKeeps ==
    ASSUME TypeOK, NEW c \in Calls, CallInv(c), CopyIn(c)
    PROVE  CallInv(c)'
<1>1. /\ pc[c] = "start" /\ pc'[c] = "premul" /\ flag'[c] = "forward" /\ out' = out
      /\ Step(c, "start", "premul")
      /\ bsIn' = [a \in Pool |-> IF a \in Slot(c, N) THEN Element(c, "input")
                                 ELSE IF a \in Slot(c, M) THEN Element(c, "zero") ELSE bsIn[a]]
  BY DEF CopyIn, Step, TypeOK
<1>2. N \in Nat /\ 1 \in Nat \ {0} /\ M \in Nat /\ 0 \in Workers
  BY Sizes DEF Workers
<1>3. Chirping(c)'
  <2>1. ASSUME NEW i \in 0 .. N - 1
        PROVE  In(c, i)' = Element(c, IF Pending(c, i, N, 1)' THEN "input" ELSE "chirped")
    <3>1. Pending(c, i, N, 1)'
      BY <1>1, <1>2, Dispatched
    <3> QED BY <1>1, <1>2, <3>1, Own, Indices DEF In
  <2>2. ASSUME NEW i \in N .. M - 1
        PROVE  In(c, i)' = Element(c, "zero")
    <3>1. SlotBase(c) + i \notin Slot(c, N) /\ SlotBase(c) + i \in Slot(c, M)
          /\ SlotBase(c) + i \in Pool
      BY <1>2, Own, Indices
    <3> QED BY <1>1, <3>1 DEF In
  <2> QED BY <2>1, <2>2, ElementKept DEF Chirping
<1>4. Idle(c)' /\ Turned(c)' /\ Unwritten(c)'
  BY <1>1, OriginalKept DEF CallInv, Idle, Turned, Unwritten
<1> QED BY <1>1, <1>3, <1>4
        DEF CallInv, Multiplying, Scaling, Finishing, Copying, Finished

LEMMA InnerForwardKeeps ==
    ASSUME TypeOK, NEW c \in Calls, CallInv(c), InnerForward(c)
    PROVE  CallInv(c)'
<1>1. /\ pc[c] = "forward" /\ pc'[c] = "product" /\ flag' = flag /\ out' = out
      /\ Step(c, "forward", "product")
      /\ bsOut' = [a \in Pool |-> IF a \in Slot(c, M) THEN ForwardFFT(c) ELSE bsOut[a]]
  BY DEF InnerForward, Step, TypeOK
<1>2. N \in Nat /\ 1 \in Nat \ {0} /\ M \in Nat /\ 0 \in Workers /\ N <= M
  BY Sizes, SlotHoldsM DEF Workers
<1>3. ForwardFFT(c) = Element(c, "spectrum")
  <2>1. flag[c] = "forward"
    BY <1>1 DEF CallInv, Turned
  <2>2. ASSUME NEW a \in Slot(c, M)
        PROVE  bsIn[a] = Element(c, IF a < SlotBase(c) + N THEN "chirped" ELSE "zero")
    <3>1. PICK i \in 0 .. M - 1 : a = SlotBase(c) + i
      <4> DEFINE i == a - SlotBase(c)
      <4>1. i \in 0 .. M - 1 /\ a = SlotBase(c) + i
        BY <1>2, SlotBaseNat DEF Slot
      <4> QED BY <4>1
    <3>2. CASE i < N
      <4>1. ~Pending(c, i, N, 1) /\ i \in 0 .. N - 1
        BY <1>1, <1>2, <3>2, Dispatched
      <4>2. In(c, i) = Element(c, "chirped")
        BY <1>1, <4>1 DEF CallInv, Chirping
      <4>3. a < SlotBase(c) + N
        BY <1>2, <3>1, <3>2, SlotBaseNat
      <4> QED BY <3>1, <4>2, <4>3 DEF In
    <3>3. CASE ~(i < N)
      <4>1. i \in N .. M - 1 /\ ~(a < SlotBase(c) + N)
        BY <1>2, <3>1, <3>3, SlotBaseNat
      <4>2. In(c, i) = Element(c, "zero")
        BY <1>1, <4>1 DEF CallInv, Chirping
      <4> QED BY <3>1, <4>1, <4>2 DEF In
    <3> QED BY <3>2, <3>3
  <2> QED BY <2>1, <2>2 DEF ForwardFFT
<1>4. Multiplying(c)'
  <2>1. ASSUME NEW i \in 0 .. M - 1
        PROVE  Bo(c, i)' = Element(c, IF Pending(c, i, M, 1)' THEN "spectrum" ELSE "product")
    <3>1. Pending(c, i, M, 1)'
      BY <1>1, <1>2, Dispatched
    <3> QED BY <1>1, <1>2, <1>3, <3>1, Own, Indices DEF Bo
  <2> QED BY <2>1, ElementKept DEF Multiplying
<1>5. Idle(c)' /\ Turned(c)' /\ Unwritten(c)'
  BY <1>1, OriginalKept DEF CallInv, Idle, Turned, Unwritten
<1> QED BY <1>1, <1>4, <1>5
        DEF CallInv, Chirping, Scaling, Finishing, Copying, Finished

LEMMA SwapBuffersKeeps ==
    ASSUME TypeOK, NEW c \in Calls, CallInv(c), SwapBuffers(c)
    PROVE  CallInv(c)'
<1>1. /\ pc[c] = "product" /\ pc'[c] = "inverse" /\ flag'[c] = "backward" /\ out' = out
      /\ Step(c, "product", "inverse") /\ left'[c] = {} /\ bsOut' = bsOut
  BY DEF SwapBuffers, Step, TypeOK
<1>2. 1 \in Nat \ {0} /\ M \in Nat
  BY Sizes
<1>3. Multiplying(c)'
  <2>1. ASSUME NEW i \in 0 .. M - 1
        PROVE  Bo(c, i)' = Element(c, IF Pending(c, i, M, 1)' THEN "spectrum" ELSE "product")
    <3>1. ~Pending(c, i, M, 1) /\ ~Pending(c, i, M, 1)'
      BY <1>1, <1>2, Dispatched
    <3>2. Bo(c, i) = Element(c, "product")
      BY <1>1, <3>1 DEF CallInv, Multiplying
    <3> QED BY <1>1, <3>1, <3>2 DEF Bo
  <2> QED BY <2>1, ElementKept DEF Multiplying
<1>4. Idle(c)' /\ Turned(c)' /\ Unwritten(c)'
  BY <1>1, OriginalKept DEF CallInv, Idle, Turned, Unwritten
<1> QED BY <1>1, <1>3, <1>4
        DEF CallInv, Chirping, Scaling, Finishing, Copying, Finished

LEMMA InnerInverseKeeps ==
    ASSUME TypeOK, NEW c \in Calls, CallInv(c), InnerInverse(c)
    PROVE  CallInv(c)'
<1>1. /\ pc[c] = "inverse" /\ pc'[c] = "normalize" /\ flag' = flag /\ out' = out
      /\ Step(c, "inverse", "normalize")
      /\ bsIn' = [a \in Pool |-> IF a \in Slot(c, M) THEN InverseFFT(c) ELSE bsIn[a]]
  BY DEF InnerInverse, Step, TypeOK
<1>2. /\ N \in Nat /\ 1 \in Nat \ {0} /\ M \in Nat /\ 0 \in Workers /\ N <= M
      /\ Align \in Nat \ {0}
  BY Sizes, SlotHoldsM DEF Workers
<1>3. InverseFFT(c) = Element(c, "convolution")
  <2>1. flag[c] = "backward"
    BY <1>1 DEF CallInv, Turned
  <2>2. ASSUME NEW a \in Slot(c, M)
        PROVE  bsOut[a] = Element(c, "product")
    <3>1. PICK i \in 0 .. M - 1 : a = SlotBase(c) + i
      <4> DEFINE i == a - SlotBase(c)
      <4>1. i \in 0 .. M - 1 /\ a = SlotBase(c) + i
        BY <1>2, SlotBaseNat DEF Slot
      <4> QED BY <4>1
    <3>2. ~Pending(c, i, M, 1)
      BY <1>1, <1>2, Dispatched
    <3>3. Bo(c, i) = Element(c, "product")
      BY <1>1, <3>2 DEF CallInv, Multiplying
    <3> QED BY <3>1, <3>3 DEF Bo
  <2> QED BY <2>1, <2>2 DEF InverseFFT
<1>4. Scaling(c)'
  <2>1. ASSUME NEW i \in 0 .. N - 1
        PROVE  In(c, i)' = Element(c, IF Pending(c, i, N, Align)' THEN "convolution" ELSE "scaled")
    <3>1. Pending(c, i, N, Align)'
      BY <1>1, <1>2, Dispatched
    <3>2. SlotBase(c) + i \in Slot(c, M) /\ SlotBase(c) + i \in Pool
      BY <1>2, Own, Indices
    <3> QED BY <1>1, <1>3, <3>1, <3>2 DEF In
  <2> QED BY <2>1, ElementKept DEF Scaling
<1>5. Idle(c)' /\ Turned(c)' /\ Unwritten(c)'
  BY <1>1, OriginalKept DEF CallInv, Idle, Turned, Unwritten
<1> QED BY <1>1, <1>4, <1>5
        DEF CallInv, Chirping, Multiplying, Finishing, Copying, Finished

LEMMA InnerFailsKeeps ==
    ASSUME TypeOK, NEW c \in Calls, CallInv(c), InnerFails(c)
    PROVE  CallInv(c)'
<1>1. /\ pc[c] \in {"forward", "inverse"} /\ pc'[c] = "failed" /\ left'[c] = {}
      /\ out' = out
  BY DEF InnerFails, Step, TypeOK
<1>2. Idle(c)' /\ Turned(c)' /\ Unwritten(c)'
  BY <1>1, OriginalKept DEF CallInv, Idle, Turned, Unwritten
<1> QED BY <1>1, <1>2
        DEF CallInv, Chirping, Multiplying, Scaling, Finishing, Copying, Finished

LEMMA CopyOutKeeps ==
    ASSUME TypeOK, NEW c \in Calls, CallInv(c), CopyOut(c)
    PROVE  CallInv(c)'
<1>1. /\ pc[c] = "copyout" /\ pc'[c] = "done" /\ left'[c] = {}
      /\ out'[c] = [i \in 0 .. N - 1 |-> In(c, i)]
  BY DEF CopyOut, Step, TypeOK, In
<1>2. Finished(c)'
  <2>1. \A i \in 0 .. N - 1 : out'[c][i] = Element(c, "result")
    BY <1>1 DEF CallInv, Copying
  <2> QED BY <2>1, ElementKept DEF Finished
<1>3. Idle(c)' /\ Turned(c)' /\ Unwritten(c)'
  BY <1>1 DEF CallInv, Idle, Turned, Unwritten
<1> QED BY <1>1, <1>2, <1>3
        DEF CallInv, Chirping, Multiplying, Scaling, Finishing, Copying

LEMMA BarrierKeeps ==
    ASSUME TypeOK, NEW c \in Calls, CallInv(c), Barrier(c)
    PROVE  CallInv(c)'
<1>1. /\ bsIn' = bsIn /\ out' = out /\ flag' = flag /\ unit' = unit
  BY DEF Barrier, Step
<1>2. N \in Nat /\ 1 \in Nat \ {0} /\ Align \in Nat \ {0}
  BY Sizes
<1>3. ASSUME Step(c, "premul", "forward")
      PROVE  CallInv(c)'
  <2>1. pc[c] = "premul" /\ pc'[c] = "forward" /\ left'[c] = {}
    BY <1>3 DEF Step, TypeOK
  <2>2. \A i \in 0 .. N - 1 : ~Pending(c, i, N, 1) /\ ~Pending(c, i, N, 1)'
    BY <1>2, <1>3, Dispatched
  <2>3. \A i : In(c, i)' = In(c, i)
    BY <1>1 DEF In
  <2>4. Chirping(c)'
    BY <2>1, <2>2, <2>3, ElementKept DEF CallInv, Chirping
  <2>5. Idle(c)' /\ Turned(c)' /\ Unwritten(c)'
    BY <1>1, <2>1, OriginalKept DEF CallInv, Idle, Turned, Unwritten
  <2> QED BY <2>1, <2>4, <2>5
          DEF CallInv, Multiplying, Scaling, Finishing, Copying, Finished
<1>4. ASSUME Step(c, "normalize", "postmul")
      PROVE  CallInv(c)'
  <2>1. pc[c] = "normalize" /\ pc'[c] = "postmul"
    BY <1>4 DEF Step, TypeOK
  <2>2. ASSUME NEW i \in 0 .. N - 1
        PROVE  FinishedOut(c, i)' /\ FinishedIn(c, i)'
    <3>1. ~Pending(c, i, N, Align) /\ Pending(c, i, N, 1)'
      BY <1>2, <1>4, Dispatched
    <3>2. In(c, i)' = Element(c, "scaled")
      BY <1>1, <2>1, <3>1 DEF CallInv, Scaling, In
    <3> QED BY <3>1, <3>2, ElementKept DEF FinishedOut, FinishedIn
  <2>3. Finishing(c)'
    BY <2>2 DEF Finishing
  <2>4. Idle(c)' /\ Turned(c)' /\ Unwritten(c)'
    BY <2>1 DEF CallInv, Idle, Turned, Unwritten
  <2> QED BY <2>1, <2>3, <2>4
          DEF CallInv, Chirping, Multiplying, Scaling, Copying, Finished
<1>5. ASSUME Step(c, "postmul", IF unit THEN "done" ELSE "copyout")
      PROVE  CallInv(c)'
  <2>1. pc[c] = "postmul" /\ left'[c] = {}
        /\ pc'[c] = IF unit THEN "done" ELSE "copyout"
    BY <1>5 DEF Step, TypeOK
  <2>2. \A i \in 0 .. N - 1 : ~Pending(c, i, N, 1)
    BY <1>2, <1>5, Dispatched
  <2>3. \A i \in 0 .. N - 1 : IF unit THEN FinishedOut(c, i) ELSE FinishedIn(c, i)
    BY <2>1 DEF CallInv, Finishing
  <2>4. Finished(c)'
    <3>1. pc'[c] = "done" => \A i \in 0 .. N - 1 : out[c][i] = Element(c, "result")
      BY <2>1, <2>2, <2>3 DEF FinishedOut
    <3> QED BY <1>1, <3>1, ElementKept DEF Finished
  <2>5. Copying(c)'
    <3>1. pc'[c] = "copyout" => \A i \in 0 .. N - 1 : In(c, i) = Element(c, "result")
      BY <2>1, <2>2, <2>3 DEF FinishedIn
    <3>2. \A i : In(c, i)' = In(c, i)
      BY <1>1 DEF In
    <3> QED BY <3>1, <3>2, ElementKept DEF Copying
  <2>6. pc'[c] \in {"done", "copyout"}
    BY <2>1
  <2>7. Idle(c)' /\ Turned(c)' /\ Unwritten(c)'
    BY <2>1, <2>6 DEF CallInv, Idle, Turned, Unwritten
  <2> QED BY <2>4, <2>5, <2>6, <2>7
          DEF CallInv, Chirping, Multiplying, Scaling, Finishing
<1> QED BY <1>3, <1>4, <1>5 DEF Barrier

(* The invariant holds at first and every step keeps it.                    *)
LEMMA InitInv == Init => IInv
<1> SUFFICES ASSUME Init
             PROVE  IInv
  OBVIOUS
<1>1. TypeOK
  BY InitType
<1>2. ASSUME NEW c \in Calls
      PROVE  CallInv(c)
  <2>1. pc[c] = "start" /\ left[c] = {} /\ out[c] = Original(c)
    BY DEF Init, Original
  <2> QED BY <2>1 DEF CallInv, Idle, Turned, Chirping, Multiplying, Scaling,
                      Finishing, Copying, Finished, Unwritten
<1> QED BY <1>1, <1>2 DEF IInv

LEMMA NextInv == IInv /\ [Next]_vars => IInv'
<1> SUFFICES ASSUME IInv, [Next]_vars
             PROVE  IInv'
  OBVIOUS
<1>1. TypeOK /\ TypeOK'
  BY NextType DEF IInv
<1>2. ASSUME NEW c \in Calls
      PROVE  CallInv(c)'
  <2>1. CallInv(c)
    BY DEF IInv
  <2>2. CASE UNCHANGED vars
    <3>1. Undisturbed(c)
      BY <2>2 DEF vars, Undisturbed, In, Bo
    <3> QED BY <2>1, <3>1, UndisturbedKeeps
  <2>3. ASSUME NEW d \in Calls, CallStep(d), d # c
        PROVE  CallInv(c)'
    <3>1. Undisturbed(c)
      BY <1>1, <2>3, OthersUndisturbed
    <3> QED BY <2>1, <3>1, UndisturbedKeeps
  <2>4. ASSUME CallStep(c)
        PROVE  CallInv(c)'
    <3>1. \/ CopyIn(c) \/ InnerForward(c) \/ SwapBuffers(c) \/ InnerInverse(c)
          \/ InnerFails(c) \/ Barrier(c) \/ CopyOut(c)
          \/ \E w \in Workers : PreMul(c, w) \/ Product(c, w) \/ Normalize(c, w) \/ PostMul(c, w)
      BY <2>4 DEF CallStep
    <3> QED BY <1>1, <2>1, <3>1, CopyInKeeps, InnerForwardKeeps, SwapBuffersKeeps,
               InnerInverseKeeps, InnerFailsKeeps, BarrierKeeps, CopyOutKeeps,
               PreMulKeeps, ProductKeeps, NormalizeKeeps, PostMulKeeps
  <2> QED BY <2>2, <2>3, <2>4 DEF Next
<1> QED BY <1>1, <1>2 DEF IInv

LEMMA Invariant == Spec => []IInv
<1> QED BY InitInv, NextInv, PTL DEF Spec

(* A call that succeeds has its own transform in all N points of the        *)
(* output, for any number of calls, workers, points and any alignment.      *)
THEOREM ResultsExact == Spec => []ResultExact
<1>1. IInv => ResultExact
  BY DEF IInv, CallInv, Finished, ResultExact
<1> QED BY <1>1, Invariant, PTL

(* A call whose inner FFT fails leaves the caller's output as it was.       *)
THEOREM FailuresKeepOutput == Spec => []FailureKeepsOutput
<1>1. IInv => FailureKeepsOutput
  BY DEF IInv, CallInv, Unwritten, Original, FailureKeepsOutput
<1> QED BY <1>1, Invariant, PTL

(* A multiple of the alignment is aligned.                                  *)
LEMMA MultipleAligned ==
    ASSUME NEW x \in Nat, NEW a \in Nat \ {0}
    PROVE  (x * a) % a = 0
<1> DEFINE q == (x * a) \div a
           r == (x * a) % a
<1>1. x * a \in Nat
  OBVIOUS
<1>2. q \in Nat /\ r \in 0 .. a - 1 /\ x * a = a * q + r
  BY <1>1, DivMod
<1>3. a * q = q * a /\ q * a \in Nat
  BY <1>2
<1> HIDE DEF q, r
<1>4. CASE x <= q
  <2>1. x * a <= q * a
    BY <1>2, <1>4, MulMono
  <2>2. r = 0
    BY <1>1, <1>2, <1>3, <2>1
  <2> QED BY <2>2 DEF r
<1>5. CASE q + 1 <= x
  <2>1. (q + 1) * a <= x * a
    BY <1>2, <1>5, MulMono, q + 1 \in Nat
  <2>2. (q + 1) * a = q * a + a
    BY <1>2
  <2>3. FALSE
    BY <1>1, <1>2, <1>3, <2>1, <2>2
  <2> QED BY <2>3
<1> QED BY <1>2, <1>4, <1>5

LEMMA SlotBaseMultiple ==
    ASSUME NEW c \in Calls
    PROVE  \E k \in Nat : SlotBase(c) = k * Align
<1>1. c \in Nat /\ Align \in Nat \ {0} /\ NumBlocks(M, Align) \in Nat
  BY Sizes, BlockCount, 1 \in Nat \ {0} DEF Calls
<1>2. NumBlocks(M, Align) * c \in Nat
  BY <1>1
<1>3. NumBlocks(M, Align) * Align * c = NumBlocks(M, Align) * c * Align
  <2> DEFINE b == NumBlocks(M, Align)
  <2>1. b \in Nat
    BY <1>1
  <2> HIDE DEF b
  <2>2. b * Align * c = b * c * Align
    BY <1>1, <2>1
  <2> QED BY <2>2 DEF b
<1> QED BY <1>2, <1>3 DEF SlotBase, SlotSize

(* The scaling kernels of every call start at aligned addresses: the        *)
(* padding of the slots and the blocks of the chunks agree.                 *)
THEOREM KernelsAligned == Spec => []AlignedKernels
<1>1. ASSUME TypeOK
      PROVE  AlignedKernels
  <2>1. ASSUME NEW c \in Calls, NEW w \in left[c],
               Chunk(w, Threads, N, Align).size > 0
        PROVE  (SlotBase(c) + Chunk(w, Threads, N, Align).start) % Align = 0
    <3>1. /\ w \in 0 .. Threads - 1 /\ N \in Nat /\ Align \in Nat \ {0}
          /\ Threads \in Nat \ {0}
      BY <1>1, <2>1, Sizes DEF TypeOK, Workers
    <3>2. PICK j \in Nat : SlotBase(c) = j * Align
      BY SlotBaseMultiple
    <3>3. PICK k \in Nat : Chunk(w, Threads, N, Align).start = k * Align
      BY <2>1, <3>1, ChunksAligned
    <3>4. j * Align + k * Align = (j + k) * Align
      BY <3>1
    <3>5. ((j + k) * Align) % Align = 0
      BY <3>1, MultipleAligned, j + k \in Nat
    <3> QED BY <3>2, <3>3, <3>4, <3>5
  <2> QED BY <2>1 DEF AlignedKernels
<1> QED BY <1>1, TypeCorrect, PTL

(* A step of one call changes the pools in that call's slot only.           *)
THEOREM SlotsStayApart == Spec => SlotsApart
<1>1. ASSUME TypeOK, [Next]_vars,
             NEW c \in Calls, pc'[c] = pc[c], left'[c] = left[c],
             NEW a \in SlotSize * c .. SlotSize * (c + 1) - 1
      PROVE  bsIn'[a] = bsIn[a] /\ bsOut'[a] = bsOut[a]
  <2>1. CASE UNCHANGED vars
    BY <2>1 DEF vars
  <2>2. ASSUME NEW d \in Calls, CallStep(d)
        PROVE  bsIn'[a] = bsIn[a] /\ bsOut'[a] = bsOut[a]
    <3>1. ~CallStep(c)
      <4>1. ASSUME NEW p, NEW q, p # q, Step(c, p, q)
            PROVE  FALSE
        BY <1>1, <4>1 DEF Step, TypeOK
      <4>2. ASSUME NEW w \in Workers, NEW p, Worked(c, w, p)
            PROVE  FALSE
        BY <1>1, <4>2 DEF Worked, TypeOK
      <4>3. ~(CopyIn(c) \/ InnerForward(c) \/ SwapBuffers(c) \/ InnerInverse(c))
        BY <4>1 DEF CopyIn, InnerForward, SwapBuffers, InnerInverse
      <4>4. ~(InnerFails(c) \/ Barrier(c) \/ CopyOut(c))
        BY <4>1 DEF InnerFails, Barrier, CopyOut
      <4>5. \A w \in Workers :
              ~(PreMul(c, w) \/ Product(c, w) \/ Normalize(c, w) \/ PostMul(c, w))
        BY <4>2 DEF PreMul, Product, Normalize, PostMul
      <4> QED BY <4>3, <4>4, <4>5 DEF CallStep
    <3>2. Undisturbed(c)
      BY <1>1, <2>2, <3>1, OthersUndisturbed
    <3>3. PICK i \in 0 .. SlotSize - 1 : a = SlotBase(c) + i
      <4> DEFINE i == a - SlotBase(c)
      <4>1. /\ c \in Nat /\ SlotSize \in Nat /\ SlotSize * (c + 1) = SlotSize * c + SlotSize
            /\ SlotSize * c \in Nat
        BY Sizes, SlotHoldsM DEF Calls
      <4>2. i \in 0 .. SlotSize - 1 /\ a = SlotBase(c) + i
        BY <1>1, <4>1 DEF SlotBase
      <4> QED BY <4>2
    <3> QED BY <3>2, <3>3 DEF Undisturbed, In, Bo
  <2> QED BY <1>1, <2>1, <2>2 DEF Next
<1>2. TypeOK /\ [Next]_vars =>
        [\A c \in Calls : pc'[c] = pc[c] /\ left'[c] = left[c] =>
            \A a \in SlotSize * c .. SlotSize * (c + 1) - 1 :
                bsIn'[a] = bsIn[a] /\ bsOut'[a] = bsOut[a]]_vars
  BY <1>1
<1> QED BY <1>2, TypeCorrect, PTL DEF Spec, SlotsApart
=============================================================================
