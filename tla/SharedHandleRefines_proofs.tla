--------------------- MODULE SharedHandleRefines_proofs ---------------------
(***************************************************************************)
(* The handle implements the calls of FftCalls, for any number of threads, *)
(* buffers and slab addresses and any family of well-formed plans: every   *)
(* step of a call is a step its caller may see, or none.                   *)
(***************************************************************************)
EXTENDS SharedHandle_proofs, SharedHandleRefines

USE DEF Kinds, Blocks

(* What callers must avoid for the promise to hold: aoclfftz_execute on a
   real plan, which may use the buffers of an earlier call, and an in-place
   call on an out-of-place plan whose split-radix node lies below an
   N-dimensional one, which goes on after the node refused. *)
CallersHeed ==
    \A t \in Threads : InFlight(t) =>
        /\ ~(Plan.real /\ call[t].api = "setup")
        /\ ~(Plan.ndim /\ Mismatched(t))

-----------------------------------------------------------------------------
(* The refinement mapping, one thread at a time. *)

PhaseOf(t) ==
    IF pc[t] = "idle" THEN "idle"
    ELSE IF Finished(t) THEN "returned"
    ELSE IF OutputTouched(t) THEN "working" ELSE "called"

ResultOf(t) == IF PhaseOf(t) = "returned" THEN status[t] ELSE NULL

Touched(b) == \E t \in Threads : OutputTouched(t) /\ call[t].out = b

BarsKnown ==
    /\ phaseBar = [t \in Threads |-> PhaseOf(t)]
    /\ resultBar = [t \in Threads |-> ResultOf(t)]
    /\ dataBar = [b \in Bufs |-> IF Touched(b) THEN Junk ELSE buf[b]]

LEMMA BarsAre == BarsKnown
  <1>1. ASSUME NEW t \in Threads
        PROVE  phaseBar[t] = PhaseOf(t)
    <2>1. CASE pc[t] = "idle"
      <3>1. pc[t] \notin {"release", "free", "done"} /\ ~OutputTouched(t)
        BY <2>1 DEF OutputTouched, Running
      <3>2. phaseBar[t] = "idle"
        BY <2>1, <3>1, Zenon DEF phaseBar
      <3> QED
        BY <2>1, <3>2 DEF PhaseOf
    <2>2. CASE pc[t] # "idle" /\ Finished(t)
      <3>1. pc[t] \in {"release", "free", "done"} /\ ~OutputTouched(t)
        BY <2>2 DEF Finished, OutputTouched, Running
      <3>2. phaseBar[t] = "returned"
        BY <2>2, <3>1, Zenon DEF phaseBar
      <3> QED
        BY <2>2, <3>2 DEF PhaseOf
    <2>3. CASE pc[t] # "idle" /\ ~Finished(t)
      <3>1. pc[t] \notin {"release", "free", "done"}
        BY <2>3 DEF Finished
      <3>2. OutputTouched(t) => phaseBar[t] = "working"
        BY <2>3, <3>1, Zenon DEF phaseBar
      <3>3. ~OutputTouched(t) => phaseBar[t] = "called"
        BY <2>3, <3>1, Zenon DEF phaseBar
      <3> QED
        BY <2>3, <3>2, <3>3 DEF PhaseOf
    <2> QED
      BY <2>1, <2>2, <2>3
  <1>2. phaseBar = [t \in Threads |-> PhaseOf(t)]
    <2> DEFINE phase(t) == CASE pc[t] = "idle" -> "idle"
                             [] pc[t] \in {"release", "free", "done"} -> "returned"
                             [] OutputTouched(t) -> "working"
                             [] OTHER -> "called"
    <2>1. phaseBar = [t \in Threads |-> phase(t)]
      BY Zenon DEF phaseBar
    <2> HIDE DEF phase
    <2> QED
      BY <1>1, <2>1
  <1>3. resultBar = [t \in Threads |-> ResultOf(t)]
    BY <1>1 DEF resultBar, ResultOf
  <1>4. dataBar = [b \in Bufs |-> IF Touched(b) THEN Junk ELSE buf[b]]
    BY DEF dataBar, Touched
  <1> QED
    BY <1>2, <1>3, <1>4 DEF BarsKnown

(* What callers see of the other threads does not change with the step of t. *)
LEMMA OthersUnseen ==
    ASSUME NEW t \in Threads,
           \A u \in Threads \ {t} : /\ pc'[u] = pc[u] /\ call'[u] = call[u]
                                    /\ status'[u] = status[u]
                                    /\ OutputTouched(u)' = OutputTouched(u)
    PROVE  /\ phaseBar' = [phaseBar EXCEPT ![t] = PhaseOf(t)']
           /\ reqBar' = [reqBar EXCEPT ![t] = [in |-> call'[t].in, out |-> call'[t].out]]
           /\ resultBar' = [resultBar EXCEPT ![t] = ResultOf(t)']
           /\ phaseBar[t] = PhaseOf(t) /\ resultBar[t] = ResultOf(t)
           /\ reqBar[t] = [in |-> call[t].in, out |-> call[t].out]
  <1>1. BarsKnown /\ BarsKnown'
    BY BarsAre, PTL
  <1>2. \A u \in Threads \ {t} : PhaseOf(u)' = PhaseOf(u)
    BY DEF PhaseOf, Finished
  <1>3. \A u \in Threads \ {t} : ResultOf(u)' = ResultOf(u)
    BY <1>2 DEF ResultOf
  <1>4. phaseBar' = [phaseBar EXCEPT ![t] = PhaseOf(t)'] /\ phaseBar[t] = PhaseOf(t)
    BY <1>1, <1>2 DEF BarsKnown
  <1>5. resultBar' = [resultBar EXCEPT ![t] = ResultOf(t)'] /\ resultBar[t] = ResultOf(t)
    BY <1>1, <1>3 DEF BarsKnown
  <1>6. reqBar' = [reqBar EXCEPT ![t] = [in |-> call'[t].in, out |-> call'[t].out]]
        /\ reqBar[t] = [in |-> call[t].in, out |-> call[t].out]
    BY DEF reqBar
  <1> QED
    BY <1>4, <1>5, <1>6

(* The output of a call is touched by no other call in flight. *)
LEMMA TouchedApart ==
    ASSUME CallsKnown, CallsApart, NEW t \in Threads, NEW u \in Threads, t # u,
           InFlight(t), OutputTouched(u)
    PROVE  call[u].out \notin {call[t].in, call[t].out}
  <1>1. InFlight(u)
    BY DEF OutputTouched, Running, CallsKnown, InCall
  <1> QED
    BY <1>1 DEF CallsApart

LEMMA UntouchedBefore ==
    ASSUME NEW t \in Threads, ~Running(t) \/ step[t] = 0
    PROVE  ~OutputTouched(t)
  BY DEF OutputTouched

(* A step that changes touched outputs only does not show. *)
LEMMA DataBarStep ==
    ASSUME NEW t \in Threads, OutputTouched(t)' = OutputTouched(t), call' = call,
           \A b \in Bufs : ~Touched(b) => buf'[b] = buf[b],
           \A u \in Threads \ {t} : OutputTouched(u)' = OutputTouched(u)
    PROVE  dataBar' = dataBar
  <1>1. BarsKnown /\ BarsKnown'
    BY BarsAre, PTL
  <1>2. \A b \in Bufs : Touched(b)' = Touched(b)
    BY DEF Touched
  <1> QED
    BY <1>1, <1>2 DEF BarsKnown

-----------------------------------------------------------------------------
(* Every step is a step of FftCalls or invisible. *)

Stutters == UNCHANGED <<phaseBar, reqBar, resultBar, dataBar>>

(* A caller calls: Execute and the first part of ExecuteIO. *)
LEMMA BeginStep ==
    ASSUME IInv, CallsKnown, NEW t \in Threads, NEW in \in Bufs, NEW out \in Bufs,
           pc[t] = "idle", pc'[t] \in {"run_base", "claim"}, step'[t] = 0,
           call'[t].in = in, call'[t].out = out,
           buf' = [buf EXCEPT ![in] = Raw(in), ![out] = Raw(out)],
           \A u \in Threads \ {t} : /\ pc'[u] = pc[u] /\ call'[u] = call[u]
                                    /\ status'[u] = status[u]
                                    /\ OutputTouched(u)' = OutputTouched(u)
                                    /\ OutputTouched(u) => call[u].out \notin {in, out}
    PROVE  Calls!Begin(t, in, out)
  <1>1. BarsKnown /\ BarsKnown'
    BY BarsAre, PTL
  <1>2. ~OutputTouched(t) /\ ~OutputTouched(t)'
    BY DEF OutputTouched, Running
  <1>3. PhaseOf(t) = "idle" /\ PhaseOf(t)' = "called" /\ ResultOf(t) = NULL /\ ResultOf(t)' = NULL
    BY <1>2 DEF PhaseOf, ResultOf, Finished
  <1>4. /\ phaseBar[t] = "idle" /\ phaseBar' = [phaseBar EXCEPT ![t] = "called"]
        /\ reqBar' = [reqBar EXCEPT ![t] = [in |-> in, out |-> out]]
        /\ resultBar' = [resultBar EXCEPT ![t] = NULL] /\ resultBar[t] = NULL
    BY <1>3, OthersUnseen
  <1>5. resultBar' = resultBar
    BY <1>1, <1>4 DEF BarsKnown
  <1>6. dataBar' = [dataBar EXCEPT ![in] = Raw(in), ![out] = Raw(out)]
    <2>1. \A b \in Bufs : Touched(b)' = Touched(b)
      BY <1>2 DEF Touched
    <2>2. ~Touched(in) /\ ~Touched(out)
      BY <1>2 DEF Touched
    <2>3. \A b \in Bufs : buf'[b] = IF b = out THEN Raw(out) ELSE IF b = in THEN Raw(in) ELSE buf[b]
      BY DEF IInv, TypeOK
    <2>4. \A b \in Bufs : dataBar'[b] = IF Touched(b) THEN Junk ELSE buf'[b]
      BY <1>1, <2>1 DEF BarsKnown
    <2>5. \A b \in Bufs : dataBar[b] = IF Touched(b) THEN Junk ELSE buf[b]
      BY <1>1 DEF BarsKnown
    <2>6. \A b \in Bufs : dataBar'[b] = IF b = out THEN Raw(out) ELSE IF b = in THEN Raw(in)
                                         ELSE dataBar[b]
      <3>1. ASSUME NEW b \in Bufs
            PROVE  dataBar'[b] = IF b = out THEN Raw(out) ELSE IF b = in THEN Raw(in) ELSE dataBar[b]
        <4>1. dataBar'[b] = (IF Touched(b) THEN Junk ELSE buf'[b])
          BY <2>4
        <4>2. dataBar[b] = (IF Touched(b) THEN Junk ELSE buf[b])
          BY <2>5
        <4>3. buf'[b] = IF b = out THEN Raw(out) ELSE IF b = in THEN Raw(in) ELSE buf[b]
          BY <2>3
        <4>4. CASE b = out \/ b = in
          <5>1. ~Touched(b)
            BY <2>2, <4>4
          <5> QED
            BY <4>1, <4>3, <4>4, <5>1
        <4>5. CASE b # out /\ b # in
          BY <4>1, <4>2, <4>3, <4>5
        <4> QED
          BY <4>4, <4>5
      <3> QED
        BY <3>1
    <2> DEFINE D == [dataBar EXCEPT ![in] = Raw(in), ![out] = Raw(out)]
    <2>7. /\ dataBar = [b \in Bufs |-> dataBar[b]] /\ dataBar' = [b \in Bufs |-> dataBar'[b]]
      BY <1>1 DEF BarsKnown
    <2>8. D = [b \in Bufs |-> IF b = out THEN Raw(out) ELSE IF b = in THEN Raw(in) ELSE dataBar[b]]
      BY <2>7
    <2> QED
      BY <2>6, <2>7, <2>8
  <1> QED
    BY <1>4, <1>5, <1>6 DEF Calls!Begin

(* A step that moves a call along without its caller noticing. *)
LEMMA HiddenStep ==
    ASSUME NEW t \in Threads, PhaseOf(t)' = PhaseOf(t), status'[t] = status[t],
           call' = call, \A b \in Bufs : ~Touched(b) => buf'[b] = buf[b],
           OutputTouched(t)' = OutputTouched(t),
           \A u \in Threads \ {t} : /\ pc'[u] = pc[u] /\ status'[u] = status[u]
                                    /\ OutputTouched(u)' = OutputTouched(u)
    PROVE  Stutters
  <1>1. BarsKnown /\ BarsKnown'
    BY BarsAre, PTL
  <1>2. ResultOf(t)' = ResultOf(t)
    BY DEF ResultOf
  <1>3. /\ phaseBar' = [phaseBar EXCEPT ![t] = PhaseOf(t)] /\ phaseBar[t] = PhaseOf(t)
        /\ reqBar' = [reqBar EXCEPT ![t] = [in |-> call[t].in, out |-> call[t].out]]
        /\ resultBar' = [resultBar EXCEPT ![t] = ResultOf(t)] /\ resultBar[t] = ResultOf(t)
        /\ reqBar[t] = [in |-> call[t].in, out |-> call[t].out]
    BY <1>2, OthersUnseen
  <1>4. phaseBar' = phaseBar /\ resultBar' = resultBar
    BY <1>1, <1>3 DEF BarsKnown
  <1>5. reqBar' = reqBar
    BY DEF reqBar
  <1>6. dataBar' = dataBar
    BY DataBarStep
  <1> QED
    BY <1>4, <1>5, <1>6 DEF Stutters

(* A call that returns without having touched its output. *)
LEMMA FailStep ==
    ASSUME NEW t \in Threads, NEW f \in {"EXECUTION_FAILURE", "MEMORY_FAILURE"},
           pc[t] # "idle", ~Finished(t), ~OutputTouched(t), Finished(t)', status'[t] = f,
           call' = call, buf' = buf,
           \A u \in Threads \ {t} : /\ pc'[u] = pc[u] /\ status'[u] = status[u]
                                    /\ OutputTouched(u)' = OutputTouched(u)
    PROVE  Calls!Fail(t)
  <1>1. ~OutputTouched(t)' /\ pc'[t] # "idle"
    BY DEF OutputTouched, Running, Finished
  <1>2. PhaseOf(t) = "called" /\ PhaseOf(t)' = "returned" /\ ResultOf(t)' = f
    BY <1>1 DEF PhaseOf, ResultOf
  <1>3. /\ phaseBar[t] = "called" /\ phaseBar' = [phaseBar EXCEPT ![t] = "returned"]
        /\ resultBar' = [resultBar EXCEPT ![t] = f]
    BY <1>2, OthersUnseen
  <1>4. reqBar' = reqBar
    BY DEF reqBar
  <1>5. dataBar' = dataBar
    <2>1. OutputTouched(t)' = OutputTouched(t)
      BY <1>1 DEF OutputTouched
    <2> QED
      BY <2>1, DataBarStep
  <1> QED
    BY <1>3, <1>4, <1>5 DEF Calls!Fail, Calls!Failures

(* A pass of the solver: the first to write the output starts working, the
   last one succeeds, the others do not show. *)
LEMMA PassStep ==
    ASSUME IInv, DataInv, CallersHeed, NEW t \in Threads, SolverPass(t)
    PROVE  Calls!Work(t) \/ Calls!Succeed(t) \/ Stutters
  <1> DEFINE k == step[t] + 1
             to == RouteOf(t)[k]
             v == Produced(t, k)
  <1>1. BarsKnown /\ BarsKnown'
    BY BarsAre, PTL
  <1>2. /\ handle' = handle /\ ds' = ds /\ call' = call /\ ctx' = ctx /\ Running(t)
        /\ step'[t] = k /\ pc[t] # "idle" /\ ~Finished(t)
        /\ \A u \in Threads \ {t} : pc'[u] = pc[u] /\ step'[u] = step[u] /\ status'[u] = status[u]
    BY DEF SolverPass, IInv, TypeOK, Running, Finished
  <1>3. InFlight(t) /\ InCall(t) /\ Tracked(t) /\ OutOf(t) = call[t].out /\ call[t].out \in Bufs
    <2>1. InCall(t) /\ InFlight(t)
      BY <1>2 DEF DataInv, CallsKnown, InCall, Running
    <2>2. call[t].api \in {"setup", "io"}
      BY <1>2, <2>1 DEF DataInv, CallsKnown, InFlight
    <2>3. Tracked(t)
      BY <2>1, <2>2 DEF Tracked, CallersHeed
    <2> QED
      BY <2>1, <2>3 DEF Tracked, DataInv, CallsKnown
  <1> PICK o \in Bufs : o = call[t].out
    BY <1>3
  <1>4. \A u \in Threads : RouteOf(u)' = RouteOf(u)
    BY <1>2 DEF RouteOf, InOf, OutOf, Plan
  <1>5. \A u \in Threads \ {t} : OutputTouched(u)' = OutputTouched(u)
    BY <1>2, <1>4 DEF OutputTouched, Running
  <1>6. v = IF k = Len(RouteOf(t)) THEN Fft(call[t].in) ELSE Mid(call[t].in, k)
    BY <1>3, PassMovesData DEF DataInv, DataKnown
  <1>7. IF to = "out" THEN buf' = [buf EXCEPT ![o] = v] ELSE buf' = buf
    BY <1>3 DEF SolverPass
  <1>8. step[t] \in Nat /\ Len(RouteOf(t)) \in Nat /\ RouteOf(t)[Len(RouteOf(t))] = "out"
    BY <1>2, RouteOfShape DEF IInv, TypeOK
  <1>9. buf \in [Bufs -> Values]
    BY DEF IInv, TypeOK
  <1>10. \A u \in Threads \ {t} : OutputTouched(u) => call[u].out # o
    BY <1>3, TouchedApart DEF DataInv
  <1>11. PhaseOf(t) = IF OutputTouched(t) THEN "working" ELSE "called"
    BY <1>2 DEF PhaseOf
  <1>12. \A b \in Bufs : b # o => (Touched(b)' = Touched(b))
    BY <1>2, <1>5 DEF Touched
  <1>13. /\ \A b \in Bufs : dataBar[b] = IF Touched(b) THEN Junk ELSE buf[b]
         /\ \A b \in Bufs : dataBar'[b] = IF Touched(b)' THEN Junk ELSE buf'[b]
         /\ dataBar = [b \in Bufs |-> dataBar[b]] /\ dataBar' = [b \in Bufs |-> dataBar'[b]]
    BY <1>1 DEF BarsKnown
  <1>14. reqBar' = reqBar /\ reqBar[t] = [in |-> call[t].in, out |-> o]
    BY <1>2 DEF reqBar
  <1> HIDE DEF v, to, k
  <1>15. CASE k = Len(RouteOf(t))
    <2>1. status'[t] = "SUCCESS" /\ pc'[t] = AfterExecute(t)
      BY <1>15 DEF SolverPass, IInv, TypeOK, k
    <2>2. Finished(t)' /\ pc'[t] # "idle" /\ ~OutputTouched(t)'
      BY <2>1 DEF Finished, AfterExecute, OutputTouched, Running
    <2>3. PhaseOf(t)' = "returned" /\ ResultOf(t)' = "SUCCESS"
      BY <2>1, <2>2 DEF PhaseOf, ResultOf
    <2>4. /\ phaseBar[t] \in {"called", "working"} /\ phaseBar' = [phaseBar EXCEPT ![t] = "returned"]
          /\ resultBar' = [resultBar EXCEPT ![t] = "SUCCESS"]
      BY <1>2, <1>5, <1>11, <2>3, OthersUnseen
    <2>5. dataBar' = [dataBar EXCEPT ![o] = Fft(call[t].in)]
      <3>1. to = "out"
        BY <1>8, <1>15 DEF to, k
      <3>2. buf'[o] = Fft(call[t].in) /\ \A b \in Bufs : b # o => buf'[b] = buf[b]
        BY <1>3, <1>6, <1>7, <1>9, <1>15, <3>1
      <3>3. ~Touched(o)'
        BY <1>2, <1>5, <1>10, <2>2 DEF Touched
      <3>4. dataBar'[o] = Fft(call[t].in)
        BY <1>3, <1>13, <3>2, <3>3
      <3>5. \A b \in Bufs : b # o => dataBar'[b] = dataBar[b]
        BY <1>12, <1>13, <3>2
      <3> QED
        BY <1>3, <1>13, <3>4, <3>5
    <2> QED
      BY <1>14, <2>4, <2>5 DEF Calls!Succeed
  <1>16. CASE k # Len(RouteOf(t))
    <2>1. pc' = pc /\ status' = status
      BY <1>16 DEF SolverPass, k
    <2>2. Running(t)' /\ ~Finished(t)' /\ pc'[t] # "idle"
      BY <1>2, <2>1 DEF Running, Finished
    <2>3. OutputTouched(t)' <=> \E j \in 1 .. k : RouteOf(t)[j] = "out"
      BY <1>2, <1>4, <2>2 DEF OutputTouched
    <2>4. OutputTouched(t) <=> \E j \in 1 .. k - 1 : RouteOf(t)[j] = "out"
      <3>1. k - 1 = step[t]
        BY <1>8 DEF k
      <3> QED
        BY <1>2, <3>1 DEF OutputTouched
    <2>5. k \in Nat \ {0} /\ to = RouteOf(t)[k]
      BY <1>8 DEF k, to
    <2>6. OutputTouched(t)' <=> OutputTouched(t) \/ to = "out"
      BY <2>3, <2>4, <2>5
    <2>7. CASE to = "out" /\ ~OutputTouched(t)
      <3>1. PhaseOf(t)' = "working" /\ ResultOf(t)' = NULL /\ PhaseOf(t) = "called" /\ ResultOf(t) = NULL
        BY <1>11, <2>2, <2>6, <2>7 DEF PhaseOf, ResultOf
      <3>2. /\ phaseBar[t] = "called" /\ phaseBar' = [phaseBar EXCEPT ![t] = "working"]
            /\ resultBar' = [resultBar EXCEPT ![t] = NULL] /\ resultBar[t] = NULL
        BY <1>2, <1>5, <3>1, OthersUnseen
      <3>3. resultBar' = resultBar
        BY <1>1, <3>2 DEF BarsKnown
      <3>4. dataBar' = [dataBar EXCEPT ![o] = Junk]
        <4>1. Touched(o)'
          BY <1>2, <2>6, <2>7 DEF Touched
        <4>2. dataBar'[o] = Junk
          BY <1>3, <1>13, <4>1
        <4>3. \A b \in Bufs : b # o => buf'[b] = buf[b]
          BY <1>7, <1>9
        <4>4. \A b \in Bufs : b # o => dataBar'[b] = dataBar[b]
          BY <1>12, <1>13, <4>3
        <4> QED
          BY <1>3, <1>13, <4>2, <4>4
      <3> QED
        BY <1>14, <3>2, <3>3, <3>4 DEF Calls!Work
    <2>8. CASE to # "out" \/ OutputTouched(t)
      <3>1. OutputTouched(t)' = OutputTouched(t)
        BY <2>6, <2>8 DEF OutputTouched
      <3>2. PhaseOf(t)' = PhaseOf(t)
        BY <2>1, <3>1 DEF PhaseOf, Finished
      <3>3. \A b \in Bufs : ~Touched(b) => buf'[b] = buf[b]
        <4>1. OutputTouched(t) => Touched(o)
          BY DEF Touched
        <4> QED
          BY <1>7, <1>9, <2>8, <4>1
      <3> QED
        BY <1>2, <1>5, <2>1, <3>1, <3>2, <3>3, HiddenStep
    <2> QED
      BY <2>7, <2>8
  <1> QED
    BY <1>15, <1>16

LEMMA StepRefines ==
    ASSUME IInv, DataInv, CallersHeed, [Next]_vars
    PROVE  Calls!Next \/ Stutters
  <1> USE DEF TypeOK
  <1>0. TypeOK /\ BarsKnown /\ BarsKnown' /\ CallsKnown
    BY BarsAre, PTL DEF IInv, DataInv
  <1>1. ASSUME NEW p \in Plans, NEW in \in Bufs, NEW out \in Bufs, Setup(p, in, out)
        PROVE  Stutters
    <2>1. \A t \in Threads : ~Running(t) /\ ~Running(t)'
      BY <1>1 DEF Setup, IInv, HandleHeld, InCall, Running
    <2>2. \A t \in Threads : OutputTouched(t)' = OutputTouched(t) /\ ~OutputTouched(t)
      BY <2>1 DEF OutputTouched
    <2>3. pc' = pc /\ call' = call /\ status' = status /\ buf' = buf
      BY <1>1 DEF Setup
    <2>4. \A t \in Threads : PhaseOf(t)' = PhaseOf(t) /\ ResultOf(t)' = ResultOf(t)
      BY <2>2, <2>3 DEF PhaseOf, Finished, ResultOf
    <2>5. \A b \in Bufs : Touched(b)' = Touched(b)
      BY <2>2, <2>3 DEF Touched
    <2>6. phaseBar' = phaseBar /\ resultBar' = resultBar
      BY <1>0, <2>4 DEF BarsKnown
    <2>7. dataBar' = dataBar
      BY <1>0, <2>3, <2>5 DEF BarsKnown
    <2>8. reqBar' = reqBar
      BY <2>3 DEF reqBar
    <2> QED
      BY <2>6, <2>7, <2>8 DEF Stutters
  <1>2. CASE Destroy
    <2>1. /\ pc' = pc /\ call' = call /\ status' = status /\ buf' = [b \in Bufs |-> Junk]
          /\ \A t \in Threads : pc[t] = "idle"
      BY <1>2 DEF Destroy, Active
    <2>2. \A t \in Threads : ~OutputTouched(t)'
      BY <2>1 DEF OutputTouched, Running
    <2>3. \A t \in Threads : /\ PhaseOf(t) = "idle" /\ PhaseOf(t)' = "idle"
                             /\ ResultOf(t) = NULL /\ ResultOf(t)' = NULL
      BY <2>1 DEF PhaseOf, ResultOf
    <2>4. phaseBar' = phaseBar /\ resultBar' = resultBar /\ \A t \in Threads : phaseBar[t] = "idle"
      BY <1>0, <2>3 DEF BarsKnown
    <2>5. \A b \in Bufs : ~Touched(b)'
      BY <2>2 DEF Touched
    <2>6. dataBar' = [b \in Bufs |-> Junk]
      BY <1>0, <2>1, <2>5 DEF BarsKnown
    <2>7. reqBar' = reqBar
      BY <2>1 DEF reqBar
    <2> QED
      BY <2>4, <2>6, <2>7 DEF Calls!Next, Calls!Scribble
  <1>3. ASSUME NEW t \in Threads, Execute(t)
        PROVE  Calls!Next
    <2>1. /\ pc[t] = "idle" /\ pc'[t] = "run_base" /\ step'[t] = 0
          /\ call'[t].in = handle.in /\ call'[t].out = handle.out
          /\ handle.in \in Bufs /\ handle.out \in Bufs
          /\ buf' = [buf EXCEPT ![handle.in] = Raw(handle.in), ![handle.out] = Raw(handle.out)]
          /\ \A u \in Threads \ {t} : /\ pc[u] = "idle" /\ pc'[u] = "idle" /\ call'[u] = call[u]
                                       /\ status'[u] = status[u]
      BY <1>0, <1>3 DEF Execute, Active
    <2>2. \A u \in Threads \ {t} : OutputTouched(u)' = OutputTouched(u) /\ ~OutputTouched(u)
      BY <2>1 DEF OutputTouched, Running
    <2>3. PICK in \in Bufs, out \in Bufs : in = handle.in /\ out = handle.out
      BY <2>1
    <2>4. /\ call'[t].in = in /\ call'[t].out = out
          /\ buf' = [buf EXCEPT ![in] = Raw(in), ![out] = Raw(out)]
      BY <2>1, <2>3
    <2>5. \A u \in Threads \ {t} : pc'[u] = pc[u]
      BY <2>1
    <2>6. Calls!Begin(t, in, out)
      BY <1>0, <2>1, <2>2, <2>4, <2>5, BeginStep
    <2> QED
      BY <2>6 DEF Calls!Next
  <1>4. ASSUME NEW t \in Threads, ExecuteIONull(t)
        PROVE  Calls!Next
    <2>1. /\ pc[t] = "idle" /\ pc'[t] = "done" /\ call[t] = NoCall
          /\ call'[t] = [api |-> "null", in |-> NULL, out |-> NULL] /\ status'[t] = "EXECUTION_FAILURE"
          /\ step' = step /\ handle' = handle /\ ds' = ds /\ ctx' = ctx /\ buf' = buf
          /\ \A u \in Threads \ {t} : pc'[u] = pc[u] /\ call'[u] = call[u] /\ status'[u] = status[u]
      BY <1>0, <1>4 DEF ExecuteIONull, CallsKnown
    <2>2. \A u \in Threads : RouteOf(u)' = RouteOf(u)
      BY <2>1 DEF RouteOf, InOf, OutOf, Plan
    <2>3. \A u \in Threads : OutputTouched(u)' = OutputTouched(u)
      <3>1. \A u \in Threads : Running(u)' = Running(u)
        BY <2>1 DEF Running
      <3> QED
        BY <2>1, <2>2, <3>1 DEF OutputTouched
    <2>4. /\ ~OutputTouched(t) /\ ~OutputTouched(t)'
      BY <2>1 DEF OutputTouched, Running
    <2>5. PhaseOf(t) = "idle" /\ PhaseOf(t)' = "returned" /\ ResultOf(t)' = "EXECUTION_FAILURE"
      BY <2>1 DEF PhaseOf, ResultOf, Finished
    <2>6. /\ phaseBar[t] = "idle" /\ phaseBar' = [phaseBar EXCEPT ![t] = "returned"]
          /\ resultBar' = [resultBar EXCEPT ![t] = "EXECUTION_FAILURE"]
      BY <2>1, <2>3, <2>5, OthersUnseen
    <2>7. reqBar' = reqBar
      <3>1. \A u \in Threads : call'[u].in = call[u].in /\ call'[u].out = call[u].out
        BY <2>1 DEF NoCall
      <3> QED
        BY <3>1 DEF reqBar
    <2>8. dataBar' = dataBar
      <3>1. \A b \in Bufs : Touched(b)' = Touched(b)
        BY <2>1, <2>3, <2>4 DEF Touched
      <3> QED
        BY <1>0, <2>1, <3>1 DEF BarsKnown
    <2> QED
      BY <2>6, <2>7, <2>8 DEF Calls!Next, Calls!FailNull
  <1>5. ASSUME NEW t \in Threads, NEW in \in Bufs, NEW out \in Bufs, ExecuteIO(t, in, out)
        PROVE  Calls!Next
    <2>1. /\ pc[t] = "idle" /\ pc'[t] \in {"run_base", "claim"} /\ step'[t] = 0
          /\ call'[t].in = in /\ call'[t].out = out
          /\ buf' = [buf EXCEPT ![in] = Raw(in), ![out] = Raw(out)]
          /\ handle' = handle /\ (~Plan.real => ds' = ds)
          /\ \A u \in Threads \ {t} : /\ pc'[u] = pc[u] /\ call'[u] = call[u] /\ ctx'[u] = ctx[u]
                                       /\ status'[u] = status[u] /\ step'[u] = step[u]
      BY <1>0, <1>5 DEF ExecuteIO
    <2>2. \A u \in Threads \ {t} : Running(u) =>
             ~Plan.real /\ out # call[u].out /\ in # call[u].out
      BY <1>5 DEF ExecuteIO, MayOverlap, BuffersFree, Active, Running
    <2>3. \A u \in Threads \ {t} : Running(u) => RouteOf(u)' = RouteOf(u)
      BY <2>1, <2>2 DEF RouteOf, InOf, OutOf, Plan
    <2>4. \A u \in Threads \ {t} : /\ OutputTouched(u)' = OutputTouched(u)
                                   /\ OutputTouched(u) => call[u].out \notin {in, out}
      <3>1. \A u \in Threads \ {t} : Running(u)' = Running(u)
        BY <2>1 DEF Running
      <3> QED
        BY <2>1, <2>2, <2>3, <3>1 DEF OutputTouched
    <2>5. Calls!Begin(t, in, out)
      BY <1>0, <2>1, <2>4, BeginStep
    <2> QED
      BY <2>5 DEF Calls!Next
  (* The steps of a call outside its solver. *)
  <1>6. ASSUME NEW t \in Threads, handle' = handle, ds' = ds, step' = step,
               \A u \in Threads \ {t} : pc'[u] = pc[u] /\ ctx'[u] = ctx[u]
        PROVE  \A u \in Threads \ {t} : OutputTouched(u)' = OutputTouched(u)
    <2>1. \A u \in Threads \ {t} : RouteOf(u)' = RouteOf(u) /\ Running(u)' = Running(u)
      BY <1>6 DEF RouteOf, InOf, OutOf, Plan, Running
    <2> QED
      BY <1>6, <2>1 DEF OutputTouched
  <1>7. ASSUME NEW t \in Threads,
               ClaimSetupBuffers(t) \/ AllocNothing(t) \/ \E s \in Slabs : AllocPerCallScratch(t, s)
        PROVE  Stutters
    <2>1. /\ handle' = handle /\ ds' = ds /\ call' = call /\ step' = step /\ status' = status
          /\ buf' = buf
          /\ \A u \in Threads \ {t} : pc'[u] = pc[u] /\ ctx'[u] = ctx[u]
          /\ pc[t] \in {"claim", "alloc"} /\ pc'[t] \in {"alloc", "run_owner", "run_slab"}
      BY <1>0, <1>7 DEF ClaimSetupBuffers, AllocNothing, AllocPerCallScratch
    <2>2. step[t] = 0
      BY <2>1 DEF DataInv, StepsLeft
    <2>3. ~OutputTouched(t) /\ ~OutputTouched(t)'
      BY <2>1, <2>2 DEF OutputTouched, Running
    <2>4. PhaseOf(t) = "called" /\ PhaseOf(t)' = "called"
      BY <2>1, <2>3 DEF PhaseOf, Finished
    <2>5. OutputTouched(t)' = OutputTouched(t)
      BY <2>3 DEF OutputTouched
    <2> QED
      BY <1>6, <2>1, <2>4, <2>5, HiddenStep
  <1>8. ASSUME NEW t \in Threads, AllocFails(t)
        PROVE  Calls!Next
    <2>1. /\ handle' = handle /\ ds' = ds /\ call' = call /\ step' = step /\ ctx' = ctx
          /\ buf' = buf
          /\ \A u \in Threads \ {t} : pc'[u] = pc[u] /\ status'[u] = status[u]
          /\ pc[t] = "alloc" /\ pc'[t] = "done" /\ status'[t] = "MEMORY_FAILURE"
      BY <1>0, <1>8 DEF AllocFails
    <2>2. ~OutputTouched(t) /\ ~Finished(t) /\ Finished(t)'
      BY <2>1 DEF OutputTouched, Running, Finished
    <2>3. \A u \in Threads \ {t} : OutputTouched(u)' = OutputTouched(u)
      BY <1>6, <2>1
    <2>4. Calls!Fail(t)
      BY <2>1, <2>2, <2>3, FailStep
    <2> QED
      BY <2>4 DEF Calls!Next
  <1>9. ASSUME NEW t \in Threads, SolverPass(t)
        PROVE  Calls!Next \/ Stutters
    BY <1>9, PassStep DEF Calls!Next
  <1>10. ASSUME NEW t \in Threads, CopyBufferRefused(t)
         PROVE  Calls!Next
    <2>1. /\ handle' = handle /\ ds' = ds /\ call' = call /\ ctx' = ctx /\ buf' = buf
          /\ \A u \in Threads \ {t} : pc'[u] = pc[u] /\ status'[u] = status[u]
          /\ Running(t) /\ step[t] = 0 /\ pc[t] # "idle"
          /\ CopyBufferMissing(Plan, ctx[t].regions, InOf(t), OutOf(t))
      BY <1>0, <1>10 DEF CopyBufferRefused, Running
    <2>2. ~Plan.ndim
      <3>1. Plan \in Plans /\ (ctx[t].regions["sr"] # NULL <=> Plan.srCopy > 0)
        BY <2>1, RouteOfShape
      <3>2. /\ Plan.placement \in {"in", "out"} /\ (Plan.real => ~Plan.sr)
            /\ (Plan.srCopy > 0 <=> Plan.sr /\ Plan.placement = "in")
        BY <3>1, PlansTyped DEF WellFormed, PlanType
      <3>3. InCall(t) /\ InFlight(t)
        BY <1>0, <2>1 DEF CallsKnown, InCall, Running
      <3>4. ~Plan.real /\ Plan.sr /\ Plan.placement = "out"
        BY <2>1, <3>1, <3>2 DEF CopyBufferMissing
      <3>5. Mismatched(t)
        BY <1>0, <2>1, <3>3, <3>4 DEF CopyBufferMissing, Mismatched, CallsKnown
      <3> QED
        BY <3>3, <3>5 DEF CallersHeed
    <2>3. status'[t] = "EXECUTION_FAILURE" /\ pc'[t] = AfterExecute(t) /\ step' = step
      BY <1>0, <1>10, <2>2 DEF CopyBufferRefused
    <2>4. ~OutputTouched(t) /\ ~Finished(t) /\ Finished(t)'
      BY <2>1, <2>3 DEF OutputTouched, Running, Finished, AfterExecute
    <2>5. \A u \in Threads \ {t} : OutputTouched(u)' = OutputTouched(u)
      BY <1>6, <2>1, <2>3
    <2>6. Calls!Fail(t)
      BY <2>1, <2>3, <2>4, <2>5, FailStep
    <2> QED
      BY <2>6 DEF Calls!Next
  <1>11. ASSUME NEW t \in Threads, ReleaseSetupBuffers(t) \/ FreeScratchSlab(t)
         PROVE  Stutters
    <2>1. /\ handle' = handle /\ ds' = ds /\ call' = call /\ step' = step /\ status' = status
          /\ buf' = buf /\ ctx' = ctx
          /\ \A u \in Threads \ {t} : pc'[u] = pc[u]
          /\ pc[t] \in {"release", "free"} /\ pc'[t] = "done"
      BY <1>0, <1>11 DEF ReleaseSetupBuffers, FreeScratchSlab
    <2>2. ~OutputTouched(t) /\ ~OutputTouched(t)'
      BY <2>1 DEF OutputTouched, Running
    <2>3. PhaseOf(t)' = PhaseOf(t)
      BY <2>1 DEF PhaseOf, Finished
    <2>4. OutputTouched(t)' = OutputTouched(t)
      BY <2>2 DEF OutputTouched
    <2> QED
      BY <1>6, <2>1, <2>3, <2>4, HiddenStep
  <1>12. ASSUME NEW t \in Threads, Return(t)
         PROVE  Calls!Next
    <2>1. /\ handle' = handle /\ ds' = ds /\ buf' = buf /\ pc[t] = "done" /\ pc'[t] = "idle"
          /\ call'[t] = NoCall
          /\ \A u \in Threads \ {t} : /\ pc'[u] = pc[u] /\ call'[u] = call[u] /\ ctx'[u] = ctx[u]
                                       /\ step'[u] = step[u] /\ status'[u] = status[u]
      BY <1>0, <1>12 DEF Return
    <2>2. ~OutputTouched(t) /\ ~OutputTouched(t)'
      BY <2>1 DEF OutputTouched, Running
    <2>3. \A u \in Threads \ {t} : OutputTouched(u)' = OutputTouched(u)
      <3>1. \A u \in Threads \ {t} : RouteOf(u)' = RouteOf(u) /\ Running(u)' = Running(u)
        BY <2>1 DEF RouteOf, InOf, OutOf, Plan, Running
      <3> QED
        BY <2>1, <3>1 DEF OutputTouched
    <2>4. PhaseOf(t) = "returned" /\ PhaseOf(t)' = "idle" /\ ResultOf(t)' = NULL
      BY <2>1 DEF PhaseOf, ResultOf, Finished
    <2>5. /\ phaseBar[t] = "returned" /\ phaseBar' = [phaseBar EXCEPT ![t] = "idle"]
          /\ resultBar' = [resultBar EXCEPT ![t] = NULL]
          /\ reqBar' = [reqBar EXCEPT ![t] = [in |-> call'[t].in, out |-> call'[t].out]]
      BY <2>1, <2>3, <2>4, OthersUnseen
    <2>6. dataBar' = dataBar
      <3>1. \A b \in Bufs : Touched(b)' = Touched(b)
        BY <2>1, <2>2, <2>3 DEF Touched
      <3> QED
        BY <1>0, <2>1, <3>1 DEF BarsKnown
    <2>7. [in |-> call'[t].in, out |-> call'[t].out] = Calls!NoReq
      BY <2>1 DEF NoCall, Calls!NoReq
    <2>8. Calls!Collect(t)
      BY <2>5, <2>6, <2>7 DEF Calls!Collect
    <2> QED
      BY <2>8 DEF Calls!Next
  <1>13. CASE UNCHANGED vars
    <2>1. \A u \in Threads : RouteOf(u)' = RouteOf(u) /\ Running(u)' = Running(u)
      BY <1>13 DEF RouteOf, InOf, OutOf, Plan, Running, vars
    <2>2. \A u \in Threads : OutputTouched(u)' = OutputTouched(u)
      BY <1>13, <2>1 DEF OutputTouched, vars
    <2>3. \A u \in Threads : PhaseOf(u)' = PhaseOf(u) /\ ResultOf(u)' = ResultOf(u)
      BY <1>13, <2>2 DEF PhaseOf, Finished, ResultOf, vars
    <2>4. \A b \in Bufs : Touched(b)' = Touched(b)
      BY <1>13, <2>2 DEF Touched, vars
    <2>5. phaseBar' = phaseBar /\ resultBar' = resultBar /\ dataBar' = dataBar
      BY <1>0, <1>13, <2>3, <2>4 DEF BarsKnown, vars
    <2>6. reqBar' = reqBar
      BY <1>13 DEF reqBar, vars
    <2> QED
      BY <2>5, <2>6 DEF Stutters
  <1> QED
    BY <1>1, <1>2, <1>3, <1>4, <1>5, <1>7, <1>8, <1>9, <1>10, <1>11, <1>12, <1>13
       DEF Next, CallStep

-----------------------------------------------------------------------------
(* The theorems. *)

LEMMA InitRefines == Init => Calls!Init
  <1>1. SUFFICES ASSUME Init
                 PROVE  Calls!Init
    OBVIOUS
  <1>2. BarsKnown
    BY BarsAre
  <1>3. \A t \in Threads : PhaseOf(t) = "idle" /\ ResultOf(t) = NULL /\ ~OutputTouched(t)
    BY <1>1 DEF Init, PhaseOf, ResultOf, OutputTouched, Running
  <1>4. dataBar = [b \in Bufs |-> Junk]
    BY <1>1, <1>2, <1>3 DEF BarsKnown, Touched, Init
  <1>5. reqBar = [t \in Threads |-> Calls!NoReq]
    BY <1>1 DEF Init, reqBar, NoCall, Calls!NoReq
  <1>6. phaseBar = [t \in Threads |-> "idle"] /\ resultBar = [t \in Threads |-> NULL]
    BY <1>2, <1>3 DEF BarsKnown
  <1> QED
    BY <1>4, <1>5, <1>6 DEF Calls!Init

(* As long as callers avoid the two calls of CallersHeed, every behaviour of
   the handle is one of FftCalls: whatever the interleaving, a call that
   succeeds has transformed its own input, one that fails has not touched its
   output, and the claim, the slabs and the regions stay invisible. *)
THEOREM HeededCallsImplement == Spec /\ []CallersHeed => ImplementsFftCalls
  <1>1. IInv /\ DataInv /\ CallersHeed /\ [Next]_vars => [Calls!Next]_Calls!vars
    BY StepRefines DEF Stutters, Calls!vars
  <1> QED
    BY <1>1, InitRefines, SpecDataInv, PTL DEF Spec, ImplementsFftCalls, Calls!Spec

(* Complex plans, split-radix ones below an N-dimensional node only in place,
   implement the calls of FftCalls without any condition on the callers but
   the contract of SharedHandle.  The two kinds of plan left out are those
   ExecuteUsesSetupBuffers and InPlaceMismatchRefused are violated on. *)
THEOREM HandleImplementsCalls ==
    ASSUME \A p \in Plans : ~p.real /\ ~(p.sr /\ p.ndim /\ p.placement = "out")
    PROVE  Spec => ImplementsFftCalls
  <1>1. IInv /\ DataInv => CallersHeed
    <2>1. ASSUME IInv, DataInv, NEW t \in Threads, InFlight(t)
          PROVE  ~Plan.real /\ ~(Plan.ndim /\ Mismatched(t))
      <3>1. handle \in [plan : Plans, in : Bufs, out : Bufs]
        BY <2>1 DEF IInv, TypeOK, DataInv, CallsKnown
      <3>2. Plan \in Plans
        BY <3>1 DEF Plan
      <3> QED
        BY <3>2 DEF Mismatched
    <2> QED
      BY <2>1 DEF CallersHeed
  <1> QED
    BY <1>1, SpecDataInv, HeededCallsImplement, PTL
=============================================================================
