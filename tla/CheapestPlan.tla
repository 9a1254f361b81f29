----------------------------- MODULE CheapestPlan -----------------------------
(***************************************************************************)
(* What setup promises of the plan it hands out: candidates are examined   *)
(* in the order of their radices, and the handle holds the first of the    *)
(* cheapest ones, or there is no handle.                                   *)
(***************************************************************************)
EXTENDS Naturals, Sequences

CONSTANTS MaxCost    \* bound: costs are 1 .. MaxCost

VARIABLES costs,     \* costs of the candidates examined so far
          kept,      \* position of the candidate kept, 0 for none
          state      \* "choosing", "planned" or "none"

vars == <<costs, kept, state>>

(* The first of the cheapest candidates.                                   *)
IsFirstCheapest(k, cs) ==
  /\ k \in DOMAIN cs
  /\ \A j \in DOMAIN cs : cs[k] <= cs[j]
  /\ \A j \in 1 .. k - 1 : cs[k] < cs[j]

Init == costs = <<>> /\ kept = 0 /\ state = "choosing"

Examine ==
  /\ state = "choosing"
  /\ \E cost \in 1 .. MaxCost : costs' = Append(costs, cost)
  /\ kept' \in DOMAIN costs' /\ IsFirstCheapest(kept', costs')
  /\ UNCHANGED state

HandOut == /\ state = "choosing" /\ kept # 0
           /\ state' = "planned"
           /\ UNCHANGED <<costs, kept>>

(* A search that fails, before or after its candidates, and the end of the *)
(* handle, leave no plan.                                                  *)
Drop == /\ state # "none"
        /\ state' = "none" /\ kept' = 0
        /\ UNCHANGED costs

Next == Examine \/ HandOut \/ Drop

Spec == Init /\ [][Next]_vars
=============================================================================
