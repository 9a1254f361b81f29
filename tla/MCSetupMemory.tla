---------------------------- MODULE MCSetupMemory ----------------------------
(* Bounds for model-checking SetupMemory: every type of root over a search  *)
(* with three radices, so that a candidate is adopted, rejected and adopted *)
(* again, searched in place and out of place; a real search without any     *)
(* radix; and real plans with threads whose trees nest batched nodes,       *)
(* N-dimensional nodes and chains of two and three stages.                  *)
EXTENDS SetupMemory

NoShape == [types |-> <<>>, threads |-> <<>>, buffer |-> FALSE]

Searched(type, inPlace, strided, radices, reproducible) ==
  [root |-> type, inPlace |-> inPlace, strided |-> strided,
   radices |-> radices, reproducible |-> reproducible, shape |-> NoShape]

Threaded(types, threads, buffer) ==
  [root |-> "CLONES", inPlace |-> FALSE, strided |-> FALSE, radices |-> 0,
   reproducible |-> FALSE,
   shape |-> [types |-> types, threads |-> threads, buffer |-> buffer]]

TwoStages == <<"REAL_BUFFERED", "REAL_CT", "REAL_DIRECT", "REAL_DIRECT">>
ThreeStages == <<"REAL_BUFFERED", "REAL_CT", "REAL_DIRECT", "REAL_CT",
                 "REAL_DIRECT", "REAL_DIRECT">>
Ones == <<1, 1, 1, 1, 1, 1, 1>>

MCProblems ==
  {Searched("CT", FALSE, FALSE, 3, TRUE), Searched("CT", TRUE, FALSE, 2, FALSE),
   Searched("BATCHED", FALSE, TRUE, 2, FALSE),
   Searched("BUFFERED", FALSE, FALSE, 2, FALSE),
   Searched("NDIM", TRUE, FALSE, 2, FALSE),
   Searched("REAL_BUFFERED", FALSE, FALSE, 2, FALSE),
   Searched("REAL_BUFFERED", FALSE, FALSE, 0, TRUE)}
  \cup
  {Threaded(<<"REAL_MT_BATCHED">> \o ThreeStages, <<3>> \o Ones, FALSE),
   Threaded(<<"REAL_MT_BATCHED", "REAL_NDIM", "REAL_MT_BATCHED">> \o TwoStages,
            <<2, 1, 2>> \o Ones, TRUE),
   Threaded(<<"REAL_NDIM", "REAL_MT_BATCHED">> \o TwoStages,
            <<1, 2>> \o Ones, TRUE),
   Threaded(<<"REAL_MT_BATCHED", "REAL_NDIM", "REAL_DIRECT">>,
            <<3, 1, 1>>, TRUE)}
=============================================================================
