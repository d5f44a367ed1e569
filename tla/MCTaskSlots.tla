---------------------------- MODULE MCTaskSlots -----------------------------
(***************************************************************************)
(* Instances of TaskSlots with a short period and three distinct delays.   *)
(***************************************************************************)
EXTENDS TaskSlots, TLC

MCDelays == [i \in 1..3 |-> i - 1]
=============================================================================
