------------------------------ MODULE MCCAQueue -----------------------------
(***************************************************************************)
(* TLC instances of CAQueue.  Queue objects and providers are              *)
(* interchangeable: no definition tells one from another.                  *)
(***************************************************************************)
EXTENDS CAQueue, TLC

Symmetry == Permutations(Queues) \cup Permutations(Providers) \cup Permutations(Changers)
=============================================================================
