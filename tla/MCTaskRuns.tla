----------------------------- MODULE MCTaskRuns -----------------------------
(***************************************************************************)
(* Instances of TaskRuns with the shapes of production tasks: "crs" is     *)
(* crs-update (scheduled, master only, cancelled through its hook), "cert" *)
(* a periodic certificate task of the master, "load" the config load that  *)
(* runs before the panel listens.                                          *)
(***************************************************************************)
EXTENDS TaskRuns, TLC

MCKind == [t \in Tasks |-> CASE t = "crs" -> "scheduled"
                             [] t = "cert" -> "periodic"
                             [] OTHER -> "oneshot"]
MCRunsOn == [t \in Tasks |-> IF t = "load" THEN "any" ELSE "master"]
MCBootSync == Tasks \cap {"load"}
MCHasHook == Tasks \cap {"crs"}

ClientSymmetry == Permutations(Clients)
=============================================================================
