---------------------------- MODULE MCTaskDaemon ----------------------------
(***************************************************************************)
(* The daemons the panel registers (services/taskengine_wire.go):          *)
(* cert-issuance runs on the master only, cluster-sync on either role with *)
(* a restart at every role flip, security-events-ingestion on either.      *)
(***************************************************************************)
EXTENDS TaskDaemon

MCRunsOn == [d \in Daemons |-> IF d = "cert" THEN "master" ELSE "any"]
MCRestartOnRoleFlip == [d \in Daemons |-> d = "sync"]

=============================================================================
