-------------------------- MODULE MCAuditRotation --------------------------
(* Small instances of AuditRotation for TLC; the bounds are in the .cfg.   *)
EXTENDS AuditRotation
=============================================================================
