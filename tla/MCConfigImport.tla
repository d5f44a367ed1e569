--------------------------- MODULE MCConfigImport ---------------------------
(* Small instances of ConfigImport for TLC; the bounds are in the .cfg.    *)
EXTENDS ConfigImport
=============================================================================
