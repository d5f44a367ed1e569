--------------------------- MODULE MCClusterSync ---------------------------
(* Instances of ClusterSync for TLC.                                       *)
EXTENDS ClusterSync

\* The second snapshot brings new rule files only.
FilesOnly == [s \in Content |-> IF s = 2 THEN 1 ELSE s]
=============================================================================
