-------------------------- MODULE MCRollingUpdate --------------------------
(* Small instances of RollingUpdate.                                       *)
EXTENDS RollingUpdate
============================================================================
