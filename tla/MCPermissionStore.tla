-------------------------- MODULE MCPermissionStore --------------------------
(* PermissionStore on small instances: blocks 0 and 1, so that there is a   *)
(* fork below the tip and a block to roll back to.                          *)
EXTENDS PermissionStore
=============================================================================
