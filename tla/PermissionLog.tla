---------------------------- MODULE PermissionLog ----------------------------
(***************************************************************************)
(* What the permission store promises to validation: one version of the   *)
(* permissions per block of the active chain, and one pending version, the *)
(* permissions as the transactions accepted since the last block leave     *)
(* them. There are no files, no rows and no checkpoints here;              *)
(* PermissionStore shows that the ledger file, the database and the        *)
(* in-memory rows of permissions/permission.cpp behave as if there were    *)
(* none, a crash at any point included.                                    *)
(***************************************************************************)
EXTENDS Integers, Sequences

CONSTANTS Holders       \* what can be granted: an (entity, address, type)

VARIABLES versions,     \* versions[h + 1]: the permissions after block h
          pending       \* the permissions with the memory pool applied

vars == <<versions, pending>>

Version == [Holders -> BOOLEAN]

Nobody == [k \in Holders |-> FALSE]

Top(s) == IF s = <<>> THEN Nobody ELSE s[Len(s)]

Init == versions = <<>> /\ pending = Nobody

(* Transactions enter and leave the memory pool.                           *)
Update == pending' \in Version /\ UNCHANGED versions

(* A block is the pending version made permanent.                          *)
Commit == versions' = Append(versions, pending) /\ UNCHANGED pending

(* Blocks are taken off the end, and the memory pool with them.            *)
RollBack == /\ \E n \in 0..Len(versions) : versions' = SubSeq(versions, 1, n)
            /\ pending' = Top(versions')

Next == Update \/ Commit \/ RollBack

Spec == Init /\ [][Next]_vars
=============================================================================
