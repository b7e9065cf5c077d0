-------------------------- MODULE MCStorageWriteIngest --------------------------
(***************************************************************************)
(* Instances of StorageWriteIngest for TLC.                                *)
(***************************************************************************)
EXTENDS StorageWriteIngest, TLC

CONSTANTS m1, m2, m3, c1, c2, r1, r2

\* m2 is the command of m1 published again by an operator who requeues it.
RequeuedCommand == m1 :> c1 @@ m2 :> c1

\* The same, and a message that never validates.
MixedCommands == m1 :> c1 @@ m2 :> c1 @@ m3 :> c2

ReplicaSymmetry == Permutations({r1, r2})
================================================================================
