---------------------------- MODULE MCLiveOperations ----------------------------
(* Small instances of LiveOperations: one socket and a few operations. *)
EXTENDS LiveOperations

CONSTANTS o1, o2, o3
================================================================================
