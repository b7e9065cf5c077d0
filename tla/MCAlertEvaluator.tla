---------------------------- MODULE MCAlertEvaluator ----------------------------
(***************************************************************************)
(* Instances of AlertEvaluator for TLC: one scheduler over a long history, *)
(* and schedulers of two replicas with a handler over a short one.         *)
(***************************************************************************)
EXTENDS AlertEvaluator

CONSTANTS s1, s2, h1
================================================================================
