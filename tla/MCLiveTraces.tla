------------------------------ MODULE MCLiveTraces ------------------------------
(* Small instances of LiveTraces. *)
EXTENDS LiveTraces, TLC

CONSTANTS r1, r2, s1, s2, t1, t2

Symmetric == Permutations({s1, s2})
================================================================================
