-------------------------- MODULE MCRetentionBatches --------------------------
(***************************************************************************)
(* Instances of RetentionBatches for TLC: one trace with a log event of    *)
(* its own time, another log event, and a rule of each mode.               *)
(***************************************************************************)
EXTENDS RetentionBatches, TLC

CONSTANTS trace, logOfTrace, log

MCTraceOf == (logOfTrace :> trace) @@ (log :> NoTrace)
MCLogTime == (logOfTrace :> 0) @@ (log :> -1)
MCEnds == {-1}

Retain == [mode |-> "retain", days |-> 0, grace |-> 0]
Delete == [mode |-> "delete", days |-> 1, grace |-> 0]
Soft == [mode |-> "soft", days |-> 1, grace |-> 1]

Policy(traces, logs) == [c \in Classes |-> IF c = "TRACES" THEN traces ELSE logs]
AllPolicies == {Policy(Delete, Retain), Policy(Soft, Delete)}
HardPolicy == {Policy(Delete, Delete)}

AnyReplica == Permutations(Replicas)
================================================================================
