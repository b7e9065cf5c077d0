--------------------------- MODULE MCTelemetryRecords ---------------------------
(***************************************************************************)
(* Instances of TelemetryRecords for TLC: one trace whose spans and logs   *)
(* come in several batches and are sent again by a retrying exporter, and  *)
(* one metric whose points come in batches of different width.             *)
(***************************************************************************)
EXTENDS TelemetryRecords, TLC

CONSTANTS t1, t2, v1, v2, s1, s2, s3, l1, l2, p1, p2, p3, i1, i2, i3, k1, k2, k3,
          m1, m2, spansA, spansB, spansRetry, spansOther, logsA, logsRetry,
          pointsA, pointsB, pointsRetry

\* s1 and s2 are the spans of t1, exported in two batches; spansRetry sends both.
MCCarries ==
    spansA :> {s1} @@ spansB :> {s2} @@ spansRetry :> {s1, s2} @@ spansOther :> {s3} @@
    logsA :> {l1} @@ logsRetry :> {l1, l2} @@
    pointsA :> {p1} @@ pointsB :> {p2, p3} @@ pointsRetry :> {p1, p2}

DistinctIDs == s1 :> i1 @@ s2 :> i2 @@ s3 :> i3

MCTraceOf == s1 :> t1 @@ s2 :> t1 @@ s3 :> t2 @@ l1 :> t1 @@ l2 :> NoTrace
MCServiceOf == s1 :> v1 @@ s2 :> v2 @@ s3 :> v1 @@ l1 :> v1 @@ l2 :> v2
MCMetricOf == p1 :> m1 @@ p2 :> m1 @@ p3 :> m2
MCKeysOf == p1 :> {k1} @@ p2 :> {k1, k2} @@ p3 :> {k2, k3}
MCAt == s1 :> 2 @@ s2 :> 1 @@ s3 :> 3 @@ l1 :> 4 @@ l2 :> 0 @@ p1 :> 3 @@ p2 :> 1 @@ p3 :> 2
================================================================================
