---------------------------- MODULE TelemetryRecords ----------------------------
(***************************************************************************)
(* What the persist transactions of core/storage-write leave in a project  *)
(* database: BuildPersistQuery for span and log batches, and               *)
(* BuildMetricsPersistQuery for metric batches.                            *)
(*                                                                         *)
(* StorageWriteIngest shows that a command's transaction commits at most   *)
(* once and that commands commit in any order.  Here a commit is one       *)
(* action, and the question is which tables depend on that order and on    *)
(* how the exporter cut its telemetry into batches.                        *)
(*                                                                         *)
(* A span, log event or point is a model value; the constants below say    *)
(* what the transactions read of it.  A command is the set of items it     *)
(* carries, so an item repeated inside one batch is left out.  So are      *)
(* items that name no service, which touch no service record, metrics      *)
(* reported without points, whose window is the time of receipt, and the   *)
(* rows of metric_ingest_cardinality, which no other code reads.           *)
(***************************************************************************)
EXTENDS Integers, FiniteSets

CONSTANTS
    Commands,       \* accepted commands, each with a commandId of its own
    Carries,        \* the items of each command
    Spans, Logs, Points,
    Traces, Services, Metrics, AttributeKeys,
    SpanID,         \* the OTLP span id, which is the span's record id
    TraceOf,        \* the trace of each span, and of each log or NoTrace
    ServiceOf,      \* the service of each span and log
    ErrorSpans,     \* spans with an error status
    MetricOf,       \* the metric of each point, by the slug of its name
    KeysOf,         \* the attribute keys of each point
    ReservedKeys,   \* keys applyMetricPointPolicy always drops
    At,             \* the timestamp of each item
    NoTrace, None

SpanIDs == {SpanID[s] : s \in Spans}

Counters == [spanCount : Nat, errorSpanCount : Nat, serviceCount : Nat, logCount : Nat]
Window == [firstSeenAt : Int, lastSeenAt : Int]
Descriptor == [attributeKeys : SUBSET AttributeKeys, firstSeenAt : Int, lastSeenAt : Int]

ASSUME RecordsAssumption ==
    /\ Carries \in [Commands -> SUBSET (Spans \union Logs \union Points)]
    /\ \A c \in Commands : IsFiniteSet(Carries[c])
    /\ IsFiniteSet(Logs)
    /\ DOMAIN SpanID = Spans
    /\ TraceOf \in [Spans \union Logs -> Traces \union {NoTrace}]
    /\ \A s \in Spans : TraceOf[s] \in Traces
    /\ ServiceOf \in [Spans \union Logs -> Services]
    /\ ErrorSpans \subseteq Spans
    /\ MetricOf \in [Points -> Metrics]
    /\ KeysOf \in [Points -> SUBSET AttributeKeys]
    /\ ReservedKeys \subseteq AttributeKeys
    /\ At \in [Spans \union Logs \union Points -> Int]
    /\ NoTrace \notin Traces
    /\ Spans \intersect Logs = {} /\ Points \intersect (Spans \union Logs) = {}
    /\ None \notin Spans \union Counters \union Window \union Descriptor
    /\ \A keys \in SUBSET AttributeKeys : keys # None

VARIABLES
    persisted,      \* commands whose transaction committed
    span,           \* the span table: which span a record id holds
    logEvent,       \* the log_event table, by log id
    trace,          \* the counters of each trace record
    service,        \* the window of each service record
    descriptor,     \* the metric_descriptor table
    point           \* the metric_point table: the keys a stored point kept

vars == <<persisted, span, logEvent, trace, service, descriptor, point>>

TypeOK ==
    /\ persisted \in SUBSET Commands
    /\ span \in [SpanIDs -> Spans \union {None}]
    /\ logEvent \in SUBSET Logs
    /\ trace \in [Traces -> Counters \union {None}]
    /\ service \in [Services -> Window \union {None}]
    /\ descriptor \in [Metrics -> Descriptor \union {None}]
    /\ point \in [Points -> (SUBSET AttributeKeys) \union {None}]

Init ==
    /\ persisted = {}
    /\ span = [i \in SpanIDs |-> None]
    /\ logEvent = {}
    /\ trace = [t \in Traces |-> None]
    /\ service = [v \in Services |-> None]
    /\ descriptor = [m \in Metrics |-> None]
    /\ point = [p \in Points |-> None]

--------------------------------------------------------------------------------
(* What the collector and the writer derive from a batch *)

SpansOf(c) == Carries[c] \intersect Spans

\* Mutant: a log event without a trace is not stored.
TracedLogsOf(c) == {l \in Carries[c] \intersect Logs : TraceOf[l] # NoTrace}

LogsOf(c) == Carries[c] \intersect Logs
PointsOf(c) == Carries[c] \intersect Points

\* deriveTraces: a span batch carries a trace for every trace of its spans.
TracesOf(c) == {TraceOf[s] : s \in SpansOf(c)}

\* The traces whose logCount a batch recounts.
LoggedTraces(c) == {TraceOf[l] : l \in LogsOf(c)} \ {NoTrace}

\* Mutant: only spans register their service.
ServicesOfSpans(c) == {ServiceOf[s] : s \in SpansOf(c)}

ServicesOf(c) == {ServiceOf[x] : x \in SpansOf(c) \union LogsOf(c)}
MetricsOf(c) == {MetricOf[p] : p \in PointsOf(c)}

ItemsOfService(c, v) == {x \in SpansOf(c) \union LogsOf(c) : ServiceOf[x] = v}
PointsOfMetric(c, m) == {p \in PointsOf(c) : MetricOf[p] = m}

\* w bounds the timestamps of items, and its ends are two of them.
Spanning(items, w) ==
    /\ \E x \in items : At[x] = w.firstSeenAt
    /\ \E x \in items : At[x] = w.lastSeenAt
    /\ \A x \in items : w.firstSeenAt <= At[x] /\ At[x] <= w.lastSeenAt

Windows(items) == {[firstSeenAt |-> At[x], lastSeenAt |-> At[y]] : x, y \in items}

--------------------------------------------------------------------------------
(* The transactions *)

\* traceRecord: the counters come from this batch alone.
TraceRecord(c, t) ==
    LET spans == {s \in SpansOf(c) : TraceOf[s] = t} IN
    [spanCount      |-> Cardinality(spans),
     errorSpanCount |-> Cardinality(spans \intersect ErrorSpans),
     serviceCount   |-> Cardinality({ServiceOf[s] : s \in spans}),
     logCount       |-> 0]

UpsertTrace(c, t) == IF t \in TracesOf(c) THEN TraceRecord(c, t) ELSE trace[t]

\* Mutant: the recount upserts the trace record.
RecountUpserts(c, t, logs) ==
    IF t \in LoggedTraces(c) /\ UpsertTrace(c, t) = None
      THEN [logCount |-> Cardinality({l \in logs : TraceOf[l] = t})]
      ELSE UpsertTrace(c, t)

\* The UPDATE after the upserts recounts the logs of a trace that has a record.
RecountLogs(c, t, logs) ==
    IF t \in LoggedTraces(c) /\ UpsertTrace(c, t) # None
      THEN [UpsertTrace(c, t) EXCEPT !.logCount = Cardinality({l \in logs : TraceOf[l] = t})]
      ELSE UpsertTrace(c, t)

\* UPSERT of a span's record.  Of two spans with one id in a batch the later wins.
UpsertSpans(c) ==
    \E last \in [{SpanID[s] : s \in SpansOf(c)} -> SpansOf(c)] :
        /\ \A i \in DOMAIN last : SpanID[last[i]] = i
        /\ span' = [i \in SpanIDs |-> IF i \in DOMAIN last THEN last[i] ELSE span[i]]

\* deriveTraces gives a trace the service of one of its spans, its root, and the
\* time of its earliest span.
EarliestSpans(c, t) ==
    {s \in SpansOf(c) : /\ TraceOf[s] = t
                        /\ \A r \in SpansOf(c) : TraceOf[r] = t => At[s] <= At[r]}

\* A service is seen at each of its items and at the start of each trace whose
\* root is its own.
Observations(c, v, root) ==
    ItemsOfService(c, v) \union
    UNION {EarliestSpans(c, t) : t \in {u \in TracesOf(c) : ServiceOf[root[u]] = v}}

\* mergeService widens a service's window over the batch; the MERGE then
\* replaces the stored window.
MergeServices(c) ==
    \E root \in [TracesOf(c) -> SpansOf(c)],
       seen \in [ServicesOf(c) -> Windows(SpansOf(c) \union LogsOf(c))] :
        /\ \A t \in TracesOf(c) : TraceOf[root[t]] = t
        /\ \A v \in ServicesOf(c) : Spanning(Observations(c, v, root), seen[v])
        /\ service' = [v \in Services |-> IF v \in ServicesOf(c) THEN seen[v] ELSE service[v]]

\* BuildPersistQuery.
PersistTelemetry(c) ==
    /\ c \notin persisted
    /\ PointsOf(c) = {}
    /\ persisted' = persisted \union {c}
    /\ UpsertSpans(c)
    /\ logEvent' = logEvent \union LogsOf(c)
    /\ trace' = [t \in Traces |-> RecountLogs(c, t, logEvent')]
    /\ MergeServices(c)
    /\ UNCHANGED <<descriptor, point>>

\* Mutant: a descriptor is replaced, as every other record is.
UpsertContent(d, declared) == declared

\* Mutant: the window is not widened when the descriptor has one.
UpsertKeysOnly(d, declared) ==
    IF d = None THEN declared
                ELSE [d EXCEPT !.attributeKeys = @ \union declared.attributeKeys]

\* metricDescriptorUpsertStatement: union of keys, widest window.
UpsertDescriptor(d, declared) ==
    IF d = None THEN declared ELSE
    [attributeKeys |-> d.attributeKeys \union declared.attributeKeys,
     firstSeenAt   |-> IF declared.firstSeenAt < d.firstSeenAt
                         THEN declared.firstSeenAt ELSE d.firstSeenAt,
     lastSeenAt    |-> IF declared.lastSeenAt > d.lastSeenAt
                         THEN declared.lastSeenAt ELSE d.lastSeenAt]

\* NormalizeMetrics declares a descriptor for each metric of the batch, with the
\* keys its points have before any is dropped.
DescribeMetrics(c) ==
    \E seen \in [MetricsOf(c) -> Windows(PointsOf(c))] :
        /\ \A m \in MetricsOf(c) : Spanning(PointsOfMetric(c, m), seen[m])
        /\ descriptor' = [m \in Metrics |->
             IF m \notin MetricsOf(c) THEN descriptor[m] ELSE
             UpsertDescriptor(descriptor[m],
               [attributeKeys |-> UNION {KeysOf[p] : p \in PointsOfMetric(c, m)},
                firstSeenAt |-> seen[m].firstSeenAt, lastSeenAt |-> seen[m].lastSeenAt])]

\* applyMetricPointPolicy keeps some of the keys that are not reserved: its
\* limits on keys and on distinct values of a key drop others.
UpsertPoints(c) ==
    \E kept \in [PointsOf(c) -> SUBSET (AttributeKeys \ ReservedKeys)] :
        /\ \A p \in PointsOf(c) : kept[p] \subseteq KeysOf[p]
        /\ point' = [p \in Points |-> IF p \in PointsOf(c) THEN kept[p] ELSE point[p]]

\* BuildMetricsPersistQuery.
PersistMetrics(c) ==
    /\ c \notin persisted
    /\ PointsOf(c) # {} /\ PointsOf(c) = Carries[c]
    /\ persisted' = persisted \union {c}
    /\ UpsertPoints(c)
    /\ DescribeMetrics(c)
    /\ UNCHANGED <<span, logEvent, trace, service>>

Next == \E c \in Commands : PersistTelemetry(c) \/ PersistMetrics(c)

Spec == Init /\ [][Next]_vars

--------------------------------------------------------------------------------
(* Properties *)

Accepted == UNION {Carries[c] : c \in persisted}

\* However telemetry is batched, retried and reordered, every span, log event
\* and point of a committed command is in its table and nothing else is.
AcceptedItemsStored ==
    /\ \A s \in Spans : s \in Accepted <=> span[SpanID[s]] = s
    /\ \A l \in Logs : l \in Accepted <=> l \in logEvent
    /\ \A p \in Points : p \in Accepted <=> point[p] # None

\* A metric descriptor is the aggregate of every point ever stored under it, in
\* whatever order the batches arrived: no key is lost to a later narrower batch
\* and no late batch moves its window.
DescriptorsAggregate ==
    \A m \in Metrics :
        LET points == {p \in Points : point[p] # None /\ MetricOf[p] = m} IN
        IF points = {}
          THEN descriptor[m] = None
          ELSE /\ descriptor[m] \in Descriptor
               /\ descriptor[m].attributeKeys = UNION {KeysOf[p] : p \in points}
               /\ Spanning(points, descriptor[m])

\* A stored point has no key its exporter did not send.
KeptKeys == \A p \in Points : point[p] # None => point[p] \subseteq KeysOf[p]

\* Every key a stored point kept can be found through its descriptor, and the
\* point lies inside the descriptor's window.
PointsDiscoverable ==
    \A p \in Points : point[p] # None =>
        LET d == descriptor[MetricOf[p]] IN
        /\ d # None /\ point[p] \subseteq d.attributeKeys
        /\ d.firstSeenAt <= At[p] /\ At[p] <= d.lastSeenAt

\* A stored span resolves to a trace record and a service record, a stored log
\* to a service record: trace lists and service pickers miss nothing.
ReferencesResolve ==
    /\ \A i \in SpanIDs : span[i] # None =>
          trace[TraceOf[span[i]]] # None /\ service[ServiceOf[span[i]]] # None
    /\ \A l \in logEvent : service[ServiceOf[l]] # None

\* The denormalized counters of a trace record count the stored spans and logs
\* of the trace, which is what the trace list shows.
CountersMatchTables ==
    \A t \in Traces : trace[t] # None =>
        LET spans == {s \in Spans : span[SpanID[s]] = s /\ TraceOf[s] = t} IN
        trace[t] = [spanCount      |-> Cardinality(spans),
                    errorSpanCount |-> Cardinality(spans \intersect ErrorSpans),
                    serviceCount   |-> Cardinality({ServiceOf[s] : s \in spans}),
                    logCount       |-> Cardinality({l \in logEvent : TraceOf[l] = t})]
================================================================================
