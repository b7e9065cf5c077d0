------------------------- MODULE TelemetryRecordsProofs -------------------------
(***************************************************************************)
(* Proofs about TelemetryRecords, for every set of commands and every      *)
(* order in which their transactions commit.                               *)
(***************************************************************************)
EXTENDS TelemetryRecords, FiniteSetTheorems, TLAPS

\* The counters derived from a batch are numbers.
LEMMA TraceRecordTyped ==
    ASSUME NEW c \in Commands, NEW t \in Traces
    PROVE  TraceRecord(c, t) \in Counters
<1> DEFINE spans == {s \in SpansOf(c) : TraceOf[s] = t}
<1>1. IsFiniteSet(spans)
  <2>1. IsFiniteSet(Carries[c]) /\ spans \subseteq Carries[c]
    BY RecordsAssumption DEF SpansOf
  <2> QED
    BY <2>1, FS_Subset
<1>2. IsFiniteSet(spans \intersect ErrorSpans)
  BY <1>1, FS_Subset
<1>3. IsFiniteSet({ServiceOf[s] : s \in spans})
  <2>1. [s \in spans |-> ServiceOf[s]] \in Surjection(spans, {ServiceOf[s] : s \in spans})
    BY DEF Surjection
  <2> QED
    BY <1>1, <2>1, FS_Surjection
<1>4. /\ Cardinality(spans) \in Nat
      /\ Cardinality(spans \intersect ErrorSpans) \in Nat
      /\ Cardinality({ServiceOf[s] : s \in spans}) \in Nat
  BY <1>1, <1>2, <1>3, FS_CardinalityType
<1> QED
  BY <1>4 DEF TraceRecord, Counters

\* Recounting logs keeps a record a record, and creates none.
LEMMA RecountTyped ==
    ASSUME TypeOK, NEW c \in Commands, NEW t \in Traces, NEW logs \in SUBSET Logs
    PROVE  /\ UpsertTrace(c, t) \in Counters \union {None}
           /\ RecountLogs(c, t, logs) \in Counters \union {None}
           /\ RecountLogs(c, t, logs) = None <=> UpsertTrace(c, t) = None
<1>1. UpsertTrace(c, t) \in Counters \union {None}
  BY TraceRecordTyped DEF UpsertTrace, TypeOK
<1>2. Cardinality({l \in logs : TraceOf[l] = t}) \in Nat
  <2>1. IsFiniteSet({l \in logs : TraceOf[l] = t})
    BY RecordsAssumption, FS_Subset
  <2> QED
    BY <2>1, FS_CardinalityType
<1>3. CASE t \in LoggedTraces(c) /\ UpsertTrace(c, t) # None
  <2>1. UpsertTrace(c, t) \in Counters
    BY <1>1, <1>3
  <2>2. RecountLogs(c, t, logs) \in Counters
    BY <1>2, <1>3, <2>1 DEF RecountLogs, Counters
  <2>3. None \notin Counters
    BY RecordsAssumption
  <2> QED
    BY <1>1, <1>3, <2>2, <2>3
<1>4. CASE ~(t \in LoggedTraces(c) /\ UpsertTrace(c, t) # None)
  BY <1>1, <1>4 DEF RecountLogs
<1> QED
  BY <1>3, <1>4

\* The windows of a batch's items are windows.
LEMMA WindowsTyped ==
    ASSUME NEW items \in SUBSET (Spans \union Logs \union Points)
    PROVE  Windows(items) \subseteq Window
  BY RecordsAssumption DEF Windows, Window

\* Two descriptors merge into a descriptor.
LEMMA UpsertDescriptorTyped ==
    ASSUME NEW d \in Descriptor \union {None}, NEW declared \in Descriptor
    PROVE  UpsertDescriptor(d, declared) \in Descriptor
  BY DEF UpsertDescriptor, Descriptor

\* The descriptor a batch declares for one of its metrics.
LEMMA DeclaredTyped ==
    ASSUME NEW c \in Commands, NEW m \in Metrics, NEW w \in Window
    PROVE  [attributeKeys |-> UNION {KeysOf[p] : p \in PointsOfMetric(c, m)},
            firstSeenAt |-> w.firstSeenAt, lastSeenAt |-> w.lastSeenAt] \in Descriptor
<1>1. UNION {KeysOf[p] : p \in PointsOfMetric(c, m)} \subseteq AttributeKeys
  BY RecordsAssumption DEF PointsOfMetric, PointsOf
<1>2. w.firstSeenAt \in Int /\ w.lastSeenAt \in Int
  BY DEF Window
<1> QED
  BY <1>1, <1>2 DEF Descriptor

\* The tables are well typed in every reachable state.
THEOREM RecordsTyped == Spec => []TypeOK
<1>1. Init => TypeOK
  BY DEF Init, TypeOK
<1>2. TypeOK /\ [Next]_vars => TypeOK'
  <2> SUFFICES ASSUME TypeOK, [Next]_vars PROVE TypeOK'
    OBVIOUS
  <2>1. ASSUME NEW c \in Commands, PersistTelemetry(c) PROVE TypeOK'
    <3>1. persisted' \in SUBSET Commands /\ logEvent' \in SUBSET Logs
      BY <2>1 DEF PersistTelemetry, TypeOK, LogsOf
    <3>2. span' \in [SpanIDs -> Spans \union {None}]
      BY <2>1 DEF PersistTelemetry, UpsertSpans, TypeOK, SpansOf
    <3>3. trace' \in [Traces -> Counters \union {None}]
      <4>1. \A t \in Traces : RecountLogs(c, t, logEvent') \in Counters \union {None}
        BY <3>1, RecountTyped
      <4>2. trace' = [t \in Traces |-> RecountLogs(c, t, logEvent')]
        BY <2>1 DEF PersistTelemetry
      <4> QED
        BY <4>1, <4>2
    <3>4. service' \in [Services -> Window \union {None}]
      <4>1. Windows(SpansOf(c) \union LogsOf(c)) \subseteq Window
        BY WindowsTyped DEF SpansOf, LogsOf
      <4> QED
        BY <2>1, <4>1 DEF PersistTelemetry, MergeServices, TypeOK
    <3> QED
      BY <2>1, <3>1, <3>2, <3>3, <3>4 DEF PersistTelemetry, TypeOK
  <2>2. ASSUME NEW c \in Commands, PersistMetrics(c) PROVE TypeOK'
    <3>1. persisted' \in SUBSET Commands
      BY <2>2 DEF PersistMetrics, TypeOK
    <3>2. point' \in [Points -> (SUBSET AttributeKeys) \union {None}]
      BY <2>2 DEF PersistMetrics, UpsertPoints, TypeOK
    <3>3. descriptor' \in [Metrics -> Descriptor \union {None}]
      <4>1. PICK seen \in [MetricsOf(c) -> Windows(PointsOf(c))] :
              descriptor' = [m \in Metrics |->
                IF m \notin MetricsOf(c) THEN descriptor[m] ELSE
                UpsertDescriptor(descriptor[m],
                  [attributeKeys |-> UNION {KeysOf[p] : p \in PointsOfMetric(c, m)},
                   firstSeenAt |-> seen[m].firstSeenAt, lastSeenAt |-> seen[m].lastSeenAt])]
        BY <2>2 DEF PersistMetrics, DescribeMetrics
      <4>2. ASSUME NEW m \in Metrics, m \in MetricsOf(c) PROVE seen[m] \in Window
        BY <4>2, WindowsTyped DEF PointsOf
      <4>3. ASSUME NEW m \in Metrics PROVE descriptor'[m] \in Descriptor \union {None}
        BY <4>1, <4>2, DeclaredTyped, UpsertDescriptorTyped DEF TypeOK
      <4> QED
        BY <4>1, <4>3
    <3> QED
      BY <2>2, <3>1, <3>2, <3>3 DEF PersistMetrics, TypeOK
  <2>3. CASE UNCHANGED vars
    BY <2>3 DEF vars, TypeOK
  <2> QED
    BY <2>1, <2>2, <2>3 DEF Next
<1> QED
  BY <1>1, <1>2, PTL DEF Spec

--------------------------------------------------------------------------------
(* Metric descriptors *)

\* Merging the windows of two sets of points gives the window of their union.
LEMMA WidenedWindow ==
    ASSUME NEW A \in SUBSET Points, NEW B \in SUBSET Points,
           NEW d \in Descriptor, NEW e \in Descriptor,
           Spanning(A, d), Spanning(B, e)
    PROVE  Spanning(A \union B, UpsertDescriptor(d, e))
<1> DEFINE u == UpsertDescriptor(d, e)
<1>1. d # None
  BY RecordsAssumption
<1>2. /\ u.firstSeenAt = IF e.firstSeenAt < d.firstSeenAt THEN e.firstSeenAt ELSE d.firstSeenAt
      /\ u.lastSeenAt = IF e.lastSeenAt > d.lastSeenAt THEN e.lastSeenAt ELSE d.lastSeenAt
  BY <1>1 DEF UpsertDescriptor
<1>3. \A p \in Points : At[p] \in Int
  BY RecordsAssumption
<1>4. /\ d.firstSeenAt \in Int /\ d.lastSeenAt \in Int
      /\ e.firstSeenAt \in Int /\ e.lastSeenAt \in Int
  BY DEF Descriptor
<1>5. \A x \in A \union B : u.firstSeenAt <= At[x] /\ At[x] <= u.lastSeenAt
  BY <1>2, <1>3, <1>4 DEF Spanning
<1>6. (\E x \in A \union B : At[x] = u.firstSeenAt) /\ (\E x \in A \union B : At[x] = u.lastSeenAt)
  BY <1>2, <1>3, <1>4 DEF Spanning
<1> QED
  BY <1>5, <1>6 DEF Spanning

\* The points a metric batch stores, and the keys they keep.
LEMMA PointsAfterMetrics ==
    ASSUME NEW c \in Commands, PersistMetrics(c)
    PROVE  \A p \in Points :
             /\ p \in PointsOf(c) => point'[p] # None /\ point'[p] \subseteq KeysOf[p]
             /\ p \notin PointsOf(c) => point'[p] = point[p]
  BY RecordsAssumption DEF PersistMetrics, UpsertPoints, PointsOf

\* Descriptors aggregate all stored points, in whatever order batches commit.
THEOREM Aggregates == Spec => [](DescriptorsAggregate /\ KeptKeys)
<1>1. Init => DescriptorsAggregate /\ KeptKeys
  BY DEF Init, DescriptorsAggregate, KeptKeys
<1>2. TypeOK /\ DescriptorsAggregate /\ KeptKeys /\ [Next]_vars
        => (DescriptorsAggregate /\ KeptKeys)'
  <2> SUFFICES ASSUME TypeOK, DescriptorsAggregate, KeptKeys, [Next]_vars
               PROVE  (DescriptorsAggregate /\ KeptKeys)'
    OBVIOUS
  <2>1. ASSUME UNCHANGED <<descriptor, point>> PROVE (DescriptorsAggregate /\ KeptKeys)'
    BY <2>1 DEF DescriptorsAggregate, KeptKeys, Spanning
  <2>2. ASSUME NEW c \in Commands, PersistMetrics(c)
        PROVE  (DescriptorsAggregate /\ KeptKeys)'
    <3>1. KeptKeys'
      BY <2>2, PointsAfterMetrics DEF KeptKeys
    <3>2. ASSUME NEW m \in Metrics
          PROVE  LET points == {p \in Points : point'[p] # None /\ MetricOf[p] = m} IN
                 IF points = {}
                   THEN descriptor'[m] = None
                   ELSE /\ descriptor'[m] \in Descriptor
                        /\ descriptor'[m].attributeKeys = UNION {KeysOf[p] : p \in points}
                        /\ Spanning(points, descriptor'[m])
      <4> DEFINE old == {p \in Points : point[p] # None /\ MetricOf[p] = m}
                 new == PointsOfMetric(c, m)
                 all == {p \in Points : point'[p] # None /\ MetricOf[p] = m}
      <4>1. all = old \union new
        BY <2>2, PointsAfterMetrics DEF PointsOfMetric, PointsOf
      <4>2. /\ old = {} => descriptor[m] = None
            /\ old # {} => /\ descriptor[m] \in Descriptor
                           /\ descriptor[m].attributeKeys = UNION {KeysOf[p] : p \in old}
                           /\ Spanning(old, descriptor[m])
        BY DEF DescriptorsAggregate
      <4>3. CASE m \notin MetricsOf(c)
        <5>1. new = {}
          BY <4>3 DEF MetricsOf, PointsOfMetric
        <5>2. descriptor'[m] = descriptor[m]
          BY <2>2, <4>3 DEF PersistMetrics, DescribeMetrics
        <5> QED
          BY <4>1, <4>2, <5>1, <5>2
      <4>4. CASE m \in MetricsOf(c)
        <5>1. PICK w \in Window :
                /\ Spanning(new, w)
                /\ descriptor'[m] = UpsertDescriptor(descriptor[m],
                     [attributeKeys |-> UNION {KeysOf[p] : p \in new},
                      firstSeenAt |-> w.firstSeenAt, lastSeenAt |-> w.lastSeenAt])
          <6>1. PICK seen \in [MetricsOf(c) -> Windows(PointsOf(c))] :
                  /\ \A n \in MetricsOf(c) : Spanning(PointsOfMetric(c, n), seen[n])
                  /\ descriptor' = [n \in Metrics |->
                       IF n \notin MetricsOf(c) THEN descriptor[n] ELSE
                       UpsertDescriptor(descriptor[n],
                         [attributeKeys |-> UNION {KeysOf[p] : p \in PointsOfMetric(c, n)},
                          firstSeenAt |-> seen[n].firstSeenAt, lastSeenAt |-> seen[n].lastSeenAt])]
            BY <2>2 DEF PersistMetrics, DescribeMetrics
          <6>2. seen[m] \in Window
            BY <4>4, <6>1, WindowsTyped DEF PointsOf
          <6> QED
            BY <4>4, <6>1, <6>2
        <5> DEFINE e == [attributeKeys |-> UNION {KeysOf[p] : p \in new},
                         firstSeenAt |-> w.firstSeenAt, lastSeenAt |-> w.lastSeenAt]
        <5>2. e \in Descriptor /\ Spanning(new, e) /\ new # {} /\ new \in SUBSET Points
          <6>1. e \in Descriptor
            BY DeclaredTyped
          <6>2. Spanning(new, e)
            BY <5>1 DEF Spanning
          <6>3. new # {} /\ new \in SUBSET Points
            BY <4>4 DEF MetricsOf, PointsOfMetric, PointsOf
          <6> QED
            BY <6>1, <6>2, <6>3
        <5>3. CASE old = {}
          <6>1. descriptor'[m] = e
            BY <4>2, <5>1, <5>3 DEF UpsertDescriptor
          <6>2. all = new /\ all # {}
            BY <4>1, <5>2, <5>3
          <6>3. e.attributeKeys = UNION {KeysOf[p] : p \in new}
            OBVIOUS
          <6>4. /\ descriptor'[m].attributeKeys = UNION {KeysOf[p] : p \in all}
                /\ Spanning(all, descriptor'[m])
            BY <5>2, <6>1, <6>2, <6>3
          <6> QED
            BY <5>2, <6>1, <6>2, <6>4
        <5>4. CASE old # {}
          <6>1. descriptor[m] # None
            BY <4>2, <5>4, RecordsAssumption
          <6>2. descriptor'[m] \in Descriptor
            BY <4>2, <5>1, <5>2, <5>4, UpsertDescriptorTyped
          <6>3. descriptor'[m].attributeKeys = UNION {KeysOf[p] : p \in all}
            <7>1. descriptor'[m].attributeKeys = descriptor[m].attributeKeys \union e.attributeKeys
              BY <5>1, <6>1 DEF UpsertDescriptor
            <7> QED
              BY <4>1, <4>2, <5>4, <7>1
          <6>4. Spanning(all, descriptor'[m])
            <7>1. descriptor'[m] = UpsertDescriptor(descriptor[m], e)
              BY <5>1
            <7>2. Spanning(old \union new, UpsertDescriptor(descriptor[m], e))
              BY <4>2, <5>2, <5>4, WidenedWindow
            <7> QED
              BY <4>1, <7>1, <7>2
          <6> QED
            BY <4>1, <5>2, <6>2, <6>3, <6>4
        <5> QED
          BY <5>3, <5>4
      <4> QED
        BY <4>3, <4>4
    <3> QED
      BY <3>1, <3>2 DEF DescriptorsAggregate, Spanning
  <2> QED
    BY <2>1, <2>2 DEF Next, PersistTelemetry, vars
<1> QED
  BY <1>1, <1>2, RecordsTyped, PTL DEF Spec

\* No stored point is outside the window or has a key its descriptor lacks.
THEOREM Discoverable == Spec => []PointsDiscoverable
<1>1. DescriptorsAggregate /\ KeptKeys => PointsDiscoverable
  <2> SUFFICES ASSUME DescriptorsAggregate, KeptKeys,
                      NEW p \in Points, point[p] # None
               PROVE  LET d == descriptor[MetricOf[p]] IN
                      /\ d # None /\ point[p] \subseteq d.attributeKeys
                      /\ d.firstSeenAt <= At[p] /\ At[p] <= d.lastSeenAt
    BY DEF PointsDiscoverable
  <2> DEFINE m == MetricOf[p]
             points == {q \in Points : point[q] # None /\ MetricOf[q] = m}
  <2>1. m \in Metrics /\ p \in points
    BY RecordsAssumption
  <2>2. /\ descriptor[m] \in Descriptor
        /\ descriptor[m].attributeKeys = UNION {KeysOf[q] : q \in points}
        /\ Spanning(points, descriptor[m])
    BY <2>1 DEF DescriptorsAggregate
  <2>3. descriptor[m] # None
    BY <2>2, RecordsAssumption
  <2>4. point[p] \subseteq KeysOf[p]
    BY DEF KeptKeys
  <2> QED
    BY <2>1, <2>2, <2>3, <2>4 DEF Spanning
<1> QED
  BY <1>1, Aggregates, PTL

\* A committed batch leaves a record for every trace and service it names, and
\* removes none.
LEMMA RecordsKept ==
    ASSUME TypeOK, NEW c \in Commands, PersistTelemetry(c)
    PROVE  /\ \A t \in Traces : t \in TracesOf(c) \/ trace[t] # None => trace'[t] # None
           /\ \A v \in Services : v \in ServicesOf(c) \/ service[v] # None => service'[v] # None
<1>1. ASSUME NEW t \in Traces, t \in TracesOf(c) \/ trace[t] # None
      PROVE  trace'[t] # None
  <2>1. UpsertTrace(c, t) # None
    <3>1. TraceRecord(c, t) # None
      BY TraceRecordTyped, RecordsAssumption
    <3> QED
      BY <1>1, <3>1 DEF UpsertTrace
  <2>2. logEvent' \in SUBSET Logs
    BY DEF PersistTelemetry, LogsOf, TypeOK
  <2>3. RecountLogs(c, t, logEvent') # None
    BY <2>1, <2>2, RecountTyped
  <2> QED
    BY <2>3 DEF PersistTelemetry
<1>2. ASSUME NEW v \in Services, v \in ServicesOf(c) \/ service[v] # None
      PROVE  service'[v] # None
  <2>1. PICK seen \in [ServicesOf(c) -> Windows(SpansOf(c) \union LogsOf(c))] :
          service' = [u \in Services |-> IF u \in ServicesOf(c) THEN seen[u] ELSE service[u]]
    BY DEF PersistTelemetry, MergeServices
  <2>2. CASE v \in ServicesOf(c)
    <3>1. seen[v] \in Window
      BY <2>1, <2>2, WindowsTyped DEF SpansOf, LogsOf
    <3> QED
      BY <2>1, <2>2, <3>1, RecordsAssumption
  <2>3. CASE v \notin ServicesOf(c)
    BY <1>2, <2>1, <2>3
  <2> QED
    BY <2>2, <2>3
<1> QED
  BY <1>1, <1>2

\* A stored span resolves to its trace and service, a stored log to its service,
\* whichever batches committed and in whatever order.
THEOREM Resolvable == Spec => []ReferencesResolve
<1>1. Init => ReferencesResolve
  BY DEF Init, ReferencesResolve
<1>2. TypeOK /\ ReferencesResolve /\ [Next]_vars => ReferencesResolve'
  <2> SUFFICES ASSUME TypeOK, ReferencesResolve, [Next]_vars PROVE ReferencesResolve'
    OBVIOUS
  <2>1. ASSUME NEW c \in Commands, PersistTelemetry(c) PROVE ReferencesResolve'
    <3>1. ASSUME NEW i \in SpanIDs, span'[i] # None
          PROVE  trace'[TraceOf[span'[i]]] # None /\ service'[ServiceOf[span'[i]]] # None
      <4>1. PICK last \in [{SpanID[s] : s \in SpansOf(c)} -> SpansOf(c)] :
              span' = [j \in SpanIDs |-> IF j \in DOMAIN last THEN last[j] ELSE span[j]]
        BY <2>1 DEF PersistTelemetry, UpsertSpans
      <4>2. CASE i \in DOMAIN last
        <5>1. span'[i] \in SpansOf(c)
          BY <4>1, <4>2
        <5>2. /\ TraceOf[span'[i]] \in TracesOf(c) /\ TraceOf[span'[i]] \in Traces
              /\ ServiceOf[span'[i]] \in ServicesOf(c) /\ ServiceOf[span'[i]] \in Services
          BY <5>1, RecordsAssumption DEF TracesOf, ServicesOf, SpansOf
        <5> QED
          BY <2>1, <5>2, RecordsKept
      <4>3. CASE i \notin DOMAIN last
        <5>1. span'[i] = span[i] /\ span[i] \in Spans
          BY <3>1, <4>1, <4>3 DEF TypeOK
        <5>2. TraceOf[span[i]] \in Traces /\ ServiceOf[span[i]] \in Services
          BY <5>1, RecordsAssumption
        <5>3. trace[TraceOf[span[i]]] # None /\ service[ServiceOf[span[i]]] # None
          BY <3>1, <5>1 DEF ReferencesResolve
        <5> QED
          BY <2>1, <5>1, <5>2, <5>3, RecordsKept
      <4> QED
        BY <4>2, <4>3
    <3>2. ASSUME NEW l \in Logs, l \in logEvent' PROVE service'[ServiceOf[l]] # None
      <4>1. ServiceOf[l] \in Services
        BY RecordsAssumption
      <4>2. l \in LogsOf(c) \/ l \in logEvent
        BY <2>1, <3>2 DEF PersistTelemetry
      <4>3. ServiceOf[l] \in ServicesOf(c) \/ service[ServiceOf[l]] # None
        BY <4>2 DEF ReferencesResolve, ServicesOf
      <4> QED
        BY <2>1, <4>1, <4>3, RecordsKept
    <3>3. logEvent' \in SUBSET Logs
      BY <2>1 DEF PersistTelemetry, LogsOf, TypeOK
    <3> QED
      BY <3>1, <3>2, <3>3 DEF ReferencesResolve
  <2>2. ASSUME NEW c \in Commands, PersistMetrics(c) PROVE ReferencesResolve'
    BY <2>2 DEF PersistMetrics, ReferencesResolve
  <2>3. CASE UNCHANGED vars
    BY <2>3 DEF vars, ReferencesResolve
  <2> QED
    BY <2>1, <2>2, <2>3 DEF Next
<1> QED
  BY <1>1, <1>2, RecordsTyped, PTL DEF Spec

DistinctSpanIDs == \A s, r \in Spans : SpanID[s] = SpanID[r] => s = r

\* What is accepted after a commit.
LEMMA AcceptedAfter ==
    ASSUME TypeOK, NEW c \in Commands, persisted' = persisted \union {c}
    PROVE  Accepted' = Accepted \union Carries[c]
    BY DEF Accepted, TypeOK

\* When exporters never reuse a span id, every span, log event and point of a committed
\* command is in its table, whatever batches BuildPersistQuery and
\* BuildMetricsPersistQuery commit, and nothing else is.
THEOREM Stored ==
    ASSUME DistinctSpanIDs
    PROVE  Spec => []AcceptedItemsStored
<1>1. Init => AcceptedItemsStored
  <2> SUFFICES ASSUME Init PROVE AcceptedItemsStored
    OBVIOUS
  <2>1. Accepted = {}
    BY DEF Init, Accepted
  <2>2. \A s \in Spans : SpanID[s] \in SpanIDs /\ s # None
    BY RecordsAssumption DEF SpanIDs
  <2> QED
    BY <2>1, <2>2 DEF Init, AcceptedItemsStored
<1>2. TypeOK /\ AcceptedItemsStored /\ [Next]_vars => AcceptedItemsStored'
  <2> SUFFICES ASSUME TypeOK, AcceptedItemsStored, [Next]_vars PROVE AcceptedItemsStored'
    OBVIOUS
  <2>1. ASSUME NEW c \in Commands, PersistTelemetry(c) PROVE AcceptedItemsStored'
    <3>1. /\ Accepted' = Accepted \union Carries[c] /\ PointsOf(c) = {}
          /\ logEvent' = logEvent \union LogsOf(c) /\ UNCHANGED point
      BY <2>1, AcceptedAfter DEF PersistTelemetry
    <3>2. ASSUME NEW s \in Spans
          PROVE  s \in Accepted' <=> span'[SpanID[s]] = s
      <4>1. PICK last \in [{SpanID[r] : r \in SpansOf(c)} -> SpansOf(c)] :
              /\ \A i \in DOMAIN last : SpanID[last[i]] = i
              /\ span' = [j \in SpanIDs |-> IF j \in DOMAIN last THEN last[j] ELSE span[j]]
        BY <2>1 DEF PersistTelemetry, UpsertSpans
      <4>2. SpanID[s] \in SpanIDs /\ (s \in Accepted <=> span[SpanID[s]] = s)
        BY DEF SpanIDs, AcceptedItemsStored
      <4>3. s \in Accepted' <=> s \in Accepted \/ s \in SpansOf(c)
        BY <3>1 DEF SpansOf
      <4>4. CASE SpanID[s] \in DOMAIN last
        <5>1. last[SpanID[s]] \in SpansOf(c) /\ SpanID[last[SpanID[s]]] = SpanID[s]
          BY <4>1, <4>4
        <5>2. last[SpanID[s]] = s
          BY <5>1 DEF DistinctSpanIDs, SpansOf
        <5> QED
          BY <4>1, <4>2, <4>3, <4>4, <5>1, <5>2
      <4>5. CASE SpanID[s] \notin DOMAIN last
        BY <4>1, <4>2, <4>3, <4>5
      <4> QED
        BY <4>4, <4>5
    <3>3. ASSUME NEW l \in Logs
          PROVE  l \in Accepted' <=> l \in logEvent'
      BY <3>1 DEF LogsOf, AcceptedItemsStored
    <3>4. ASSUME NEW p \in Points
          PROVE  p \in Accepted' <=> point'[p] # None
      BY <3>1 DEF PointsOf, AcceptedItemsStored
    <3> QED
      BY <3>2, <3>3, <3>4 DEF AcceptedItemsStored
  <2>2. ASSUME NEW c \in Commands, PersistMetrics(c) PROVE AcceptedItemsStored'
    <3>1. /\ Accepted' = Accepted \union PointsOf(c) /\ PointsOf(c) \subseteq Points
          /\ UNCHANGED <<span, logEvent>>
      BY <2>2, AcceptedAfter DEF PersistMetrics, PointsOf
    <3>2. \A x \in Spans \union Logs : x \in Accepted' <=> x \in Accepted
      BY <3>1, RecordsAssumption
    <3>3. ASSUME NEW p \in Points
          PROVE  p \in Accepted' <=> point'[p] # None
      <4>1. PICK kept \in [PointsOf(c) -> SUBSET (AttributeKeys \ ReservedKeys)] :
              point' = [q \in Points |-> IF q \in PointsOf(c) THEN kept[q] ELSE point[q]]
        BY <2>2 DEF PersistMetrics, UpsertPoints
      <4>2. p \in Accepted <=> point[p] # None
        BY DEF AcceptedItemsStored
      <4>3. CASE p \in PointsOf(c)
        <5>1. point'[p] \in SUBSET AttributeKeys
          BY <4>1, <4>3
        <5> QED
          BY <3>1, <4>3, <5>1, RecordsAssumption
      <4>4. CASE p \notin PointsOf(c)
        BY <3>1, <4>1, <4>2, <4>4
      <4> QED
        BY <4>3, <4>4
    <3> QED
      BY <3>1, <3>2, <3>3 DEF AcceptedItemsStored
  <2>3. CASE UNCHANGED vars
    BY <2>3 DEF vars, AcceptedItemsStored, Accepted
  <2> QED
    BY <2>1, <2>2, <2>3 DEF Next
<1> QED
  BY <1>1, <1>2, RecordsTyped, PTL DEF Spec
================================================================================
