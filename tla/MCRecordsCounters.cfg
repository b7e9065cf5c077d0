SPECIFICATION Spec
CONSTANTS
    t1 = t1  t2 = t2  v1 = v1  v2 = v2  s1 = s1  s2 = s2  s3 = s3
    l1 = l1  l2 = l2  p1 = p1  p2 = p2  p3 = p3  i1 = i1  i2 = i2  i3 = i3
    k1 = k1  k2 = k2  k3 = k3  m1 = m1  m2 = m2
    spansA = spansA  spansB = spansB  spansRetry = spansRetry  spansOther = spansOther
    logsA = logsA  logsRetry = logsRetry
    pointsA = pointsA  pointsB = pointsB  pointsRetry = pointsRetry
    NoTrace = NoTrace  None = None
    Commands = {spansA, spansB, spansRetry, spansOther, logsA, logsRetry, pointsA, pointsB, pointsRetry}
    Carries <- MCCarries
    Spans = {s1, s2, s3}
    Logs = {l1, l2}
    Points = {p1, p2, p3}
    Traces = {t1, t2}
    Services = {v1, v2}
    Metrics = {m1, m2}
    AttributeKeys = {k1, k2, k3}
    SpanID <- DistinctIDs
    TraceOf <- MCTraceOf
    ServiceOf <- MCServiceOf
    ErrorSpans = {s2}
    MetricOf <- MCMetricOf
    KeysOf <- MCKeysOf
    ReservedKeys = {k3}
    At <- MCAt
INVARIANTS CountersMatchTables
CHECK_DEADLOCK FALSE
