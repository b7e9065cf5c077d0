SPECIFICATION Spec
CONSTANTS
  trace = trace
  logOfTrace = logOfTrace
  log = log
  Replicas = {r1, r2}
  Traces = {trace}
  Logs = {logOfTrace, log}
  TraceOf <- MCTraceOf
  LogTime <- MCLogTime
  NoTrace = NoTrace
  Policies <- AllPolicies
  Ends <- MCEnds
  MaxBusy = 2
  LeaseTime = 1
  Limit = 1
  MaxTime = 2
SYMMETRY AnyReplica
INVARIANT
  OverlapOnlyAfterExpiry
PROPERTY
  LogsKept
