SPECIFICATION Spec
CONSTANTS
  trace = trace
  logOfTrace = logOfTrace
  log = log
  Replicas = {r1}
  Traces = {trace}
  Logs = {logOfTrace, log}
  TraceOf <- MCTraceOf
  LogTime <- MCLogTime
  NoTrace = NoTrace
  Policies <- HardPolicy
  Ends <- MCEnds
  MaxBusy = 2
  LeaseTime = 1
  Limit = 1
  MaxTime = 2
SYMMETRY AnyReplica
INVARIANTS
  NoOrphanedSpans
