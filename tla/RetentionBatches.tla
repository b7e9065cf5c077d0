---------------------------- MODULE RetentionBatches ----------------------------
(***************************************************************************)
(* Retention in core/storage-maintenance: the scheduler of each replica    *)
(* goes through the data classes, takes a lease for each and executes a    *)
(* batch, which deletes or marks what the policy of the project no longer  *)
(* keeps; a batch may also be requested over NATS, without a lease.        *)
(* Meanwhile control-plane replaces the policy and storage-write stores    *)
(* telemetry.                                                              *)
(*                                                                         *)
(* A batch is one query text whose statements are transactions of their    *)
(* own, so that stores and the batches of other replicas come in between.  *)
(*                                                                         *)
(* Two data classes stand for the eight: TRACES, the only one with         *)
(* dependent tables, and LOGS, whose table is one of those; the statements *)
(* of LOGS are those of each table of the others.  Leases, batches and     *)
(* retention share one clock.  Dry runs, which write nothing, and audits,  *)
(* which nothing reads, are left out.                                      *)
(***************************************************************************)
EXTENDS Integers, FiniteSets

CONSTANTS
  Replicas,   \* of storage-maintenance
  Traces,
  Logs,
  TraceOf,    \* the trace of each log event, or NoTrace
  LogTime,    \* the timestamp of each log event
  NoTrace,
  Policies,   \* the rule sets an admin may choose
  Ends,       \* the ends a trace may have
  MaxBusy,    \* bounds the workers at work at one time
  LeaseTime,  \* RetentionScheduler.LeaseDuration
  Limit,      \* RetentionScheduler.BatchLimit
  MaxTime     \* bounds the clock

Classes == {"TRACES", "LOGS"}
Rule == [mode: {"retain", "delete", "soft"}, days: Nat, grace: Nat]
NoRule == [mode |-> "missing", days |-> 0, grace |-> 0]

ASSUME RetentionAssumption ==
  /\ TraceOf \in [Logs -> Traces \cup {NoTrace}]
  /\ LogTime \in [Logs -> Int]
  /\ Traces \cap Logs = {} /\ NoTrace \notin Traces
  /\ IsFiniteSet(Traces) /\ IsFiniteSet(Logs)
  /\ Policies \subseteq [Classes -> Rule]
  /\ Ends \subseteq Int /\ MaxBusy \in Nat
  /\ LeaseTime \in Nat \ {0} /\ Limit \in Nat \ {0} /\ MaxTime \in Nat

\* Each replica has a scheduler and a callback for requested batches.
Workers == Replicas \X {"scheduler", "callback"}
Schedulers == Replicas \X {"scheduler"}

Rows == Traces \cup Logs
Table(c) == IF c = "TRACES" THEN Traces ELSE Logs
\* A row: the time retention goes by, and finalDeleteAfter if it is marked
NotMarked == -1
Gone == -2
Absent == [time |-> 0, final |-> Gone]
Row == [time: Int, final: Nat \cup {NotMarked, Gone}]
Stored(time) == [time |-> time, final |-> NotMarked]

Statements == {"final", "select", "spans", "logs", "delete", "mark"}
Batch == {"policy", "complete"} \cup Statements
Steps == {"idle", "lease"} \cup Batch
Work == [step: Steps, class: Classes, requestedAt: Nat,
         rule: Rule \cup {NoRule}, roots: SUBSET Rows]
Idle == [step |-> "idle", class |-> "TRACES", requestedAt |-> 0, rule |-> NoRule, roots |-> {}]

VARIABLES
  now,
  policy,   \* retention_policy of the project: the rule of each data class
  lease,    \* retention_lease: when the lease of each class expires, 0 if there is no row
  rows,     \* trace and log_event
  spans,    \* the traces that have rows in span
  work,     \* what each worker is doing
  past      \* the rules each class has had (history)

vars == <<now, policy, lease, rows, spans, work, past>>
data == <<rows, spans>>

-----------------------------------------------------------------------------

Init ==
  /\ now = 0
  /\ policy = [c \in Classes |-> NoRule]
  /\ lease = [c \in Classes |-> 0]
  /\ rows = [r \in Rows |-> Absent]
  /\ spans = {}
  /\ work = [w \in Workers |-> Idle]
  /\ past = [c \in Classes |-> {}]

Advance ==
  /\ now < MaxTime
  /\ now' = now + 1
  /\ UNCHANGED <<policy, lease, data, work, past>>

\* control-plane replaces the complete rule set.
UpdateRetentionPolicy ==
  /\ policy' \in Policies
  /\ past' = [c \in Classes |-> past[c] \cup {policy'[c]}]
  /\ UNCHANGED <<now, lease, data, work>>

\* A span batch replaces the record of its trace, with the end it has seen.
PersistSpans(t) ==
  /\ \E end \in Ends : end <= now /\ rows' = [rows EXCEPT ![t] = Stored(end)]
  /\ spans' = spans \cup {t}
  /\ UNCHANGED <<now, policy, lease, work, past>>

PersistLog(l) ==
  /\ LogTime[l] <= now
  /\ rows' = [rows EXCEPT ![l] = Stored(LogTime[l])]
  /\ UNCHANGED <<now, policy, lease, spans, work, past>>

-----------------------------------------------------------------------------
\* Scheduler.Tick and RuntimeService.handleExecuteBatch

\* A replica has one client, locked for a query text.
ClientIsFree(w) ==
  \A other \in Workers \ {w} : other[1] = w[1] => work[other].step \notin Statements

At(w, step) ==
  /\ work[w].step = step
  /\ step \notin {"idle"} \cup Statements => ClientIsFree(w)

Busy == {w \in Workers : work[w].step # "idle"}

Goto(w, step) ==
  work' = [work EXCEPT ![w] =
    IF step = "complete" THEN [@ EXCEPT !.step = step, !.rule = NoRule, !.roots = {}]
    ELSE [@ EXCEPT !.step = step]]

\* The time of the tick is read once, for all classes.
Tick(w) ==
  /\ w \in Schedulers
  /\ At(w, "idle")
  /\ Cardinality(Busy) < MaxBusy
  /\ work' = [work EXCEPT ![w] = [Idle EXCEPT !.step = "lease", !.requestedAt = now]]
  /\ UNCHANGED <<now, policy, lease, data, past>>

\* A requested batch is executed by every replica the request reaches.  Its time is the
\* requester's, of which the executor checks only that there is one; nothing in the
\* repository sends the request, so it is the time at which it is sent.
ExecuteBatch(reached, c) ==
  /\ \A w \in reached : At(w, "idle")
  /\ Cardinality(Busy \cup reached) <= MaxBusy
  /\ work' = [w \in Workers |->
       IF w \in reached
       THEN [Idle EXCEPT !.step = "policy", !.class = c, !.requestedAt = now]
       ELSE work[w]]
  /\ UNCHANGED <<now, policy, lease, data, past>>

\* What follows a class that is done with, in the order of RetentionDataClasses
NextClass(w) ==
  work' = [work EXCEPT ![w] =
    IF w \in Schedulers /\ @.class = "TRACES"
    THEN [@ EXCEPT !.step = "lease", !.class = "LOGS"]
    ELSE Idle]

\* Mutant: the expiry is compared with the clock.
ExpiredNow(w) == lease[work[w].class] <= now

\* expiresAt <= acquiredAt, which is the time of the tick and not of the clock
Expired(w) == lease[work[w].class] <= work[w].requestedAt

\* AcquireRetentionLease
Acquire(w) ==
  /\ At(w, "lease")
  /\ IF Expired(w)
     THEN /\ lease' = [lease EXCEPT ![work[w].class] = work[w].requestedAt + LeaseTime]
          /\ Goto(w, "policy")
     ELSE NextClass(w) /\ UNCHANGED lease
  /\ UNCHANGED <<now, policy, data, past>>

\* CompleteRetentionLease leaves the expiry as it is.
Complete(w) ==
  /\ At(w, "complete")
  /\ NextClass(w)
  /\ UNCHANGED <<now, policy, lease, data, past>>

\* An error from the lease store ends the tick.
LeaseError(w) ==
  /\ w \in Schedulers
  /\ At(w, "lease") \/ At(w, "complete")
  /\ work' = [work EXCEPT ![w] = Idle]
  /\ UNCHANGED <<now, policy, lease, data, past>>

\* The process of a replica dies, and with it both its workers.
Crash(r) ==
  /\ \E w \in Workers : w[1] = r /\ work[w].step # "idle"
  /\ work' = [w \in Workers |-> IF w[1] = r THEN Idle ELSE work[w]]
  /\ UNCHANGED <<now, policy, lease, data, past>>

-----------------------------------------------------------------------------
\* Executor.ExecuteBatch

\* The rule is read once, and the statements are built from it.  Reading the policy and
\* the target of the project, and taking the client's lock, are one step: what others do
\* in between they may as well do before it or after it.
Plan(w) ==
  /\ At(w, "policy")
  /\ LET rule == policy[work[w].class]
     IN  IF rule.mode \in {"delete", "soft"}
         THEN work' = [work EXCEPT ![w].rule = rule,
                         ![w].step = IF rule.mode = "soft" THEN "final" ELSE "select"]
         ELSE Goto(w, "complete")
  /\ UNCHANGED <<now, policy, lease, data, past>>

\* The policy or the target cannot be read, or the connection is lost.
BatchError(w) ==
  /\ At(w, "policy") \/ work[w].step \in Statements
  /\ Goto(w, "complete")
  /\ UNCHANGED <<now, policy, lease, data, past>>

After(w) ==
  LET soft == work[w].rule.mode = "soft"
      traces == work[w].class = "TRACES"
  IN  CASE work[w].step = "final" -> "select"
        [] work[w].step = "select" ->
             IF soft THEN "mark" ELSE IF traces THEN "spans" ELSE "delete"
        [] work[w].step = "spans" -> "logs"
        [] work[w].step = "logs" -> "delete"
        [] OTHER -> "complete"

\* A statement that fails by itself does not keep the next from running.
StatementError(w) ==
  /\ work[w].step \in Statements
  /\ Goto(w, After(w))
  /\ UNCHANGED <<now, policy, lease, data, past>>

\* DELETE a set of rows
Without(gone) == [r \in Rows |-> IF r \in gone THEN Absent ELSE rows[r]]

Older(w, r) ==
  rows[r] # Absent /\ rows[r].time + work[w].rule.days < work[w].requestedAt

\* DELETE .. WHERE deletedAt != NONE AND finalDeleteAfter <= $requestedAt
FinalDelete(w) ==
  /\ At(w, "final")
  /\ rows' = Without({r \in Table(work[w].class) :
                        rows[r].final >= 0 /\ rows[r].final <= work[w].requestedAt})
  /\ Goto(w, After(w))
  /\ UNCHANGED <<now, policy, lease, spans, past>>

\* LET $root = SELECT .. WHERE deletedAt = NONE AND .. < $cutoff ORDER BY .. LIMIT
Select(w) ==
  /\ At(w, "select")
  /\ LET eligible == {r \in Table(work[w].class) : Older(w, r) /\ rows[r].final = NotMarked}
     IN  \E roots \in SUBSET eligible :
           /\ Cardinality(roots) <= Limit
           /\ roots # eligible => Cardinality(roots) = Limit
           /\ \A r \in roots, s \in eligible \ roots : rows[r].time <= rows[s].time
           /\ work' = [work EXCEPT ![w].step = After(w), ![w].roots = roots]
  /\ UNCHANGED <<now, policy, lease, data, past>>

\* DELETE span WHERE traceId IN $root
DeleteSpans(w) ==
  /\ At(w, "spans")
  /\ spans' = spans \ work[w].roots
  /\ Goto(w, After(w))
  /\ UNCHANGED <<now, policy, lease, rows, past>>

\* Mutant: the logs of a trace go with it.
AnyLog(w) == {l \in Logs : rows[l] # Absent /\ TraceOf[l] \in work[w].roots}

\* WHERE traceId IN $root AND timestamp < $cutoff
DependentLogs(w) == {l \in Logs : Older(w, l) /\ TraceOf[l] \in work[w].roots}

DeleteLogs(w) ==
  /\ At(w, "logs")
  /\ rows' = Without(DependentLogs(w))
  /\ Goto(w, After(w))
  /\ UNCHANGED <<now, policy, lease, spans, past>>

DeleteRoots(w) ==
  /\ At(w, "delete")
  /\ rows' = Without(work[w].roots)
  /\ Goto(w, After(w))
  /\ UNCHANGED <<now, policy, lease, spans, past>>

\* UPDATE .. SET deletedAt, finalDeleteAfter WHERE .. IN $root
MarkRoots(w) ==
  /\ At(w, "mark")
  /\ LET final == work[w].requestedAt + work[w].rule.grace
     IN  rows' = [r \in Rows |-> IF r \in work[w].roots /\ rows[r] # Absent
                                 THEN [rows[r] EXCEPT !.final = final] ELSE rows[r]]
  /\ Goto(w, After(w))
  /\ UNCHANGED <<now, policy, lease, spans, past>>

-----------------------------------------------------------------------------

Next ==
  \/ Advance
  \/ UpdateRetentionPolicy
  \/ \E t \in Traces : PersistSpans(t)
  \/ \E l \in Logs : PersistLog(l)
  \/ \E reached \in (SUBSET (Workers \ Schedulers)) \ {{}}, c \in Classes : ExecuteBatch(reached, c)
  \/ \E r \in Replicas : Crash(r)
  \/ \E w \in Workers :
       \/ Tick(w) \/ Acquire(w) \/ Complete(w) \/ LeaseError(w)
       \/ Plan(w) \/ BatchError(w) \/ StatementError(w)
       \/ FinalDelete(w) \/ Select(w) \/ MarkRoots(w)
       \/ DeleteSpans(w) \/ DeleteLogs(w) \/ DeleteRoots(w)

Spec == Init /\ [][Next]_vars

-----------------------------------------------------------------------------

TypeOK ==
  /\ now \in 0..MaxTime
  /\ policy \in Policies \cup {[c \in Classes |-> NoRule]}
  /\ lease \in [Classes -> Nat]
  /\ rows \in [Rows -> Row]
  /\ spans \subseteq Traces
  /\ work \in [Workers -> Work]
  /\ \A w \in Workers :
       /\ work[w].requestedAt <= now
       /\ work[w].roots \subseteq Table(work[w].class)
  /\ past \in [Classes -> SUBSET Rule]

\* The batch of a class a worker is executing
Executes(w, c) == work[w].step \in Batch /\ work[w].class = c

Apart(w, v) == work[w].requestedAt + LeaseTime <= work[v].requestedAt

\* Schedulers of two replicas execute batches of one class at once only when their
\* ticks are a lease apart, however late each took its lease and however long its
\* batches run.
OverlapOnlyAfterExpiry ==
  \A c \in Classes : \A w, v \in Schedulers :
    w # v /\ Executes(w, c) /\ Executes(v, c) => Apart(w, v) \/ Apart(v, w)

Visible(r) == rows[r].final = NotMarked

\* A rule the class has had under which something of that time may go
Allows(c, time) ==
  \E rule \in past[c] : rule.mode # "retain" /\ time + rule.days < now

\* A log event is taken from view only when it is older than a rule of the project
\* has said for LOGS, or, if it is of a trace, for TRACES: the event of a trace that
\* goes is not taken with it before its own time, whatever is stored or changed in
\* the policy while the statements of the batch run.
LogsKept ==
  [][\A l \in Logs : Visible(l) /\ ~Visible(l)' =>
       \/ Allows("LOGS", LogTime[l])
       \/ TraceOf[l] # NoTrace /\ Allows("TRACES", LogTime[l])]_vars

\* "Only one storage-maintenance replica may execute a project/data-class batch while
\* the lease is valid" (specs/04-backend/data-retention-policy.md:132).  It fails: a
\* batch that outlasts its lease goes on while another replica holds the next one.
OneReplicaPerLease ==
  \A c \in Classes : \A w, v \in Schedulers :
    now < lease[c] /\ Executes(w, c) /\ Executes(v, c) => w = v

\* "Hard delete removes eligible records immediately in dependency order so no
\* orphaned spans [...] remain" (specs/04-backend/data-retention-policy.md:76).  It
\* fails: spans that are stored between the statements of a batch stay without trace.
NoOrphanedSpans ==
  Busy = {} => \A t \in spans : rows[t] # Absent
================================================================================
