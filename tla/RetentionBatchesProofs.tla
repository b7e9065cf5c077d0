------------------------- MODULE RetentionBatchesProofs -------------------------
(***************************************************************************)
(* Proofs about RetentionBatches, for any number of replicas, traces and   *)
(* log events, any policies and any bounds.                                *)
(***************************************************************************)
EXTENDS RetentionBatches, TLAPS

-----------------------------------------------------------------------------
\* What a worker's step does to the workers, whatever its guard.

LEMMA IdleType == NoRule \in Rule \cup {NoRule} /\ Idle \in Work
  BY DEF Idle, Work, Steps, Classes

\* Outside the statements of a batch there are no roots.
NoRootsYet == \A w \in Workers : work[w].step \notin Statements => work[w].roots = {}

TypeInv == TypeOK /\ NoRootsYet

\* The part of it about the workers
WorkInv ==
  /\ work \in [Workers -> Work]
  /\ \A w \in Workers : work[w].requestedAt <= now /\ work[w].roots \subseteq Table(work[w].class)
  /\ NoRootsYet

\* The steps of a worker: only it moves, within its request.
LEMMA GotoType ==
  ASSUME TypeInv, NEW w \in Workers, NEW step \in Steps, Goto(w, step),
         step \in Statements \/ step = "complete" \/ work[w].roots = {}
  PROVE  /\ work' \in [Workers -> Work]
         /\ NoRootsYet'
         /\ \A v \in Workers \ {w} : work'[v] = work[v]
         /\ work'[w].step = step
         /\ work'[w].requestedAt = work[w].requestedAt
         /\ work'[w].class = work[w].class
         /\ work'[w].roots \subseteq work[w].roots
         /\ step # "complete" => work'[w].rule = work[w].rule
<1> DEFINE n == IF step = "complete"
                THEN [work[w] EXCEPT !.step = step, !.rule = NoRule, !.roots = {}]
                ELSE [work[w] EXCEPT !.step = step]
<1>1. work[w] \in Work
  BY DEF TypeInv, TypeOK
<1>2. /\ n \in Work /\ n.requestedAt = work[w].requestedAt /\ n.class = work[w].class
      /\ n.roots \subseteq work[w].roots /\ n.step = step
      /\ step = "complete" => n.roots = {}
      /\ step # "complete" => n.rule = work[w].rule
  BY <1>1 DEF Work
<1>3. work' = [work EXCEPT ![w] = n]
  BY DEF Goto
<1>4. work' \in [Workers -> Work] /\ work'[w] = n /\ \A v \in Workers \ {w} : work'[v] = work[v]
  BY <1>2, <1>3 DEF TypeInv, TypeOK
<1>5. NoRootsYet'
  BY <1>2, <1>4 DEF TypeInv, NoRootsYet
<1> QED
  BY <1>2, <1>4, <1>5

LEMMA AfterIsStep ==
  ASSUME NEW w
  PROVE  After(w) \in {"complete", "select", "mark", "spans", "delete", "logs"}
  BY DEF After

LEMMA GotoKeeps ==
  ASSUME TypeInv, NEW w \in Workers, NEW step \in Steps, Goto(w, step),
         step \in Statements \/ step = "complete" \/ work[w].roots = {}, now' = now
  PROVE  WorkInv'
<1>1. \A v \in Workers : /\ work'[v].requestedAt = work[v].requestedAt
                         /\ work'[v].class = work[v].class
                         /\ work'[v].roots \subseteq work[v].roots
  BY GotoType
<1>2. \A v \in Workers : work[v].requestedAt <= now /\ work[v].roots \subseteq Table(work[v].class)
  BY DEF TypeInv, TypeOK
<1>3. \A v \in Workers : work'[v].requestedAt <= now /\ work'[v].roots \subseteq Table(work'[v].class)
  BY <1>1, <1>2
<1> QED
  BY <1>3, GotoType DEF WorkInv, Table

LEMMA AfterKeeps ==
  ASSUME TypeInv, NEW w \in Workers, Goto(w, After(w)), now' = now
  PROVE  WorkInv'
<1>1. After(w) \in Steps /\ (After(w) \in Statements \/ After(w) = "complete")
  BY AfterIsStep DEF Steps, Batch, Statements
<1> QED
  BY <1>1, GotoKeeps

LEMMA NextClassType ==
  ASSUME TypeInv, NEW w \in Workers, NextClass(w), work[w].roots = {}
  PROVE  /\ work' \in [Workers -> Work]
         /\ \A v \in Workers \ {w} : work'[v] = work[v]
         /\ work'[w].step \in {"idle", "lease"}
         /\ work'[w].roots = {}
         /\ work'[w].requestedAt \in {0, work[w].requestedAt}
<1> DEFINE n == IF w \in Schedulers /\ work[w].class = "TRACES"
                THEN [work[w] EXCEPT !.step = "lease", !.class = "LOGS"]
                ELSE Idle
<1>1. work[w] \in Work
  BY DEF TypeInv, TypeOK
<1>2. /\ n \in Work /\ n.step \in {"idle", "lease"} /\ n.roots = {}
      /\ n.requestedAt \in {0, work[w].requestedAt}
  <2>1. Idle.step = "idle" /\ Idle.roots = {} /\ Idle.requestedAt = 0
    BY DEF Idle
  <2> QED
    BY <1>1, <2>1, IdleType DEF Work, Steps, Classes
<1>3. work' = [work EXCEPT ![w] = n]
  BY DEF NextClass
<1> QED
  BY <1>2, <1>3 DEF TypeInv, TypeOK

LEMMA NextClassKeeps ==
  ASSUME TypeInv, NEW w \in Workers, NextClass(w), work[w].roots = {}, now' = now
  PROVE  WorkInv'
<1>1. \A v \in Workers : work[v].requestedAt <= now /\ work[v].roots \subseteq Table(work[v].class)
  BY DEF TypeInv, TypeOK
<1>2. 0 <= now /\ now \in Int
  BY DEF TypeInv, TypeOK
<1>3. \A v \in Workers : work'[v].requestedAt <= now /\ work'[v].roots \subseteq Table(work'[v].class)
  BY <1>1, <1>2, NextClassType
<1>4. NoRootsYet'
  BY NextClassType DEF NoRootsYet, TypeInv
<1> QED
  BY <1>3, <1>4, NextClassType DEF WorkInv, Table

LEMMA WithoutType ==
  ASSUME TypeOK, NEW gone
  PROVE  Without(gone) \in [Rows -> Row]
<1>1. Absent \in Row
  BY DEF Absent, Row, Gone
<1> QED
  BY <1>1 DEF Without, TypeOK

LEMMA TypeStep ==
  ASSUME TypeInv, Next
  PROVE  TypeInv'
<1> USE RetentionAssumption
<1>0. \A w \in Workers : /\ work[w] \in Work /\ work[w].requestedAt <= now
                         /\ work[w].roots \subseteq Table(work[w].class)
  BY DEF TypeInv, TypeOK
<1>1. CASE Advance
  BY <1>1 DEF TypeInv, TypeOK, NoRootsYet, Advance, data, Work
<1>2. CASE UpdateRetentionPolicy
  BY <1>2 DEF TypeInv, TypeOK, NoRootsYet, UpdateRetentionPolicy, data
<1>3. ASSUME NEW t \in Traces, PersistSpans(t) PROVE TypeInv'
  BY <1>3 DEF TypeInv, TypeOK, NoRootsYet, PersistSpans, Row, Rows, Stored, Table
<1>4. ASSUME NEW l \in Logs, PersistLog(l) PROVE TypeInv'
  BY <1>4 DEF TypeInv, TypeOK, NoRootsYet, PersistLog, Row, Rows, Stored, Table
<1>5. ASSUME NEW reached \in SUBSET Workers, NEW c \in Classes, ExecuteBatch(reached, c)
      PROVE TypeInv'
  <2> DEFINE n == [Idle EXCEPT !.step = "policy", !.class = c, !.requestedAt = now]
  <2>1. n \in Work /\ n.requestedAt <= now /\ n.roots = {}
    <3>1. now \in Nat
      BY DEF TypeInv, TypeOK
    <3>2. "policy" \in Steps
      BY DEF Steps, Batch
    <3>3. n = [Idle EXCEPT !.step = "policy", !.class = c, !.requestedAt = now] /\ Idle.roots = {}
      BY DEF Idle
    <3>4. n \in Work
      BY <3>1, <3>2, <3>3, IdleType DEF Work
    <3>5. n.requestedAt = now /\ n.roots = {}
      BY <3>3, IdleType DEF Work
    <3> QED
      BY <3>1, <3>4, <3>5
  <2>2. work' = [w \in Workers |-> IF w \in reached THEN n ELSE work[w]]
    BY <1>5 DEF ExecuteBatch
  <2>3. WorkInv'
    <3>1. work' \in [Workers -> Work] /\ now' = now
      BY <1>0, <1>5, <2>1, <2>2 DEF ExecuteBatch
    <3> QED
      BY <1>0, <2>1, <2>2, <3>1 DEF WorkInv, NoRootsYet, TypeInv, Table
  <2> QED
    BY <1>5, <2>3 DEF ExecuteBatch, TypeInv, TypeOK, WorkInv, data
<1>6. ASSUME NEW r \in Replicas, Crash(r) PROVE TypeInv'
  <2>1. Idle \in Work /\ Idle.requestedAt = 0 /\ Idle.roots = {}
    BY IdleType DEF Idle
  <2>2. 0 <= now /\ now \in Int
    BY DEF TypeInv, TypeOK
  <2>3. WorkInv'
    BY <1>0, <1>6, <2>1, <2>2 DEF Crash, WorkInv, NoRootsYet, TypeInv, Table
  <2> QED
    BY <1>6, <2>3 DEF Crash, TypeInv, TypeOK, WorkInv, data
<1>7. ASSUME NEW w \in Workers, Tick(w) PROVE TypeInv'
  <2> DEFINE n == [Idle EXCEPT !.step = "lease", !.requestedAt = now]
  <2>1. n \in Work /\ n.requestedAt <= now /\ n.roots = {}
    <3>1. now \in Nat
      BY DEF TypeInv, TypeOK
    <3>2. "lease" \in Steps
      BY DEF Steps
    <3>3. n = [Idle EXCEPT !.step = "lease", !.requestedAt = now] /\ Idle.roots = {}
      BY DEF Idle
    <3>4. n \in Work
      BY <3>1, <3>2, <3>3, IdleType DEF Work
    <3>5. n.requestedAt = now /\ n.roots = {}
      BY <3>3, IdleType DEF Work
    <3> QED
      BY <3>1, <3>4, <3>5
  <2>2. work' = [work EXCEPT ![w] = n] /\ now' = now
    BY <1>7 DEF Tick
  <2>3. WorkInv'
    <3>1. work' \in [Workers -> Work]
      BY <2>1, <2>2 DEF TypeInv, TypeOK
    <3> QED
      BY <1>0, <2>1, <2>2, <3>1 DEF WorkInv, NoRootsYet, TypeInv, TypeOK, Table
  <2> QED
    BY <1>7, <2>3 DEF Tick, TypeInv, TypeOK, WorkInv, data
<1>8. ASSUME NEW w \in Workers, Acquire(w) PROVE TypeInv'
  <2>1. work[w].roots = {} /\ work[w].step = "lease" /\ now' = now
    BY <1>8 DEF Acquire, At, TypeInv, NoRootsYet, Statements
  <2>2. CASE Expired(w)
    <3>1. Goto(w, "policy") /\ "policy" \in Steps
      BY <1>8, <2>2 DEF Acquire, Steps, Batch
    <3>2. WorkInv'
      BY <2>1, <3>1, GotoKeeps
    <3>3. lease' = [lease EXCEPT ![work[w].class] = work[w].requestedAt + LeaseTime]
      BY <1>8, <2>2 DEF Acquire
    <3>4. lease' \in [Classes -> Nat]
      BY <1>0, <3>3 DEF TypeInv, TypeOK, Work
    <3> QED
      BY <1>8, <3>2, <3>4 DEF Acquire, TypeInv, TypeOK, WorkInv, data
  <2>3. CASE ~Expired(w)
    <3>1. WorkInv'
      BY <1>8, <2>1, <2>3, NextClassKeeps DEF Acquire
    <3> QED
      BY <1>8, <2>3, <3>1 DEF Acquire, TypeInv, TypeOK, WorkInv, data
  <2> QED
    BY <2>2, <2>3
<1>9. ASSUME NEW w \in Workers, Complete(w) PROVE TypeInv'
  <2>1. work[w].roots = {} /\ now' = now /\ NextClass(w)
    BY <1>9 DEF Complete, At, TypeInv, NoRootsYet, Statements
  <2>2. WorkInv'
    BY <2>1, NextClassKeeps
  <2> QED
    BY <1>9, <2>2 DEF Complete, TypeInv, TypeOK, WorkInv, data
<1>10. ASSUME NEW w \in Workers, LeaseError(w) PROVE TypeInv'
  <2>1. Idle \in Work /\ Idle.requestedAt = 0 /\ Idle.roots = {}
    BY IdleType DEF Idle
  <2>2. 0 <= now /\ now \in Int
    BY DEF TypeInv, TypeOK
  <2>3. work' = [work EXCEPT ![w] = Idle] /\ now' = now
    BY <1>10 DEF LeaseError
  <2>4. WorkInv'
    BY <1>0, <2>1, <2>2, <2>3 DEF WorkInv, NoRootsYet, TypeInv, TypeOK, Table
  <2> QED
    BY <1>10, <2>4 DEF LeaseError, TypeInv, TypeOK, WorkInv, data
<1>11. ASSUME NEW w \in Workers, Plan(w) PROVE TypeInv'
  <2> DEFINE rule == policy[work[w].class]
  <2>1. rule \in Rule \cup {NoRule}
    BY <1>0 DEF TypeInv, TypeOK, Work
  <2>2. work[w].roots = {} /\ now' = now
    BY <1>11 DEF Plan, At, TypeInv, NoRootsYet, Statements
  <2>3. CASE rule.mode \in {"delete", "soft"}
    <3> DEFINE n == [work[w] EXCEPT !.rule = rule,
                       !.step = IF rule.mode = "soft" THEN "final" ELSE "select"]
    <3>1. work' = [work EXCEPT ![w] = n]
      BY <1>11, <2>3 DEF Plan
    <3>2. /\ n \in Work /\ n.roots = {} /\ n.requestedAt = work[w].requestedAt
          /\ n.class = work[w].class
      BY <1>0, <2>1, <2>2 DEF Work, Steps, Batch, Statements
    <3>3. WorkInv'
      BY <1>0, <2>2, <3>1, <3>2 DEF WorkInv, NoRootsYet, TypeInv, TypeOK, Table
    <3> QED
      BY <1>11, <3>3 DEF Plan, TypeInv, TypeOK, WorkInv, data
  <2>4. CASE rule.mode \notin {"delete", "soft"}
    <3>1. Goto(w, "complete") /\ "complete" \in Steps
      BY <1>11, <2>4 DEF Plan, Steps, Batch
    <3>2. WorkInv'
      BY <2>2, <3>1, GotoKeeps
    <3> QED
      BY <1>11, <3>2 DEF Plan, TypeInv, TypeOK, WorkInv, data
  <2> QED
    BY <2>3, <2>4
<1>12. ASSUME NEW w \in Workers, BatchError(w) PROVE TypeInv'
  <2>1. Goto(w, "complete") /\ "complete" \in Steps /\ now' = now
    BY <1>12 DEF BatchError, Steps, Batch
  <2>2. WorkInv'
    BY <2>1, GotoKeeps
  <2> QED
    BY <1>12, <2>2 DEF BatchError, TypeInv, TypeOK, WorkInv, data
<1>13. ASSUME NEW w \in Workers, StatementError(w) PROVE TypeInv'
  <2>1. WorkInv'
    BY <1>13, AfterKeeps DEF StatementError
  <2> QED
    BY <1>13, <2>1 DEF StatementError, TypeInv, TypeOK, WorkInv, data
<1>14. ASSUME NEW w \in Workers, FinalDelete(w) PROVE TypeInv'
  <2>1. WorkInv'
    BY <1>14, AfterKeeps DEF FinalDelete
  <2>2. rows' \in [Rows -> Row]
    BY <1>14, WithoutType DEF FinalDelete, TypeInv
  <2> QED
    BY <1>14, <2>1, <2>2 DEF FinalDelete, TypeInv, TypeOK, WorkInv
<1>15. ASSUME NEW w \in Workers, Select(w) PROVE TypeInv'
  <2>1. PICK roots \in SUBSET Table(work[w].class) :
          work' = [work EXCEPT ![w].step = After(w), ![w].roots = roots]
    BY <1>15 DEF Select
  <2> DEFINE n == [work[w] EXCEPT !.step = After(w), !.roots = roots]
  <2>2. work' = [work EXCEPT ![w] = n] /\ now' = now
    BY <1>15, <2>1 DEF Select
  <2>3. After(w) \in {"mark", "spans", "delete"}
    BY <1>15 DEF After, Select, At
  <2>4. n \in Work /\ n.roots = roots /\ n.requestedAt = work[w].requestedAt
         /\ n.class = work[w].class /\ n.step \in Statements
    BY <1>0, <2>3 DEF Work, Steps, Batch, Statements, Table, Rows
  <2>5. work' \in [Workers -> Work]
    BY <2>2, <2>4 DEF TypeInv, TypeOK
  <2>6. WorkInv'
    BY <1>0, <2>2, <2>4, <2>5 DEF WorkInv, NoRootsYet, TypeInv, TypeOK, Table
  <2> QED
    BY <1>15, <2>6 DEF Select, TypeInv, TypeOK, WorkInv, data
<1>16. ASSUME NEW w \in Workers, MarkRoots(w) PROVE TypeInv'
  <2>1. WorkInv'
    BY <1>16, AfterKeeps DEF MarkRoots
  <2> DEFINE final == work[w].requestedAt + work[w].rule.grace
  <2>2. final \in Nat
    BY <1>0 DEF Work, Rule, NoRule
  <2>3. \A r \in Rows : rows[r] \in Row /\ [rows[r] EXCEPT !.final = final] \in Row
    BY <2>2 DEF TypeInv, TypeOK, Row
  <2>4. rows' \in [Rows -> Row]
    BY <1>16, <2>3 DEF MarkRoots
  <2> QED
    BY <1>16, <2>1, <2>4 DEF MarkRoots, TypeInv, TypeOK, WorkInv
<1>17. ASSUME NEW w \in Workers, DeleteSpans(w) PROVE TypeInv'
  <2>1. WorkInv'
    BY <1>17, AfterKeeps DEF DeleteSpans
  <2> QED
    BY <1>17, <2>1 DEF DeleteSpans, TypeInv, TypeOK, WorkInv
<1>18. ASSUME NEW w \in Workers, DeleteLogs(w) PROVE TypeInv'
  <2>1. WorkInv'
    BY <1>18, AfterKeeps DEF DeleteLogs
  <2>2. rows' \in [Rows -> Row]
    BY <1>18, WithoutType DEF DeleteLogs, TypeInv
  <2> QED
    BY <1>18, <2>1, <2>2 DEF DeleteLogs, TypeInv, TypeOK, WorkInv
<1>19. ASSUME NEW w \in Workers, DeleteRoots(w) PROVE TypeInv'
  <2>1. WorkInv'
    BY <1>19, AfterKeeps DEF DeleteRoots
  <2>2. rows' \in [Rows -> Row]
    BY <1>19, WithoutType DEF DeleteRoots, TypeInv
  <2> QED
    BY <1>19, <2>1, <2>2 DEF DeleteRoots, TypeInv, TypeOK, WorkInv
<1> QED
  BY <1>1, <1>2, <1>3, <1>4, <1>5, <1>6, <1>7, <1>8, <1>9, <1>10, <1>11, <1>12, <1>13,
     <1>14, <1>15, <1>16, <1>17, <1>18, <1>19 DEF Next

LEMMA InitType ==
  ASSUME Init
  PROVE  TypeInv
<1>1. Idle \in Work /\ Idle.requestedAt = 0 /\ Idle.roots = {} /\ Absent \in Row
  BY IdleType DEF Idle, Absent, Row, Gone
<1> QED
  BY <1>1, RetentionAssumption DEF Init, TypeInv, TypeOK, NoRootsYet, Table

\* TypeOK holds in every state of every behaviour.
THEOREM TypeCorrect == Spec => []TypeOK
<1>1. Init => TypeInv
  BY InitType
<1>2. TypeInv /\ [Next]_vars => TypeInv'
  <2>1. TypeInv /\ UNCHANGED vars => TypeInv'
    BY DEF TypeInv, TypeOK, NoRootsYet, vars, data
  <2> QED
    BY <2>1, TypeStep
<1>3. TypeInv => TypeOK
  BY DEF TypeInv
<1> QED
  BY <1>1, <1>2, <1>3, PTL DEF Spec

-----------------------------------------------------------------------------
\* The leases

\* A lease expires no earlier than a lease time after the tick of a batch that is
\* executed for it.
LeaseCovers ==
  \A w \in Schedulers :
    work[w].step \in Batch => work[w].requestedAt + LeaseTime <= lease[work[w].class]

LeaseInv == LeaseCovers /\ OverlapOnlyAfterExpiry

\* In all steps but the one that takes a lease, a scheduler stays in its batch or
\* is outside of one.
StaysOrLeaves(w) ==
  \/ work'[w].step \notin Batch
  \/ /\ work[w].step \in Batch
     /\ work'[w].class = work[w].class
     /\ work'[w].requestedAt = work[w].requestedAt

LEMMA LeaseKept ==
  ASSUME LeaseInv, lease' = lease, \A w \in Schedulers : StaysOrLeaves(w)
  PROVE  LeaseInv'
<1>1. LeaseCovers'
  BY DEF LeaseInv, LeaseCovers, StaysOrLeaves
<1>2. OverlapOnlyAfterExpiry'
  BY DEF LeaseInv, OverlapOnlyAfterExpiry, StaysOrLeaves, Executes, Apart
<1> QED
  BY <1>1, <1>2 DEF LeaseInv

LEMMA GotoStays ==
  ASSUME TypeInv, NEW w \in Workers, work[w].step \in Batch, NEW step \in Batch \cap Steps, Goto(w, step),
         step \in Statements \/ step = "complete"
  PROVE  \A v \in Schedulers : StaysOrLeaves(v)
<1>1. \A v \in Workers : v \in Schedulers => StaysOrLeaves(v)
  BY GotoType DEF StaysOrLeaves
<1> QED
  BY <1>1 DEF Schedulers, Workers

LEMMA LeaseStep ==
  ASSUME TypeInv, LeaseInv, Next
  PROVE  LeaseInv'
<1> USE RetentionAssumption
<1>0. Schedulers \subseteq Workers
  BY DEF Schedulers, Workers
<1>1. CASE Advance \/ UpdateRetentionPolicy \/ (\E t \in Traces : PersistSpans(t))
             \/ (\E l \in Logs : PersistLog(l))
  <2>1. lease' = lease /\ work' = work
    BY <1>1 DEF Advance, UpdateRetentionPolicy, PersistSpans, PersistLog
  <2> QED
    BY <2>1, LeaseKept DEF StaysOrLeaves
<1>2. ASSUME NEW reached \in SUBSET (Workers \ Schedulers), NEW c \in Classes,
             ExecuteBatch(reached, c)
      PROVE LeaseInv'
  <2>1. lease' = lease /\ \A w \in Schedulers : work'[w] = work[w]
    BY <1>0, <1>2 DEF ExecuteBatch
  <2> QED
    BY <2>1, LeaseKept DEF StaysOrLeaves
<1>3. ASSUME NEW r \in Replicas, Crash(r) PROVE LeaseInv'
  <2>1. lease' = lease /\ \A w \in Schedulers : work'[w] \in {work[w], Idle}
    BY <1>0, <1>3 DEF Crash
  <2> QED
    BY <2>1, LeaseKept DEF StaysOrLeaves, Idle, Batch, Statements
<1>4. ASSUME NEW w \in Workers, Tick(w) \/ LeaseError(w) PROVE LeaseInv'
  <2>1. PICK n : n.step \in {"idle", "lease"} /\ work' = [work EXCEPT ![w] = n] /\ lease' = lease
    BY <1>4 DEF Tick, LeaseError, Idle
  <2>2. \A v \in Schedulers : StaysOrLeaves(v)
    BY <1>0, <2>1 DEF StaysOrLeaves, Batch, Statements, TypeInv, TypeOK
  <2> QED
    BY <2>1, <2>2, LeaseKept
<1>5. ASSUME NEW w \in Workers, NextClass(w), work[w].roots = {}, lease' = lease PROVE LeaseInv'
  <2>1. \A v \in Schedulers : StaysOrLeaves(v)
    BY <1>0, <1>5, NextClassType DEF StaysOrLeaves, Batch, Statements
  <2> QED
    BY <1>5, <2>1, LeaseKept
<1>6. ASSUME NEW w \in Workers, Complete(w) PROVE LeaseInv'
  <2>1. work[w].roots = {} /\ lease' = lease /\ NextClass(w)
    BY <1>6 DEF Complete, At, TypeInv, NoRootsYet, Statements
  <2> QED
    BY <1>5, <2>1
<1>7. ASSUME NEW w \in Workers, Acquire(w) PROVE LeaseInv'
  <2> DEFINE c == work[w].class
             t == work[w].requestedAt
  <2>0. work[w].roots = {} /\ c \in Classes /\ t \in Nat /\ lease \in [Classes -> Nat]
    BY <1>7 DEF Acquire, At, TypeInv, TypeOK, NoRootsYet, Statements, Work
  <2>1. CASE ~Expired(w)
    BY <1>5, <1>7, <2>0, <2>1 DEF Acquire
  <2>2. CASE Expired(w)
    <3>1. Goto(w, "policy") /\ "policy" \in Steps /\ lease[c] <= t
          /\ lease' = [lease EXCEPT ![c] = t + LeaseTime]
      BY <1>7, <2>2 DEF Acquire, Steps, Batch, Expired
    <3>2. /\ \A v \in Workers \ {w} : work'[v] = work[v]
          /\ work'[w].class = c /\ work'[w].requestedAt = t
      BY <2>0, <3>1, GotoType
    <3>3. lease'[c] = t + LeaseTime /\ lease[c] <= lease'[c]
          /\ \A d \in Classes \ {c} : lease'[d] = lease[d]
      BY <2>0, <3>1
    <3>4. LeaseCovers'
      <4> SUFFICES ASSUME NEW v \in Schedulers, work'[v].step \in Batch
                   PROVE  work'[v].requestedAt + LeaseTime <= lease'[work'[v].class]
        BY DEF LeaseCovers
      <4>1. CASE v = w
        BY <2>0, <3>2, <3>3, <4>1
      <4>2. CASE v # w
        <5>1. work'[v] = work[v] /\ v \in Workers
          BY <1>0, <3>2, <4>2
        <5>2. work[v].class \in Classes /\ work[v].requestedAt \in Nat
          BY <5>1 DEF TypeInv, TypeOK, Work
        <5>3. lease[work[v].class] <= lease'[work[v].class] /\ lease'[work[v].class] \in Nat
          BY <2>0, <3>3, <5>2
        <5>4. work[v].requestedAt + LeaseTime <= lease[work[v].class]
          BY <5>1 DEF LeaseInv, LeaseCovers
        <5> QED
          BY <2>0, <5>1, <5>2, <5>3, <5>4
      <4> QED
        BY <4>1, <4>2
    <3>5. OverlapOnlyAfterExpiry'
      <4>1. ASSUME NEW v \in Schedulers, v # w, work[v].step \in Batch, work[v].class = c
            PROVE  work[v].requestedAt + LeaseTime <= t
        <5>1. work[v].requestedAt + LeaseTime <= lease[c]
          BY <4>1 DEF LeaseInv, LeaseCovers
        <5>2. work[v].requestedAt \in Nat
          BY <1>0, <4>1 DEF TypeInv, TypeOK, Work
        <5> QED
          BY <2>0, <3>1, <5>1, <5>2
      <4> SUFFICES ASSUME NEW d \in Classes, NEW u \in Schedulers, NEW v \in Schedulers, u # v,
                          Executes(u, d)', Executes(v, d)'
                   PROVE  Apart(u, v)' \/ Apart(v, u)'
        BY DEF OverlapOnlyAfterExpiry
      <4>2. CASE u = w
        <5>1. work'[v] = work[v] /\ d = c
          BY <1>0, <3>2, <4>2 DEF Executes
        <5> QED
          BY <3>2, <4>1, <4>2, <5>1 DEF Executes, Apart
      <4>3. CASE v = w
        <5>1. work'[u] = work[u] /\ d = c
          BY <1>0, <3>2, <4>3 DEF Executes
        <5> QED
          BY <3>2, <4>1, <4>3, <5>1 DEF Executes, Apart
      <4>4. CASE u # w /\ v # w
        <5>1. work'[u] = work[u] /\ work'[v] = work[v]
          BY <1>0, <3>2, <4>4
        <5> QED
          BY <5>1 DEF LeaseInv, OverlapOnlyAfterExpiry, Executes, Apart
      <4> QED
        BY <4>2, <4>3, <4>4
    <3> QED
      BY <3>4, <3>5 DEF LeaseInv
  <2> QED
    BY <2>1, <2>2
<1>8. ASSUME NEW w \in Workers, Plan(w) PROVE LeaseInv'
  <2>1. work[w].step = "policy" /\ lease' = lease
    BY <1>8 DEF Plan, At
  <2>2. CASE policy[work[w].class].mode \in {"delete", "soft"}
    <3>1. PICK s \in Batch :
            work' = [work EXCEPT ![w].rule = policy[work[w].class], ![w].step = s]
      BY <1>8, <2>2 DEF Plan, Batch, Statements
    <3>2. \A v \in Schedulers : StaysOrLeaves(v)
      <4>1. work[w] \in Work
        BY DEF TypeInv, TypeOK
      <4>2. work'[w].class = work[w].class /\ work'[w].requestedAt = work[w].requestedAt
        BY <3>1, <4>1 DEF TypeInv, TypeOK, Work
      <4>3. \A v \in Workers \ {w} : work'[v] = work[v]
        BY <3>1 DEF TypeInv, TypeOK
      <4> QED
        BY <1>0, <2>1, <4>2, <4>3 DEF StaysOrLeaves, Batch
    <3> QED
      BY <2>1, <3>2, LeaseKept
  <2>3. CASE policy[work[w].class].mode \notin {"delete", "soft"}
    <3>1. Goto(w, "complete") /\ "complete" \in Batch \cap Steps /\ work[w].step \in Batch
      BY <1>8, <2>1, <2>3 DEF Plan, Steps, Batch
    <3> QED
      BY <2>1, <3>1, GotoStays, LeaseKept
  <2> QED
    BY <2>2, <2>3
<1>9. ASSUME NEW w \in Workers, BatchError(w) PROVE LeaseInv'
  <2>1. Goto(w, "complete") /\ "complete" \in Batch \cap Steps /\ work[w].step \in Batch
        /\ lease' = lease
    BY <1>9 DEF BatchError, At, Steps, Batch
  <2> QED
    BY <2>1, GotoStays, LeaseKept
<1>10. ASSUME NEW w \in Workers,
              \/ StatementError(w) \/ FinalDelete(w) \/ MarkRoots(w)
              \/ DeleteSpans(w) \/ DeleteLogs(w) \/ DeleteRoots(w)
       PROVE LeaseInv'
  <2>1. Goto(w, After(w)) /\ lease' = lease /\ work[w].step \in Statements
    BY <1>10 DEF StatementError, FinalDelete, MarkRoots, DeleteSpans, DeleteLogs, DeleteRoots,
                 At, Statements
  <2>2. After(w) \in Batch \cap Steps /\ (After(w) \in Statements \/ After(w) = "complete")
    BY AfterIsStep DEF Steps, Batch, Statements
  <2>3. work[w].step \in Batch
    BY <2>1 DEF Batch
  <2> QED
    BY <2>1, <2>2, <2>3, GotoStays, LeaseKept
<1>11. ASSUME NEW w \in Workers, Select(w) PROVE LeaseInv'
  <2>1. PICK roots : work' = [work EXCEPT ![w].step = After(w), ![w].roots = roots]
    BY <1>11 DEF Select
  <2>2. work[w].step \in Batch /\ lease' = lease /\ work[w] \in Work
    BY <1>11 DEF Select, At, Batch, Statements, TypeInv, TypeOK
  <2>3. work'[w].class = work[w].class /\ work'[w].requestedAt = work[w].requestedAt
    BY <2>1, <2>2 DEF TypeInv, TypeOK, Work
  <2>4. \A v \in Workers \ {w} : work'[v] = work[v]
    BY <2>1 DEF TypeInv, TypeOK
  <2>5. \A v \in Schedulers : StaysOrLeaves(v)
    BY <1>0, <2>2, <2>3, <2>4 DEF StaysOrLeaves
  <2> QED
    BY <2>2, <2>5, LeaseKept
<1> QED
  BY <1>1, <1>2, <1>3, <1>4, <1>6, <1>7, <1>8, <1>9, <1>10, <1>11 DEF Next

\* Schedulers of two replicas execute batches of one class at once only when their
\* ticks are a lease apart, for any number of replicas and any length of batches.
THEOREM OverlapBound == Spec => []OverlapOnlyAfterExpiry
<1>1. Init => TypeInv /\ LeaseInv
  <2> SUFFICES ASSUME Init PROVE TypeInv /\ LeaseInv
    OBVIOUS
  <2>1. TypeInv
    BY InitType
  <2>2. \A w \in Schedulers : work[w].step \notin Batch
    BY DEF Init, Idle, Batch, Statements, Schedulers, Workers
  <2> QED
    BY <2>1, <2>2 DEF LeaseInv, LeaseCovers, OverlapOnlyAfterExpiry, Executes
<1>2. TypeInv /\ LeaseInv /\ [Next]_vars => TypeInv' /\ LeaseInv'
  <2>1. TypeInv /\ LeaseInv /\ UNCHANGED vars => TypeInv' /\ LeaseInv'
    BY DEF TypeInv, TypeOK, NoRootsYet, vars, data, LeaseInv, LeaseCovers,
           OverlapOnlyAfterExpiry, Executes, Apart
  <2> QED
    BY <2>1, TypeStep, LeaseStep
<1>3. LeaseInv => OverlapOnlyAfterExpiry
  BY DEF LeaseInv
<1> QED
  BY <1>1, <1>2, <1>3, PTL DEF Spec

-----------------------------------------------------------------------------
\* The log events

LogTimes == \A l \in Logs : rows[l] = Absent \/ rows[l].time = LogTime[l]
PolicyIsPast == \A c \in Classes : policy[c] = NoRule \/ policy[c] \in past[c]

\* A batch runs under a rule its class has had, and its roots were due under it.
BatchRule ==
  \A w \in Workers : work[w].step \in Statements =>
    /\ work[w].rule.mode \in {"delete", "soft"}
    /\ work[w].rule \in past[work[w].class]
    /\ work[w].class = "LOGS" =>
         \A l \in work[w].roots : LogTime[l] + work[w].rule.days < work[w].requestedAt

LogsInv == LogTimes /\ PolicyIsPast /\ BatchRule

LEMMA RowsAndLogs == \A l \in Logs : l \in Rows /\ l \notin Traces
  BY RetentionAssumption DEF Rows

LEMMA WithoutTimes ==
  ASSUME LogTimes, NEW gone, rows' = Without(gone)
  PROVE  LogTimes'
  BY RowsAndLogs DEF Without, LogTimes

\* What a worker at a statement goes on with
LEMMA RuleKept ==
  ASSUME TypeInv, BatchRule, NEW w \in Workers, past' = past, work[w].step \in Statements,
         Goto(w, After(w)) \/ Goto(w, "complete")
  PROVE  BatchRule'
<1>1. PICK step \in {"complete", "select", "mark", "spans", "delete", "logs"} : Goto(w, step)
  BY AfterIsStep
<1>2. step \in Steps /\ (step \in Statements \/ step = "complete")
  BY DEF Steps, Batch, Statements
<1>3. /\ \A v \in Workers \ {w} : work'[v] = work[v]
      /\ work'[w].step = step /\ work'[w].requestedAt = work[w].requestedAt
      /\ work'[w].class = work[w].class /\ work'[w].roots \subseteq work[w].roots
      /\ step # "complete" => work'[w].rule = work[w].rule
  BY <1>1, <1>2, GotoType
<1>4. step \in Statements => step # "complete"
  BY DEF Statements
<1> QED
  BY <1>3, <1>4 DEF BatchRule

\* A worker that reaches no statement needs no rule.
LEMMA RuleNotNeeded ==
  ASSUME BatchRule, past' = past,
         \A w \in Workers : work'[w] = work[w] \/ work'[w].step \notin Statements
  PROVE  BatchRule'
  BY DEF BatchRule

LEMMA LogsStep ==
  ASSUME TypeInv, LogsInv, Next
  PROVE  LogsInv'
<1> USE RetentionAssumption
<1>0. \A w \in Workers : work[w] \in Work /\ work[w].roots \subseteq Table(work[w].class)
  BY DEF TypeInv, TypeOK
<1>1. CASE Advance
  BY <1>1 DEF LogsInv, LogTimes, PolicyIsPast, BatchRule, Advance, data
<1>2. CASE UpdateRetentionPolicy
  <2>1. \A c \in Classes : past[c] \subseteq past'[c] /\ policy'[c] \in past'[c]
    BY <1>2 DEF UpdateRetentionPolicy
  <2>2. BatchRule'
    <3>1. \A w \in Workers : work[w].class \in Classes /\ work' = work
      BY <1>0, <1>2 DEF UpdateRetentionPolicy, Work
    <3> QED
      BY <2>1, <3>1 DEF LogsInv, BatchRule
  <2> QED
    BY <1>2, <2>1, <2>2 DEF LogsInv, LogTimes, PolicyIsPast, UpdateRetentionPolicy, data
<1>3. ASSUME NEW t \in Traces, PersistSpans(t) PROVE LogsInv'
  <2>1. \A l \in Logs : rows'[l] = rows[l]
    BY <1>3, RowsAndLogs DEF PersistSpans, TypeInv, TypeOK
  <2> QED
    BY <1>3, <2>1 DEF LogsInv, LogTimes, PolicyIsPast, BatchRule, PersistSpans
<1>4. ASSUME NEW l \in Logs, PersistLog(l) PROVE LogsInv'
  <2>1. LogTimes'
    BY <1>4, RowsAndLogs DEF PersistLog, Stored, LogsInv, LogTimes, TypeInv, TypeOK
  <2> QED
    BY <1>4, <2>1 DEF LogsInv, PolicyIsPast, BatchRule, PersistLog
<1>5. ASSUME UNCHANGED <<policy, data, past>>,
             \A w \in Workers : work'[w] = work[w] \/ work'[w].step \notin Statements
      PROVE  LogsInv'
  BY <1>5, RuleNotNeeded DEF LogsInv, LogTimes, PolicyIsPast, data
<1>6. ASSUME NEW reached \in SUBSET Workers, NEW c \in Classes, ExecuteBatch(reached, c)
      PROVE LogsInv'
  <2>1. \A w \in Workers : work'[w] = work[w] \/ work'[w].step = "policy"
    BY <1>6 DEF ExecuteBatch, Idle
  <2> QED
    BY <1>5, <1>6, <2>1 DEF ExecuteBatch, Statements
<1>7. ASSUME NEW r \in Replicas, Crash(r) PROVE LogsInv'
  <2>1. \A w \in Workers : work'[w] = work[w] \/ work'[w].step = "idle"
    BY <1>7 DEF Crash, Idle
  <2> QED
    BY <1>5, <1>7, <2>1 DEF Crash, Statements
<1>8. ASSUME NEW w \in Workers, Tick(w) \/ LeaseError(w) PROVE LogsInv'
  <2> DEFINE n == [Idle EXCEPT !.step = "lease", !.requestedAt = now]
  <2>0. PICK m \in {Idle, n} : work' = [work EXCEPT ![w] = m]
    BY <1>8 DEF Tick, LeaseError
  <2>1. Idle.step = "idle" /\ n.step = "lease"
    BY DEF Idle
  <2>2. \A v \in Workers : work'[v] = work[v] \/ work'[v].step \in {"idle", "lease"}
    BY <2>0, <2>1 DEF TypeInv, TypeOK
  <2> QED
    BY <1>5, <1>8, <2>2 DEF Tick, LeaseError, Statements
<1>9. ASSUME NEW w \in Workers, Acquire(w) \/ Complete(w) PROVE LogsInv'
  <2>1. work[w].roots = {}
    BY <1>9 DEF Acquire, Complete, At, TypeInv, NoRootsYet, Statements
  <2>2. NextClass(w) \/ Goto(w, "policy")
    BY <1>9 DEF Acquire, Complete
  <2>3. \A v \in Workers : work'[v] = work[v] \/ work'[v].step \in {"idle", "lease", "policy"}
    BY <2>1, <2>2, NextClassType, GotoType DEF Steps, Batch
  <2> QED
    BY <1>5, <1>9, <2>3 DEF Acquire, Complete, Statements
<1>10. ASSUME NEW w \in Workers, Plan(w) PROVE LogsInv'
  <2> DEFINE c == work[w].class
             rule == policy[c]
  <2>1. work[w].roots = {} /\ work[w] \in Work /\ c \in Classes
    BY <1>0, <1>10 DEF Plan, At, TypeInv, NoRootsYet, Statements, Work
  <2>2. CASE rule.mode \in {"delete", "soft"}
    <3>1. PICK s : work' = [work EXCEPT ![w].rule = rule, ![w].step = s]
      BY <1>10, <2>2 DEF Plan
    <3>2. /\ \A v \in Workers \ {w} : work'[v] = work[v]
          /\ work'[w].rule = rule /\ work'[w].class = c /\ work'[w].roots = {}
      BY <2>1, <3>1 DEF TypeInv, TypeOK, Work
    <3>3. rule \in past[c]
      BY <2>1, <2>2 DEF LogsInv, PolicyIsPast, NoRule
    <3>4. past' = past
      BY <1>10 DEF Plan
    <3>5. BatchRule'
      BY <2>2, <3>2, <3>3, <3>4 DEF LogsInv, BatchRule
    <3> QED
      BY <1>10, <3>5 DEF Plan, LogsInv, LogTimes, PolicyIsPast, data
  <2>3. CASE rule.mode \notin {"delete", "soft"}
    <3>1. Goto(w, "complete") /\ "complete" \in Steps
      BY <1>10, <2>3 DEF Plan, Steps, Batch
    <3>2. \A v \in Workers : work'[v] = work[v] \/ work'[v].step = "complete"
      BY <3>1, GotoType
    <3> QED
      BY <1>5, <1>10, <3>2 DEF Plan, Statements
  <2> QED
    BY <2>2, <2>3
<1>11. ASSUME NEW w \in Workers, BatchError(w) PROVE LogsInv'
  <2>1. Goto(w, "complete") /\ "complete" \in Steps
    BY <1>11 DEF BatchError, Steps, Batch
  <2>2. \A v \in Workers : work'[v] = work[v] \/ work'[v].step = "complete"
    BY <2>1, GotoType
  <2> QED
    BY <1>5, <1>11, <2>2 DEF BatchError, Statements
<1>12. ASSUME NEW w \in Workers, Goto(w, After(w)), work[w].step \in Statements,
              UNCHANGED <<policy, past>>, LogTimes'
       PROVE  LogsInv'
  BY <1>12, RuleKept DEF LogsInv, PolicyIsPast
<1>13. ASSUME NEW w \in Workers, StatementError(w) \/ DeleteSpans(w) PROVE LogsInv'
  <2>1. LogTimes'
    BY <1>13 DEF StatementError, DeleteSpans, data, LogsInv, LogTimes
  <2> QED
    BY <1>12, <1>13, <2>1 DEF StatementError, DeleteSpans, At, Statements
<1>14. ASSUME NEW w \in Workers, FinalDelete(w) \/ DeleteLogs(w) \/ DeleteRoots(w) PROVE LogsInv'
  <2>1. LogTimes'
    BY <1>14, WithoutTimes DEF FinalDelete, DeleteLogs, DeleteRoots, LogsInv
  <2> QED
    BY <1>12, <1>14, <2>1 DEF FinalDelete, DeleteLogs, DeleteRoots, At, Statements
<1>15. ASSUME NEW w \in Workers, MarkRoots(w) PROVE LogsInv'
  <2>1. \A l \in Logs : rows[l] \in Row
    BY RowsAndLogs DEF TypeInv, TypeOK
  <2>2. \A l \in Logs : rows'[l] = rows[l] \/ (rows[l] # Absent /\ rows'[l].time = rows[l].time)
    BY <1>15, <2>1, RowsAndLogs DEF MarkRoots, Row
  <2>3. LogTimes'
    BY <2>2 DEF LogsInv, LogTimes
  <2> QED
    BY <1>12, <1>15, <2>3 DEF MarkRoots, At, Statements
<1>16. ASSUME NEW w \in Workers, Select(w) PROVE LogsInv'
  <2>1. PICK roots \in SUBSET {r \in Table(work[w].class) : Older(w, r) /\ rows[r].final = NotMarked} :
          work' = [work EXCEPT ![w].step = After(w), ![w].roots = roots]
    BY <1>16 DEF Select
  <2>2. work[w].step \in Statements /\ work[w] \in Work
    BY <1>0, <1>16 DEF Select, At, Statements
  <2>3. /\ \A v \in Workers \ {w} : work'[v] = work[v]
        /\ work'[w].rule = work[w].rule /\ work'[w].class = work[w].class
        /\ work'[w].roots = roots /\ work'[w].requestedAt = work[w].requestedAt
    BY <2>1, <2>2 DEF TypeInv, TypeOK, Work
  <2>4. work[w].class = "LOGS" =>
          \A l \in roots : LogTime[l] + work[w].rule.days < work[w].requestedAt
    BY <2>1 DEF Table, Older, LogsInv, LogTimes
  <2>5. past' = past
    BY <1>16 DEF Select
  <2>6. BatchRule'
    BY <2>2, <2>3, <2>4, <2>5 DEF LogsInv, BatchRule
  <2> QED
    BY <1>16, <2>6 DEF Select, LogsInv, LogTimes, PolicyIsPast, data
<1> QED
  BY <1>1, <1>2, <1>3, <1>4, <1>6, <1>7, <1>8, <1>9, <1>10, <1>11, <1>13, <1>14, <1>15, <1>16
  DEF Next

LEMMA DueIsAllowed ==
  ASSUME TypeInv, LogsInv, NEW w \in Workers, work[w].step \in Statements, NEW time \in Int,
         time + work[w].rule.days < work[w].requestedAt
  PROVE  Allows(work[w].class, time)
<1>1. work[w] \in Work /\ work[w].requestedAt <= now /\ now \in Int
  BY DEF TypeInv, TypeOK
<1>2. work[w].rule \in past[work[w].class] /\ work[w].rule.mode # "retain"
  BY DEF LogsInv, BatchRule
<1>3. time + work[w].rule.days < now
  BY <1>1 DEF Work, Rule, NoRule
<1> QED
  BY <1>2, <1>3 DEF Allows

LEMMA LogsKeptStep ==
  ASSUME TypeInv, LogsInv, Next, NEW l \in Logs, Visible(l), ~Visible(l)'
  PROVE  \/ Allows("LOGS", LogTime[l])
         \/ TraceOf[l] # NoTrace /\ Allows("TRACES", LogTime[l])
<1> USE RetentionAssumption
<1>0. /\ l \in Rows /\ l \notin Traces /\ LogTime[l] \in Int
      /\ rows[l].time = LogTime[l] /\ rows'[l] # rows[l]
  <2>1. rows[l] # Absent
    BY DEF Visible, Absent, NotMarked, Gone
  <2> QED
    BY <2>1, RowsAndLogs DEF LogsInv, LogTimes, Visible
<1>1. CASE rows' = rows
  BY <1>0, <1>1
<1>2. ASSUME NEW t \in Traces, PersistSpans(t) PROVE FALSE
  BY <1>0, <1>2 DEF PersistSpans, TypeInv, TypeOK
<1>3. ASSUME NEW m \in Logs, PersistLog(m) PROVE FALSE
  BY <1>0, <1>3 DEF PersistLog, Stored, Visible, TypeInv, TypeOK
<1>4. ASSUME NEW w \in Workers, FinalDelete(w) PROVE FALSE
  BY <1>0, <1>4 DEF FinalDelete, Without, Visible, NotMarked
<1>5. ASSUME NEW w \in Workers, work[w].step \in Statements, l \in work[w].roots
      PROVE  Allows("LOGS", LogTime[l])
  <2>1. work[w].class = "LOGS"
    BY <1>0, <1>5 DEF TypeInv, TypeOK, Table, Work, Classes
  <2> QED
    BY <1>0, <1>5, <2>1, DueIsAllowed DEF LogsInv, BatchRule
<1>6. ASSUME NEW w \in Workers, DeleteRoots(w) \/ MarkRoots(w)
      PROVE  Allows("LOGS", LogTime[l])
  <2>1. work[w].step \in Statements /\ l \in work[w].roots
    BY <1>0, <1>6 DEF DeleteRoots, MarkRoots, Without, At, Statements
  <2> QED
    BY <1>5, <2>1
<1>7. ASSUME NEW w \in Workers, DeleteLogs(w)
      PROVE  \/ Allows("LOGS", LogTime[l])
             \/ TraceOf[l] # NoTrace /\ Allows("TRACES", LogTime[l])
  <2>1. l \in DependentLogs(w) /\ work[w].step \in Statements
    BY <1>0, <1>7 DEF DeleteLogs, Without, At, Statements
  <2>2. Allows(work[w].class, LogTime[l])
    BY <1>0, <2>1, DueIsAllowed DEF DependentLogs, Older
  <2>3. work[w].class = "TRACES" => TraceOf[l] # NoTrace
    BY <2>1 DEF DependentLogs, TypeInv, TypeOK, Table
  <2>4. work[w].class \in {"TRACES", "LOGS"}
    BY DEF TypeInv, TypeOK, Work, Classes
  <2> QED
    BY <2>2, <2>3, <2>4
<1> QED
  BY <1>1, <1>2, <1>3, <1>4, <1>6, <1>7
  DEF Next, Advance, UpdateRetentionPolicy, ExecuteBatch, Crash, Tick, Acquire, Complete,
      LeaseError, Plan, BatchError, StatementError, Select, DeleteSpans, data

\* A log event is taken from view only when it is older than a rule of the project has
\* said for its class, or for that of its trace.
THEOREM LogsAreKept == Spec => LogsKept
<1>1. Init => TypeInv /\ LogsInv
  <2> SUFFICES ASSUME Init PROVE TypeInv /\ LogsInv
    OBVIOUS
  <2>1. TypeInv
    BY InitType
  <2>2. LogTimes /\ PolicyIsPast /\ BatchRule
    BY RowsAndLogs DEF Init, LogTimes, PolicyIsPast, BatchRule, Idle, Statements
  <2> QED
    BY <2>1, <2>2 DEF LogsInv
<1>2. TypeInv /\ LogsInv /\ [Next]_vars => TypeInv' /\ LogsInv'
  <2>1. TypeInv /\ LogsInv /\ UNCHANGED vars => TypeInv' /\ LogsInv'
    BY DEF TypeInv, TypeOK, NoRootsYet, vars, data, LogsInv, LogTimes, PolicyIsPast, BatchRule
  <2> QED
    BY <2>1, TypeStep, LogsStep
<1>3. TypeInv /\ LogsInv /\ [Next]_vars =>
        [\A l \in Logs : Visible(l) /\ ~Visible(l)' =>
           \/ Allows("LOGS", LogTime[l])
           \/ TraceOf[l] # NoTrace /\ Allows("TRACES", LogTime[l])]_vars
  BY LogsKeptStep
<1> QED
  BY <1>1, <1>2, <1>3, PTL DEF Spec, LogsKept
================================================================================
