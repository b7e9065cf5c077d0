----------------------- MODULE StorageWriteIngestProofs -----------------------
(***************************************************************************)
(* Proofs about StorageWriteIngest for any number of messages, commands,   *)
(* replicas, deliveries and crashes.                                       *)
(***************************************************************************)
EXTENDS StorageWriteIngest, TLAPS

\* A delivery settled by its handler leaves the handler's replica and
\* everything but the consumer's word on that message as it was.
LEMMA SettleTyped ==
    ASSUME NEW m \in Messages, NEW outcome \in ConsumerState,
           consumer \in [Messages -> ConsumerState],
           SettleMessage(m, outcome)
    PROVE  consumer' \in [Messages -> ConsumerState]
  BY DEF SettleMessage

\* Every variable keeps its type in every step of every replica.
THEOREM Typed == Spec => []TypeOK
<1>1. Init => TypeOK
  BY IngestAssumption DEF Init, TypeOK, ConsumerState
<1>2. TypeOK /\ [Next]_vars => TypeOK'
  <2> SUFFICES ASSUME TypeOK, [Next]_vars PROVE TypeOK'
    OBVIOUS
  <2> USE IngestAssumption DEF TypeOK
  <2>1. ASSUME NEW m \in Messages, Publish(m) PROVE TypeOK'
    BY <2>1 DEF Publish, replicaVars, storeVars, ConsumerState
  <2>2. ASSUME NEW m \in Messages, AckWaitExpires(m) PROVE TypeOK'
    BY <2>2 DEF AckWaitExpires, replicaVars, storeVars, ConsumerState
  <2>3. ASSUME NEW m \in Messages, MaxDeliveryReached(m) PROVE TypeOK'
    BY <2>3 DEF MaxDeliveryReached, replicaVars, storeVars, ConsumerState
  <2>4. ASSUME NEW d \in tx, CommitTransaction(d) PROVE TypeOK'
    <3>1. PICK m \in Messages, a \in 1..MaxDeliver : d = [msg |-> m, attempt |-> a]
      BY DEF Delivery
    <3>2. jobs' \in SUBSET Job
      BY <2>4 DEF CommitTransaction, Advance, AfterPersist, Job, Pc
    <3>3. ledger' \in SUBSET Commands /\ writes' \in [Commands -> Nat]
      BY <2>4, <3>1 DEF CommitTransaction
    <3> QED
      BY <2>4, <3>2, <3>3 DEF CommitTransaction, streamVars
  <2>5. ASSUME NEW d \in tx, AbortTransaction(d) PROVE TypeOK'
    BY <2>5, SettleTyped DEF AbortTransaction, PersistError, NakWithDelay, Job, ConsumerState
  <2>6. ASSUME NEW d \in tx, DropTransaction(d) PROVE TypeOK'
    BY <2>6 DEF DropTransaction, streamVars, replicaVars
  <2>7. ASSUME NEW r \in Replicas, NEW S \in SUBSET Messages, Fetch(r, S) PROVE TypeOK'
    <3>1. consumer' \in [Messages -> ConsumerState]
      BY <2>7 DEF Fetch, ConsumerState
    <3>2. \A m \in S : numDelivered[m] + 1 \in 1..MaxDeliver
      BY <2>7 DEF Fetch, Deliverable
    <3>3. numDelivered' \in [Messages -> 0..MaxDeliver]
      BY <2>7, <3>2 DEF Fetch
    <3>4. {[msg |-> m, attempt |-> numDelivered[m] + 1] : m \in S} \subseteq Delivery
      BY <3>2 DEF Delivery
    <3>5. batch' \in [Replicas -> SUBSET Delivery]
      BY <2>7, <3>4 DEF Fetch
    <3> QED
      BY <2>7, <3>1, <3>3, <3>5 DEF Fetch, storeVars
  <2>8. ASSUME NEW r \in Replicas, NEW d \in batch[r], StartHandler(r, d) PROVE TypeOK'
    <3>1. d \in Delivery
      OBVIOUS
    <3>2. [replica |-> r, msg |-> d.msg, attempt |-> d.attempt, pc |-> "check"] \in Job
      BY <3>1 DEF Delivery, Job, Pc
    <3> QED
      BY <2>8, <3>2 DEF StartHandler, streamVars, storeVars
  <2>9. ASSUME NEW j \in jobs, HandlerStep(j) PROVE TypeOK'
    <3>1. j \in Job
      OBVIOUS
    <3>2. j.msg \in Messages /\ j.replica \in Replicas /\ DeliveryOf(j) \in Delivery
      BY <3>1 DEF Job, DeliveryOf, Delivery
    <3>3. \A pc \in Pc : [j EXCEPT !.pc = pc] \in Job
      BY <3>1 DEF Job
    <3>4. CASE RejectInvalid(j)
      BY <3>2, <3>4, SettleTyped DEF RejectInvalid, Ack, storeVars, ConsumerState
    <3>5. CASE OperationReady(j)
      BY <3>3, <3>5 DEF OperationReady, Advance, streamVars, storeVars, Pc
    <3>6. CASE FailFast(j)
      BY <3>2, <3>6, SettleTyped DEF FailFast, NakWithDelay, storeVars, ConsumerState
    <3>7. CASE CommandExists(j)
      BY <3>2, <3>3, <3>7, SettleTyped DEF CommandExists, Ack, Advance, storeVars, ConsumerState, Pc
    <3>8. CASE SendTransaction(j)
      BY <3>2, <3>3, <3>8 DEF SendTransaction, Advance, streamVars, Pc
    <3>9. CASE StorageUnavailable(j)
      BY <3>2, <3>9, SettleTyped DEF StorageUnavailable, Degrade, NakWithDelay, storeVars, ConsumerState
    <3>10. CASE LoseReply(j)
      BY <3>2, <3>10, SettleTyped DEF LoseReply, Degrade, NakWithDelay, storeVars, ConsumerState
    <3>11. CASE PublishNotification(j)
      <4>1. notifications' \in [Commands -> Nat]
        BY <3>2, <3>11 DEF PublishNotification
      <4>2. jobs' \in SUBSET Job
        BY <3>3, <3>11 DEF PublishNotification, Advance, Pc
      <4> QED
        BY <3>11, <4>1, <4>2 DEF PublishNotification, streamVars, storeVars
    <3>12. CASE AckPersisted(j)
      BY <3>2, <3>12, SettleTyped DEF AckPersisted, Ack, storeVars, ConsumerState
    <3> QED
      BY <2>9, <3>4, <3>5, <3>6, <3>7, <3>8, <3>9, <3>10, <3>11, <3>12 DEF HandlerStep
  <2>10. ASSUME NEW r \in Replicas, Process(r) PROVE TypeOK'
    <3>1. CASE Start(r)
      BY <3>1 DEF Start, streamVars, storeVars
    <3>2. CASE CheckReadiness(r)
      BY <3>2 DEF CheckReadiness, Degrade, streamVars, storeVars
    <3>3. CASE Crash(r)
      BY <3>3 DEF Crash, streamVars, storeVars
    <3> QED
      BY <2>10, <3>1, <3>2, <3>3 DEF Process
  <2>11. CASE UNCHANGED vars
    BY <2>11 DEF vars
  <2> QED
    BY <2>1, <2>2, <2>3, <2>4, <2>5, <2>6, <2>7, <2>8, <2>9, <2>10, <2>11
       DEF Next, JetStream, SurrealDB, Consumer, JobsOf
<1> QED
  BY <1>1, <1>2, PTL DEF Spec

--------------------------------------------------------------------------------
(* The safety invariant *)

\* A step that writes and announces nothing keeps the invariant when the jobs
\* it adds are not past the commit and not past a rejection, when it sends
\* only valid commands, and when it acknowledges only durable ones.
LEMMA QuietStep ==
    ASSUME IngestInv,
           UNCHANGED <<ledger, writes, notifications>>,
           \A k \in jobs' : \/ k \in jobs
                            \/ k.pc = "check"
                            \/ k.pc \in {"lookup", "persist", "send", "await"} /\ k.msg \notin Invalid,
           \A d \in tx' : d.msg \notin Invalid,
           \A m \in Messages \ Invalid :
               consumer'[m] = "acked" => consumer[m] = "acked" \/ CommandOf[m] \in ledger
    PROVE  IngestInv'
<1>1. CommittedHandlers' /\ OneAnnouncer' /\ OnlyValidProceed'
  BY DEF IngestInv, CommittedHandlers, OneAnnouncer, OnlyValidProceed
<1>2. WrittenAtMostOnce' /\ NotifiedOnceAfterCommit'
  BY DEF IngestInv, WrittenAtMostOnce, NotifiedOnceAfterCommit
<1>3. AckedIsDurable'
  BY DEF IngestInv, AckedIsDurable
<1> QED
  BY <1>1, <1>2, <1>3 DEF IngestInv

\* The commit: the command was not in the ledger, so no handler was past the
\* commit for it and nobody had announced it.
LEMMA CommitKeepsInv ==
    ASSUME TypeOK, IngestInv, NEW d \in tx, CommitTransaction(d)
    PROVE  IngestInv'
<1> DEFINE c == CommandOf[d.msg]
<1> USE IngestAssumption DEF TypeOK
<1>1. d.msg \in Messages /\ c \in Commands /\ c \notin ledger /\ d.msg \notin Invalid
  BY DEF CommitTransaction, CreateSucceeds, Delivery, IngestInv, OnlyValidProceed
<1>2. ledger' = ledger \union {c} /\ notifications' = notifications
  BY DEF CommitTransaction
<1>3. \A j \in jobs : j.pc \in {"notify", "ack"} => CommandOf[j.msg] # c
  BY <1>1 DEF IngestInv, CommittedHandlers
<1>4. notifications[c] = 0
  BY <1>1 DEF IngestInv, NotifiedOnceAfterCommit
<1>5. \/ jobs' = jobs
      \/ \E j \in jobs : /\ j.pc = "await" /\ j.msg = d.msg
                         /\ jobs' = (jobs \ {j}) \union {[j EXCEPT !.pc = AfterPersist(j.msg)]}
  BY DEF CommitTransaction, Awaits, Advance, DeliveryOf
<1>6. CASE jobs' = jobs
  <2>1. CommittedHandlers' /\ OneAnnouncer'
    BY <1>2, <1>6 DEF IngestInv, CommittedHandlers, OneAnnouncer
  <2>2. OnlyValidProceed'
    BY <1>6 DEF IngestInv, OnlyValidProceed, CommitTransaction
  <2> QED
    BY <2>1, <2>2, <1>1, <1>2 DEF IngestInv, WrittenAtMostOnce, AckedIsDurable,
       NotifiedOnceAfterCommit, CommitTransaction, streamVars
<1>7. ASSUME NEW j \in jobs, j.pc = "await", j.msg = d.msg,
             jobs' = (jobs \ {j}) \union {[j EXCEPT !.pc = AfterPersist(j.msg)]}
      PROVE  IngestInv'
  <2> DEFINE n == [j EXCEPT !.pc = AfterPersist(j.msg)]
  <2>1. j \in Job
    OBVIOUS
  <2>2. n.msg = d.msg /\ n.pc \in {"notify", "ack"}
    BY <1>7, <2>1 DEF AfterPersist, Job
  <2>3. \A k \in jobs' : k = n \/ k \in jobs
    BY <1>7
  <2> HIDE DEF n
  <2>4. CommittedHandlers'
    BY <1>2, <2>2, <2>3 DEF IngestInv, CommittedHandlers
  <2>5. OneAnnouncer'
    <3>1. SUFFICES ASSUME NEW k \in jobs', k.pc = "notify"
                   PROVE  /\ notifications[CommandOf[k.msg]] = 0
                          /\ \A i \in jobs' : i.pc = "notify" /\ CommandOf[i.msg] = CommandOf[k.msg] => i = k
      BY <1>2 DEF OneAnnouncer
    <3>2. CASE k = n
      BY <1>3, <1>4, <2>2, <2>3, <3>2
    <3>3. CASE k \in jobs
      BY <1>3, <2>2, <2>3, <3>1, <3>3 DEF IngestInv, OneAnnouncer
    <3> QED
      BY <2>3, <3>2, <3>3
  <2>6. OnlyValidProceed'
    BY <1>1, <2>2, <2>3 DEF IngestInv, OnlyValidProceed, CommitTransaction
  <2> QED
    BY <1>1, <1>2, <2>4, <2>5, <2>6 DEF IngestInv, WrittenAtMostOnce, AckedIsDurable,
       NotifiedOnceAfterCommit, CommitTransaction, streamVars
<1> QED
  BY <1>5, <1>6, <1>7

\* The announcement: the handler is the only one about to announce its command,
\* nobody announced it before, and its command is in the ledger.
LEMMA PublishKeepsInv ==
    ASSUME TypeOK, IngestInv, NEW j \in jobs, PublishNotification(j)
    PROVE  IngestInv'
<1> DEFINE c == CommandOf[j.msg]
           n == [j EXCEPT !.pc = "ack"]
<1> USE IngestAssumption DEF TypeOK
<1>1. j \in Job /\ j.msg \in Messages /\ c \in Commands
  BY DEF Job
<1>2. j.pc = "notify" /\ c \in ledger /\ notifications[c] = 0
  BY DEF PublishNotification, IngestInv, CommittedHandlers, OneAnnouncer
<1>3. n.msg = j.msg /\ n.pc = "ack" /\ \A k \in jobs' : k = n \/ (k \in jobs /\ k # j)
  BY <1>1 DEF PublishNotification, Advance, Job
<1>4. UNCHANGED <<ledger, writes, tx, consumer>>
  BY DEF PublishNotification, streamVars, storeVars
<1>5. \A x \in Commands : x # c => notifications'[x] = notifications[x]
  BY <1>1 DEF PublishNotification
<1>6. notifications'[c] <= 1
  BY <1>1, <1>2 DEF PublishNotification
<1> HIDE DEF n
<1>7. CommittedHandlers'
  BY <1>2, <1>3, <1>4 DEF IngestInv, CommittedHandlers
<1>8. OneAnnouncer'
  <2>1. SUFFICES ASSUME NEW k \in jobs', k.pc = "notify"
                 PROVE  /\ notifications'[CommandOf[k.msg]] = 0
                        /\ \A i \in jobs' : i.pc = "notify" /\ CommandOf[i.msg] = CommandOf[k.msg] => i = k
    BY DEF OneAnnouncer
  <2>2. k \in jobs /\ k # j
    BY <1>3, <2>1
  <2>3. CommandOf[k.msg] # c /\ CommandOf[k.msg] \in Commands
    BY <1>2, <2>1, <2>2 DEF IngestInv, OneAnnouncer, Job
  <2> QED
    BY <1>3, <1>5, <2>1, <2>2, <2>3 DEF IngestInv, OneAnnouncer
<1>9. OnlyValidProceed'
  BY <1>2, <1>3, <1>4 DEF IngestInv, OnlyValidProceed
<1>10. WrittenAtMostOnce' /\ AckedIsDurable'
  BY <1>4 DEF IngestInv, WrittenAtMostOnce, AckedIsDurable
<1>11. NotifiedOnceAfterCommit'
  BY <1>2, <1>4, <1>5, <1>6 DEF IngestInv, NotifiedOnceAfterCommit
<1> QED
  BY <1>7, <1>8, <1>9, <1>10, <1>11 DEF IngestInv

\* An acknowledgement of m is quiet when m is invalid or its command durable.
LEMMA AckKeepsInv ==
    ASSUME TypeOK, IngestInv, NEW j \in jobs, Ack(j),
           j.msg \in Invalid \/ CommandOf[j.msg] \in ledger,
           UNCHANGED storeVars, UNCHANGED notifications
    PROVE  IngestInv'
<1>1. \A m \in Messages \ Invalid :
         consumer'[m] = "acked" => consumer[m] = "acked" \/ CommandOf[m] \in ledger
  BY DEF Ack, SettleMessage, TypeOK
<1> QED
  BY <1>1, QuietStep DEF Ack, storeVars, IngestInv, OnlyValidProceed

LEMMA NakKeepsInv ==
    ASSUME TypeOK, IngestInv, NEW j \in jobs, NakWithDelay(j),
           UNCHANGED storeVars, UNCHANGED notifications
    PROVE  IngestInv'
<1>1. \A m \in Messages : consumer'[m] = "acked" => consumer[m] = "acked"
  BY DEF NakWithDelay, SettleMessage, TypeOK
<1> QED
  BY <1>1, QuietStep DEF NakWithDelay, storeVars, IngestInv, OnlyValidProceed

\* One handler's step, whatever the other handlers and replicas are doing.
LEMMA HandlerKeepsInv ==
    ASSUME TypeOK, IngestInv, NEW j \in jobs, HandlerStep(j)
    PROVE  IngestInv'
<1> DEFINE moved(pc) == [j EXCEPT !.pc = pc]
<1>1. j \in Job
  BY DEF TypeOK
<1>2. \A pc \in Pc : moved(pc).msg = j.msg /\ moved(pc).pc = pc
  BY <1>1 DEF Job
<1>3. \A d \in tx : d.msg \notin Invalid
  BY DEF IngestInv, OnlyValidProceed
<1>4. CASE RejectInvalid(j)
  BY <1>4, AckKeepsInv DEF RejectInvalid
<1>5. CASE OperationReady(j)
  <2>1. PICK pc \in {"lookup", "send"} : jobs' = (jobs \ {j}) \union {moved(pc)}
    BY <1>5 DEF OperationReady, Advance
  <2>2. moved(pc).msg = j.msg /\ moved(pc).pc = pc /\ j.msg \notin Invalid
    BY <1>2, <1>5 DEF OperationReady, Pc
  <2>3. UNCHANGED <<consumer, tx, ledger, writes, notifications>>
    BY <1>5 DEF OperationReady, streamVars, storeVars
  <2> HIDE DEF moved
  <2> QED
    BY <1>3, <2>1, <2>2, <2>3, QuietStep
<1>6. CASE FailFast(j)
  BY <1>6, NakKeepsInv DEF FailFast
<1>7. CASE CommandExists(j)
  <2>1. CASE CommandOf[j.msg] \in ledger
    BY <1>7, <2>1, AckKeepsInv DEF CommandExists
  <2>2. CASE CommandOf[j.msg] \notin ledger
    <3>1. jobs' = (jobs \ {j}) \union {moved("persist")} /\ j.msg \notin Invalid
      BY <1>7, <2>2 DEF CommandExists, Advance, IngestInv, OnlyValidProceed
    <3> QED
      BY <1>2, <1>3, <1>7, <2>2, <3>1, QuietStep DEF CommandExists, storeVars, Pc
  <2> QED
    BY <2>1, <2>2
<1>8. CASE SendTransaction(j)
  <2>1. jobs' = (jobs \ {j}) \union {moved("await")} /\ j.msg \notin Invalid
    BY <1>8 DEF SendTransaction, Advance, IngestInv, OnlyValidProceed
  <2>2. \A d \in tx' : d.msg \notin Invalid
    BY <1>3, <1>8, <2>1 DEF SendTransaction, DeliveryOf
  <2> QED
    BY <1>2, <1>8, <2>1, <2>2, QuietStep DEF SendTransaction, streamVars, Pc
<1>9. CASE StorageUnavailable(j)
  BY <1>9, NakKeepsInv DEF StorageUnavailable
<1>10. CASE LoseReply(j)
  BY <1>10, NakKeepsInv DEF LoseReply
<1>11. CASE PublishNotification(j)
  BY <1>11, PublishKeepsInv
<1>12. CASE AckPersisted(j)
  <2>1. CommandOf[j.msg] \in ledger
    BY <1>12 DEF AckPersisted, IngestInv, CommittedHandlers
  <2> QED
    BY <1>12, <2>1, AckKeepsInv DEF AckPersisted
<1> QED
  BY <1>4, <1>5, <1>6, <1>7, <1>8, <1>9, <1>10, <1>11, <1>12 DEF HandlerStep

\* The invariant holds in every reachable state: no interleaving of
\* redeliveries, replicas, lost replies and crashes writes a command twice,
\* acknowledges an unwritten one, or announces one early or again.
THEOREM Safe == Spec => []IngestInv
<1>1. Init => IngestInv
  BY IngestAssumption DEF Init, IngestInv, CommittedHandlers, OneAnnouncer, OnlyValidProceed,
     WrittenAtMostOnce, AckedIsDurable, NotifiedOnceAfterCommit
<1>2. TypeOK /\ IngestInv /\ [Next]_vars => IngestInv'
  <2> SUFFICES ASSUME TypeOK, IngestInv, [Next]_vars PROVE IngestInv'
    OBVIOUS
  <2>1. \A d \in tx : d.msg \notin Invalid
    BY DEF IngestInv, OnlyValidProceed
  <2>2. ASSUME NEW m \in Messages, Publish(m) PROVE IngestInv'
    BY <2>1, <2>2, QuietStep DEF Publish, replicaVars, storeVars, TypeOK
  <2>3. ASSUME NEW m \in Messages, AckWaitExpires(m) PROVE IngestInv'
    BY <2>1, <2>3, QuietStep DEF AckWaitExpires, replicaVars, storeVars, TypeOK
  <2>4. ASSUME NEW m \in Messages, MaxDeliveryReached(m) PROVE IngestInv'
    BY <2>1, <2>4, QuietStep DEF MaxDeliveryReached, replicaVars, storeVars, TypeOK
  <2>5. ASSUME NEW d \in tx, CommitTransaction(d) PROVE IngestInv'
    BY <2>5, CommitKeepsInv
  <2>6. ASSUME NEW d \in tx, AbortTransaction(d) PROVE IngestInv'
    <3>1. \A m \in Messages : consumer'[m] = "acked" => consumer[m] = "acked"
      BY <2>6 DEF AbortTransaction, PersistError, NakWithDelay, SettleMessage, TypeOK
    <3>2. jobs' \subseteq jobs /\ tx' \subseteq tx
      BY <2>6 DEF AbortTransaction, PersistError, NakWithDelay
    <3> QED
      BY <2>1, <2>6, <3>1, <3>2, QuietStep DEF AbortTransaction
  <2>7. ASSUME NEW d \in tx, DropTransaction(d) PROVE IngestInv'
    BY <2>1, <2>7, QuietStep DEF DropTransaction, streamVars, replicaVars
  <2>8. ASSUME NEW r \in Replicas, NEW S \in SUBSET Messages, Fetch(r, S) PROVE IngestInv'
    BY <2>1, <2>8, QuietStep DEF Fetch, storeVars
  <2>9. ASSUME NEW r \in Replicas, NEW d \in batch[r], StartHandler(r, d) PROVE IngestInv'
    BY <2>1, <2>9, QuietStep DEF StartHandler, streamVars, storeVars
  <2>10. ASSUME NEW j \in jobs, HandlerStep(j) PROVE IngestInv'
    BY <2>10, HandlerKeepsInv
  <2>11. ASSUME NEW r \in Replicas, Process(r) PROVE IngestInv'
    <3>1. jobs' \subseteq jobs /\ UNCHANGED <<consumer, tx, ledger, writes, notifications>>
      BY <2>11 DEF Process, Start, CheckReadiness, Crash, streamVars, storeVars
    <3> QED
      BY <2>1, <3>1, QuietStep
  <2>12. CASE UNCHANGED vars
    BY <2>1, <2>12, QuietStep DEF vars
  <2> QED
    BY <2>2, <2>3, <2>4, <2>5, <2>6, <2>7, <2>8, <2>9, <2>10, <2>11, <2>12
       DEF Next, JetStream, SurrealDB, Consumer, JobsOf
<1> QED
  BY <1>1, <1>2, Typed, PTL DEF Spec

\* A command's telemetry is written exactly when its ingest_command row exists.
THEOREM WrittenOnce == Spec => []WrittenAtMostOnce
<1>1. IngestInv => WrittenAtMostOnce
  BY DEF IngestInv
<1> QED
  BY <1>1, Safe, PTL

\* No valid message is acknowledged before its command is durable.
THEOREM AckedDurable == Spec => []AckedIsDurable
<1>1. IngestInv => AckedIsDurable
  BY DEF IngestInv
<1> QED
  BY <1>1, Safe, PTL

\* The live notification follows the commit and is sent at most once.
THEOREM NotifiedOnce == Spec => []NotifiedOnceAfterCommit
<1>1. IngestInv => NotifiedOnceAfterCommit
  BY DEF IngestInv
<1> QED
  BY <1>1, Safe, PTL

--------------------------------------------------------------------------------
(* The refinement of the ledger *)

\* A step that leaves the ledger and the announcements alone, and settles no
\* message, stutters in the ledger.
LEMMA QuietInLedger ==
    ASSUME UNCHANGED <<ledger, notifications>>,
           \A m \in Messages : (consumer[m] \in {"acked", "terminal"} \/
                               consumer'[m] \in {"acked", "terminal"}) => consumer'[m] = consumer[m]
    PROVE  UNCHANGED Ledger!ledgerVars
<1>1. Settlement' = Settlement
  BY DEF Settlement
<1> QED
  BY <1>1 DEF Ledger!ledgerVars

\* Settling one message of the consumer settles it in the ledger.
LEMMA SettleInLedger ==
    ASSUME TypeOK, NEW m \in Unacked, NEW outcome \in {"acked", "terminal"},
           consumer' = [consumer EXCEPT ![m] = outcome]
    PROVE  /\ Settlement[m] = "open"
           /\ Settlement' = [Settlement EXCEPT ![m] = outcome]
  BY DEF TypeOK, Unacked, Settlement

LEMMA AckInLedger ==
    ASSUME TypeOK, NEW j \in jobs, Ack(j),
           j.msg \in Invalid \/ CommandOf[j.msg] \in ledger,
           UNCHANGED <<ledger, notifications>>
    PROVE  [Ledger!LedgerNext]_Ledger!ledgerVars
<1>1. CASE UNCHANGED consumer
  BY <1>1, QuietInLedger
<1>2. CASE j.msg \in Unacked /\ consumer' = [consumer EXCEPT ![j.msg] = "acked"]
  <2>1. j.msg \in Messages
    BY <1>2 DEF Unacked
  <2>2. Settlement[j.msg] = "open" /\ Settlement' = [Settlement EXCEPT ![j.msg] = "acked"]
    BY <1>2, SettleInLedger
  <2>3. Ledger!Acknowledge(j.msg)
    BY <2>2 DEF Ledger!Acknowledge
  <2> QED
    BY <2>1, <2>3 DEF Ledger!LedgerNext
<1> QED
  BY <1>1, <1>2 DEF Ack, SettleMessage

LEMMA NakInLedger ==
    ASSUME TypeOK, NEW j \in jobs, NakWithDelay(j), UNCHANGED <<ledger, notifications>>
    PROVE  UNCHANGED Ledger!ledgerVars
  BY QuietInLedger DEF NakWithDelay, SettleMessage, Unacked, TypeOK

\* Every handler step is an acknowledgement, an announcement or a stutter.
LEMMA HandlerInLedger ==
    ASSUME TypeOK, IngestInv, NEW j \in jobs, HandlerStep(j)
    PROVE  [Ledger!LedgerNext]_Ledger!ledgerVars
<1>1. CASE RejectInvalid(j)
  BY <1>1, AckInLedger DEF RejectInvalid, storeVars
<1>2. CASE OperationReady(j)
  BY <1>2, QuietInLedger DEF OperationReady, streamVars, storeVars
<1>3. CASE FailFast(j)
  BY <1>3, NakInLedger DEF FailFast, storeVars
<1>4. CASE CommandExists(j)
  <2>1. CASE CommandOf[j.msg] \in ledger
    BY <1>4, <2>1, AckInLedger DEF CommandExists, storeVars
  <2>2. CASE CommandOf[j.msg] \notin ledger
    BY <1>4, <2>2, QuietInLedger DEF CommandExists, storeVars
  <2> QED
    BY <2>1, <2>2
<1>5. CASE SendTransaction(j)
  BY <1>5, QuietInLedger DEF SendTransaction, streamVars
<1>6. CASE StorageUnavailable(j)
  BY <1>6, NakInLedger DEF StorageUnavailable, storeVars
<1>7. CASE LoseReply(j)
  BY <1>7, NakInLedger DEF LoseReply, storeVars
<1>8. CASE PublishNotification(j)
  <2> DEFINE c == CommandOf[j.msg]
             told == {x \in Commands : notifications[x] > 0}
  <2>1. c \in Commands /\ c \in ledger /\ notifications[c] = 0
    BY <1>8, IngestAssumption DEF PublishNotification, TypeOK, Job, IngestInv,
       CommittedHandlers, OneAnnouncer
  <2>2. UNCHANGED <<ledger, consumer>>
    BY <1>8 DEF PublishNotification, streamVars, storeVars
  <2>3. CASE UNCHANGED notifications
    BY <2>2, <2>3, QuietInLedger
  <2>4. CASE notifications' = [notifications EXCEPT ![c] = @ + 1]
    <3>1. told' = told \union {c} /\ c \notin told
      BY <2>1, <2>4 DEF TypeOK
    <3>2. Settlement' = Settlement
      BY <2>2 DEF Settlement
    <3>3. Ledger!Announce(c)
      BY <2>1, <2>2, <3>1, <3>2 DEF Ledger!Announce
    <3> QED
      BY <2>1, <3>3 DEF Ledger!LedgerNext
  <2> QED
    BY <1>8, <2>3, <2>4 DEF PublishNotification
<1>9. CASE AckPersisted(j)
  <2>1. CommandOf[j.msg] \in ledger
    BY <1>9 DEF AckPersisted, IngestInv, CommittedHandlers
  <2> QED
    BY <1>9, <2>1, AckInLedger DEF AckPersisted, storeVars
<1> QED
  BY <1>1, <1>2, <1>3, <1>4, <1>5, <1>6, <1>7, <1>8, <1>9 DEF HandlerStep

\* The pipeline of replicas, redeliveries and crashes implements the ledger:
\* written once, announced at most once after the write, acknowledged only
\* when invalid or written.
THEOREM Implements == Spec => ImplementsLedger
<1>1. Init => Ledger!LedgerInit
  BY IngestAssumption DEF Init, Ledger!LedgerInit, Settlement
<1>2. TypeOK /\ IngestInv /\ [Next]_vars => [Ledger!LedgerNext]_Ledger!ledgerVars
  <2> SUFFICES ASSUME TypeOK, IngestInv, [Next]_vars
               PROVE  [Ledger!LedgerNext]_Ledger!ledgerVars
    OBVIOUS
  <2>1. ASSUME NEW m \in Messages, Publish(m) PROVE UNCHANGED Ledger!ledgerVars
    BY <2>1, QuietInLedger DEF Publish, storeVars, TypeOK
  <2>2. ASSUME NEW m \in Messages, AckWaitExpires(m) PROVE UNCHANGED Ledger!ledgerVars
    BY <2>2, QuietInLedger DEF AckWaitExpires, storeVars, TypeOK
  <2>3. ASSUME NEW m \in Messages, MaxDeliveryReached(m)
        PROVE  [Ledger!LedgerNext]_Ledger!ledgerVars
    <3>1. Settlement[m] = "open" /\ Settlement' = [Settlement EXCEPT ![m] = "terminal"]
      BY <2>3, SettleInLedger DEF MaxDeliveryReached, Unacked
    <3>2. Ledger!GiveUp(m)
      BY <2>3, <3>1 DEF MaxDeliveryReached, storeVars, Ledger!GiveUp
    <3> QED
      BY <3>2 DEF Ledger!LedgerNext
  <2>4. ASSUME NEW d \in tx, CommitTransaction(d)
        PROVE  [Ledger!LedgerNext]_Ledger!ledgerVars
    <3>1. d.msg \in Messages /\ d.msg \notin Invalid /\ CommandOf[d.msg] \in Commands
      BY IngestAssumption DEF TypeOK, Delivery, IngestInv, OnlyValidProceed
    <3>2. UNCHANGED <<consumer, notifications>>
      BY <2>4 DEF CommitTransaction, streamVars
    <3>3. Settlement' = Settlement
      BY <3>2 DEF Settlement
    <3>4. Ledger!Write(CommandOf[d.msg])
      BY <2>4, <3>1, <3>2, <3>3 DEF CommitTransaction, CreateSucceeds, Ledger!Write, Ledger!ValidCommands
    <3> QED
      BY <3>1, <3>4 DEF Ledger!LedgerNext
  <2>5. ASSUME NEW d \in tx, AbortTransaction(d) PROVE UNCHANGED Ledger!ledgerVars
    <3>1. CASE UNCHANGED <<jobs, consumer>>
      BY <2>5, <3>1, QuietInLedger DEF AbortTransaction
    <3>2. ASSUME NEW j \in jobs, NakWithDelay(j) PROVE UNCHANGED Ledger!ledgerVars
      BY <2>5, <3>2, NakInLedger DEF AbortTransaction, PersistError
    <3> QED
      BY <2>5, <3>1, <3>2 DEF AbortTransaction, PersistError
  <2>6. ASSUME NEW d \in tx, DropTransaction(d) PROVE UNCHANGED Ledger!ledgerVars
    BY <2>6, QuietInLedger DEF DropTransaction, streamVars
  <2>7. ASSUME NEW r \in Replicas, NEW S \in SUBSET Messages, Fetch(r, S)
        PROVE  UNCHANGED Ledger!ledgerVars
    BY <2>7, QuietInLedger DEF Fetch, Deliverable, storeVars
  <2>8. ASSUME NEW r \in Replicas, NEW d \in batch[r], StartHandler(r, d)
        PROVE  UNCHANGED Ledger!ledgerVars
    BY <2>8, QuietInLedger DEF StartHandler, streamVars, storeVars
  <2>9. ASSUME NEW j \in jobs, HandlerStep(j)
        PROVE  [Ledger!LedgerNext]_Ledger!ledgerVars
    BY <2>9, HandlerInLedger
  <2>10. ASSUME NEW r \in Replicas, Process(r) PROVE UNCHANGED Ledger!ledgerVars
    BY <2>10, QuietInLedger DEF Process, Start, CheckReadiness, Crash, streamVars, storeVars
  <2>11. CASE UNCHANGED vars
    BY <2>11, QuietInLedger DEF vars
  <2> QED
    BY <2>1, <2>2, <2>3, <2>4, <2>5, <2>6, <2>7, <2>8, <2>9, <2>10, <2>11
       DEF Next, JetStream, SurrealDB, Consumer, JobsOf
<1> QED
  BY <1>1, <1>2, Typed, Safe, PTL DEF Spec, ImplementsLedger, Ledger!LedgerSpec
================================================================================
