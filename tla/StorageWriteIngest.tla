-------------------------- MODULE StorageWriteIngest --------------------------
(***************************************************************************)
(* The durable ingest path of core/storage-write: replicas of the service  *)
(* pull the shared JetStream consumer "storage-write", run the handler on  *)
(* each delivery, and persist one command per SurrealDB transaction whose  *)
(* last statement creates the ingest_command row.                          *)
(*                                                                         *)
(* The three handlers (telemetry, metrics, AI projections) run the same    *)
(* steps; only the trace and AI projection handlers publish a notification.*)
(* Contents of a command are abstracted away: two commands differ only in  *)
(* their commandId.                                                        *)
(***************************************************************************)
EXTENDS Naturals, FiniteSets

CONSTANTS
    Messages,       \* messages of the TELEMETRY_INGEST stream
    Commands,       \* values of commandId
    CommandOf,      \* the command a message carries
    Invalid,        \* messages the decoder or the validator rejects
    Notifies,       \* messages whose handler publishes a notification
    Replicas,       \* storage-write processes
    MaxDeliver,     \* JetStream's delivery limit (5 in the code)
    MaxAckPending,  \* bound on unacknowledged deliveries (1000 in the code)
    PullBatchSize,  \* messages per Fetch (100 in the code)
    Concurrency,    \* handler goroutines per replica (4 in the code)
    MaxCrashes      \* bound on replica crashes in one behaviour

ASSUME IngestAssumption ==
    /\ CommandOf \in [Messages -> Commands]
    /\ Invalid \subseteq Messages
    /\ Notifies \subseteq Messages
    /\ MaxDeliver \in Nat \ {0}
    /\ MaxAckPending \in Nat \ {0}
    /\ PullBatchSize \in Nat \ {0}
    /\ Concurrency \in Nat \ {0}
    /\ MaxCrashes \in Nat

VARIABLES
    consumer,       \* JetStream's state for each message
    numDelivered,   \* how often each message was delivered
    batch,          \* per replica: fetched deliveries no goroutine has taken
    jobs,           \* deliveries being handled
    tx,             \* transactions sent to SurrealDB and not executed yet
    ledger,         \* commands with an ingest_command row
    writes,         \* how often a command's telemetry was written
    notifications,  \* persisted notifications published per command
    status,         \* per replica: process and storage client state
    crashes         \* crashes so far, at most MaxCrashes

streamVars == <<consumer, numDelivered>>
replicaVars == <<batch, jobs, status>>
storeVars == <<tx, ledger, writes>>
vars == <<consumer, numDelivered, batch, jobs, tx, ledger, writes,
          notifications, status, crashes>>

--------------------------------------------------------------------------------
(* Types *)

\* One delivery of a message; attempt is the delivery counter of its metadata.
Delivery == [msg : Messages, attempt : 1..MaxDeliver]

\* Where the handler of a delivery stands: before CommandExists, waiting for the
\* connection to run it, before Persist, waiting for the connection to send its
\* transaction, waiting for the reply, before the notification, before the Ack.
Pc == {"check", "lookup", "persist", "send", "await", "notify", "ack"}

Job == [replica : Replicas, msg : Messages, attempt : 1..MaxDeliver, pc : Pc]

ConsumerState == {"unpublished", "new", "pending", "redeliver", "acked", "terminal"}

TypeOK ==
    /\ consumer \in [Messages -> ConsumerState]
    /\ numDelivered \in [Messages -> 0..MaxDeliver]
    /\ batch \in [Replicas -> SUBSET Delivery]
    /\ jobs \in SUBSET Job
    /\ tx \in SUBSET Delivery
    /\ ledger \in SUBSET Commands
    /\ writes \in [Commands -> Nat]
    /\ notifications \in [Commands -> Nat]
    /\ status \in [Replicas -> {"stopped", "ready", "degraded"}]
    /\ crashes \in 0..MaxCrashes

Init ==
    /\ consumer = [m \in Messages |-> "unpublished"]
    /\ numDelivered = [m \in Messages |-> 0]
    /\ batch = [r \in Replicas |-> {}]
    /\ jobs = {}
    /\ tx = {}
    /\ ledger = {}
    /\ writes = [c \in Commands |-> 0]
    /\ notifications = [c \in Commands |-> 0]
    /\ status = [r \in Replicas |-> "stopped"]
    /\ crashes = 0

--------------------------------------------------------------------------------
(* The JetStream stream and its durable consumer *)

Unacked == {m \in Messages : consumer[m] \in {"pending", "redeliver"}}
JobsOf(r) == {j \in jobs : j.replica = r}
DeliveryOf(j) == [msg |-> j.msg, attempt |-> j.attempt]

\* The collector, or an operator who requeues a command, stores a message.
Publish(m) ==
    /\ consumer[m] = "unpublished"
    /\ consumer' = [consumer EXCEPT ![m] = "new"]
    /\ UNCHANGED <<numDelivered, replicaVars, storeVars, notifications, crashes>>

\* Mutant: the consumer has no delivery limit.
DeliverableForever(m) == consumer[m] \in {"new", "redeliver"}

Deliverable(m) == consumer[m] \in {"new", "redeliver"} /\ numDelivered[m] < MaxDeliver

\* A pull request is answered.  Messages due for redelivery stay within
\* MaxAckPending because they are already counted; new ones are not.
Fetch(r, S) ==
    /\ status[r] # "stopped"
    /\ batch[r] = {} /\ JobsOf(r) = {}
    /\ S # {} /\ Cardinality(S) <= PullBatchSize
    /\ \A m \in S : Deliverable(m)
    /\ Cardinality(Unacked \union S) <= MaxAckPending
    /\ consumer' = [m \in Messages |-> IF m \in S THEN "pending" ELSE consumer[m]]
    /\ numDelivered' = [m \in Messages |->
                          IF m \in S THEN numDelivered[m] + 1 ELSE numDelivered[m]]
    /\ batch' = [batch EXCEPT ![r] =
                   {[msg |-> m, attempt |-> numDelivered[m] + 1] : m \in S}]
    /\ UNCHANGED <<jobs, status, storeVars, notifications, crashes>>

\* AckWait passes without an acknowledgement, whatever the handler is doing.
AckWaitExpires(m) ==
    /\ consumer[m] = "pending"
    /\ consumer' = [consumer EXCEPT ![m] = "redeliver"]
    /\ UNCHANGED <<numDelivered, replicaVars, storeVars, notifications, crashes>>

\* JetStream gives up on a message and publishes the advisory, which
\* HandleMaxDeliveryAdvisory only logs.
MaxDeliveryReached(m) ==
    /\ consumer[m] = "redeliver"
    /\ numDelivered[m] = MaxDeliver
    /\ consumer' = [consumer EXCEPT ![m] = "terminal"]
    /\ UNCHANGED <<numDelivered, replicaVars, storeVars, notifications, crashes>>

\* Mutant: an acknowledgement also revives a message JetStream gave up on.
SettleAgain(m, outcome) ==
    \/ consumer' = [consumer EXCEPT ![m] = outcome]
    \/ UNCHANGED consumer

\* The effect of a handler's last call.  It may be lost: the handlers drop the
\* error of Ack and NakWithDelay.  JetStream accepts an acknowledgement of any
\* delivery of a message that is not settled yet.
SettleMessage(m, outcome) ==
    \/ /\ m \in Unacked
       /\ consumer' = [consumer EXCEPT ![m] = outcome]
    \/ UNCHANGED consumer

Ack(j) == SettleMessage(j.msg, "acked") /\ jobs' = jobs \ {j}

\* Mutant: a failed storage call acknowledges the message.
AckOnFailure(j) == Ack(j)

NakWithDelay(j) == SettleMessage(j.msg, "redeliver") /\ jobs' = jobs \ {j}
Advance(j, pc) == jobs' = (jobs \ {j}) \union {[j EXCEPT !.pc = pc]}

--------------------------------------------------------------------------------
(* The message handlers *)

\* A free slot of the semaphore takes a fetched delivery.
StartHandler(r, d) ==
    /\ d \in batch[r]
    /\ Cardinality(JobsOf(r)) < Concurrency
    /\ batch' = [batch EXCEPT ![r] = @ \ {d}]
    /\ jobs' = jobs \union {[replica |-> r, msg |-> d.msg,
                             attempt |-> d.attempt, pc |-> "check"]}
    /\ UNCHANGED <<streamVars, storeVars, notifications, status, crashes>>

\* A command that does not decode or validate is acknowledged: no retry helps.
RejectInvalid(j) ==
    /\ j \in jobs /\ j.pc = "check" /\ j.msg \in Invalid
    /\ Ack(j)
    /\ UNCHANGED <<numDelivered, batch, storeVars, notifications, status, crashes>>

\* operationReady is read before the wait for the connection, and not again.
OperationReady(j) ==
    /\ j \in jobs /\ j.msg \notin Invalid
    /\ status[j.replica] = "ready"
    /\ \/ j.pc = "check" /\ Advance(j, "lookup")
       \/ j.pc = "persist" /\ Advance(j, "send")
    /\ UNCHANGED <<streamVars, batch, storeVars, notifications, status, crashes>>

\* While the client is degraded CommandExists and Persist fail at once.
FailFast(j) ==
    /\ j \in jobs /\ j.pc \in {"check", "persist"} /\ j.msg \notin Invalid
    /\ status[j.replica] = "degraded"
    /\ NakWithDelay(j)
    /\ UNCHANGED <<numDelivered, batch, storeVars, notifications, status, crashes>>

\* Mutant: a call waiting for the connection counts as holding it.
LockFreeOfWaiters(r) == \A j \in JobsOf(r) : j.pc \notin {"send", "await"}

\* The SDK connection is single-slot: one storage call of a replica at a time.
LockFree(r) == \A j \in JobsOf(r) : j.pc # "await"

\* CommandExists answers.
CommandExists(j) ==
    /\ j \in jobs /\ j.pc = "lookup" /\ LockFree(j.replica)
    /\ IF CommandOf[j.msg] \in ledger
         THEN Ack(j)
         ELSE Advance(j, "persist") /\ UNCHANGED consumer
    /\ UNCHANGED <<numDelivered, batch, storeVars, notifications, status, crashes>>

\* Persist sends its transaction and holds the connection until the reply.
SendTransaction(j) ==
    /\ j \in jobs /\ j.pc = "send" /\ LockFree(j.replica)
    /\ tx' = tx \union {DeliveryOf(j)}
    /\ Advance(j, "await")
    /\ UNCHANGED <<streamVars, batch, ledger, writes, notifications, status, crashes>>

Degrade(r) == status' = [status EXCEPT ![r] = "degraded"]

\* CommandExists, or Persist before its transaction is sent, fails: SurrealDB is
\* unreachable or slow, which degrades the client, or it answers with an error.
StorageUnavailable(j) ==
    /\ j \in jobs /\ j.pc \in {"lookup", "send"} /\ LockFree(j.replica)
    /\ Degrade(j.replica) \/ UNCHANGED status
    /\ NakWithDelay(j)
    /\ UNCHANGED <<numDelivered, batch, storeVars, notifications, crashes>>

\* The connection breaks or times out under a transaction: the handler sees a
\* retryable error although the transaction may still execute.
LoseReply(j) ==
    /\ j \in jobs /\ j.pc = "await"
    /\ Degrade(j.replica)
    /\ NakWithDelay(j)
    /\ UNCHANGED <<numDelivered, batch, storeVars, notifications, crashes>>

\* A failed publish of the notification is only logged.
PublishNotification(j) ==
    /\ j \in jobs /\ j.pc = "notify"
    /\ \/ notifications' = [notifications EXCEPT ![CommandOf[j.msg]] = @ + 1]
       \/ UNCHANGED notifications
    /\ Advance(j, "ack")
    /\ UNCHANGED <<streamVars, batch, storeVars, status, crashes>>

AckPersisted(j) ==
    /\ j \in jobs /\ j.pc = "ack"
    /\ Ack(j)
    /\ UNCHANGED <<numDelivered, batch, storeVars, notifications, status, crashes>>

--------------------------------------------------------------------------------
(* SurrealDB *)

Awaits(j, d) == j.pc = "await" /\ DeliveryOf(j) = d

\* The handler that sent d gave up or died: nobody takes the reply.
Abandoned(d) == \A j \in jobs : ~Awaits(j, d)

AfterPersist(m) == IF m \in Notifies THEN "notify" ELSE "ack"

\* Mutant: the ingest_command row is upserted like the telemetry.
UpsertSucceeds(c) == TRUE

CreateSucceeds(c) == c \notin ledger

\* The statements before the last one upsert telemetry; CREATE of the
\* ingest_command row fails when the row is there, so nothing is written twice.
CommitTransaction(d) ==
    /\ d \in tx
    /\ CreateSucceeds(CommandOf[d.msg])
    /\ tx' = tx \ {d}
    /\ ledger' = ledger \union {CommandOf[d.msg]}
    /\ writes' = [writes EXCEPT ![CommandOf[d.msg]] = @ + 1]
    /\ \/ \E j \in jobs : Awaits(j, d) /\ Advance(j, AfterPersist(j.msg))
       \/ Abandoned(d) /\ UNCHANGED jobs
    /\ UNCHANGED <<streamVars, batch, notifications, status, crashes>>

\* Mutant: the handler drops the error of a cancelled transaction.
PersistErrorDropped(j) == Advance(j, AfterPersist(j.msg)) /\ UNCHANGED consumer

PersistError(j) == NakWithDelay(j)

\* SurrealDB cancels the transaction: the row exists or two transactions
\* conflict.  The error is not a connection error, so the client stays ready.
AbortTransaction(d) ==
    /\ d \in tx
    /\ tx' = tx \ {d}
    /\ \/ \E j \in jobs : Awaits(j, d) /\ PersistError(j)
       \/ Abandoned(d) /\ UNCHANGED <<jobs, consumer>>
    /\ UNCHANGED <<numDelivered, batch, ledger, writes, notifications, status, crashes>>

\* A transaction cut off with its connection may never reach the server.
DropTransaction(d) ==
    /\ d \in tx /\ Abandoned(d)
    /\ tx' = tx \ {d}
    /\ UNCHANGED <<streamVars, replicaVars, ledger, writes, notifications, crashes>>

--------------------------------------------------------------------------------
(* Processes *)

\* Startup connects, initializes the schema, ensures the stream and the
\* consumer, and exits when any of these fails.
Start(r) ==
    /\ status[r] = "stopped"
    /\ status' = [status EXCEPT ![r] = "ready"]
    /\ UNCHANGED <<streamVars, batch, jobs, storeVars, notifications, crashes>>

\* The readiness probe is the only way back from a degraded client.  It waits
\* one second for the connection: a transaction that holds it longer degrades
\* the client although SurrealDB is healthy.
CheckReadiness(r) ==
    /\ status[r] # "stopped"
    /\ \/ LockFree(r) /\ status' = [status EXCEPT ![r] = "ready"]
       \/ Degrade(r)
    /\ UNCHANGED <<streamVars, batch, jobs, storeVars, notifications, crashes>>

\* The process dies, or RunConsumer returns and main exits.
Crash(r) ==
    /\ status[r] # "stopped" /\ crashes < MaxCrashes
    /\ status' = [status EXCEPT ![r] = "stopped"]
    /\ batch' = [batch EXCEPT ![r] = {}]
    /\ jobs' = jobs \ JobsOf(r)
    /\ crashes' = crashes + 1
    /\ UNCHANGED <<streamVars, storeVars, notifications>>

--------------------------------------------------------------------------------
(* The specification *)

JetStream == \E m \in Messages : AckWaitExpires(m) \/ MaxDeliveryReached(m)

SurrealDB ==
    \E d \in tx : CommitTransaction(d) \/ AbortTransaction(d) \/ DropTransaction(d)

HandlerStep(j) ==
    \/ RejectInvalid(j) \/ OperationReady(j) \/ FailFast(j) \/ CommandExists(j)
    \/ SendTransaction(j) \/ StorageUnavailable(j) \/ LoseReply(j)
    \/ PublishNotification(j) \/ AckPersisted(j)

Consumer(r) ==
    \/ \E S \in SUBSET Messages : Fetch(r, S)
    \/ \E d \in batch[r] : StartHandler(r, d)
    \/ \E j \in JobsOf(r) : HandlerStep(j)

Process(r) == Start(r) \/ CheckReadiness(r) \/ Crash(r)

Next ==
    \/ \E m \in Messages : Publish(m)
    \/ JetStream
    \/ SurrealDB
    \/ \E r \in Replicas : Consumer(r) \/ Process(r)

Spec == Init /\ [][Next]_vars

\* JetStream's timers fire, SurrealDB answers or fails every call, supervised
\* replicas restart, and RunConsumer's loop keeps fetching and handling.
\* Nothing is assumed of the readiness probe.
Fairness ==
    /\ WF_vars(JetStream) /\ WF_vars(SurrealDB)
    /\ \A r \in Replicas : WF_vars(Start(r)) /\ WF_vars(Consumer(r))

FairSpec == Spec /\ Fairness

--------------------------------------------------------------------------------
(* Properties *)

\* Telemetry of a command is written at most once, and exactly when its
\* ingest_command row exists, however often and wherever it is redelivered:
\* two handlers that both saw CommandExists = false cannot both write.
WrittenAtMostOnce ==
    \A c \in Commands : writes[c] = IF c \in ledger THEN 1 ELSE 0

\* A valid message leaves the consumer by acknowledgement only after its
\* command is durable: no Ack path runs ahead of the transaction.
AckedIsDurable ==
    \A m \in Messages \ Invalid : consumer[m] = "acked" => CommandOf[m] \in ledger

\* The volatile notification never precedes the commit and is never repeated:
\* a redelivery of a persisted command is acknowledged without announcing it.
NotifiedOnceAfterCommit ==
    \A c \in Commands : notifications[c] <= IF c \in ledger THEN 1 ELSE 0

\* Every message the stream stores is settled in the end: no delivery is stuck
\* in a handler, behind the connection lock or behind a degraded client.
EveryMessageSettles ==
    \A m \in Messages :
        consumer[m] = "new" ~> consumer[m] \in {"acked", "terminal"}

\* Why the three invariants above hold.  Only a handler whose transaction
\* committed comes after "await"; at most one handler of a command is about to
\* announce it, and nobody announced it before; what is rejected never gets
\* past the checks, so no acknowledgement of a valid message is a rejection.
CommittedHandlers ==
    \A j \in jobs : j.pc \in {"notify", "ack"} => CommandOf[j.msg] \in ledger

OneAnnouncer ==
    \A j \in jobs : j.pc = "notify" =>
        /\ notifications[CommandOf[j.msg]] = 0
        /\ \A k \in jobs : k.pc = "notify" /\ CommandOf[k.msg] = CommandOf[j.msg] => k = j

OnlyValidProceed ==
    /\ \A j \in jobs : j.pc # "check" => j.msg \notin Invalid
    /\ \A d \in tx : d.msg \notin Invalid

IngestInv ==
    /\ CommittedHandlers /\ OneAnnouncer /\ OnlyValidProceed
    /\ WrittenAtMostOnce /\ AckedIsDurable /\ NotifiedOnceAfterCommit

\* The detailed specification implements the ledger's promise.
Settlement == [m \in Messages |->
                 IF consumer[m] \in {"acked", "terminal"} THEN consumer[m] ELSE "open"]

Ledger == INSTANCE PersistLedger WITH
            written <- ledger,
            announced <- {c \in Commands : notifications[c] > 0},
            settled <- Settlement

\* Every step of the pipeline is a step of the ledger or changes nothing in it.
ImplementsLedger == Ledger!LedgerSpec
================================================================================
