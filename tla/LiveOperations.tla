----------------------------- MODULE LiveOperations -----------------------------
(***************************************************************************)
(* apps/backend: the GraphQL operations of one WebSocket, and the live     *)
(* trace generator behind each.                                            *)
(*                                                                         *)
(* Messages are handled one at a time up to their first await.  A          *)
(* subscribe waits for authentication before its operation is registered;  *)
(* then a loop pulls payloads from a generator, which starts the live      *)
(* session in storage-read, waits for events and stops the session when it *)
(* ends.  return() on the generator closes its queue at once and takes     *)
(* effect when the await in progress is over.                              *)
(*                                                                         *)
(* Operation ids are those of the client library, a new one for each       *)
(* operation.  Storage-read is reduced to whether a session is registered; *)
(* LiveTraces models it.                                                   *)
(***************************************************************************)
EXTENDS Naturals, FiniteSets

CONSTANTS
    Operations,
    MaxOperations,
    MaxEvents           \* bound on the payloads forwarded for an operation

ASSUME OperationsAssumption == MaxOperations \in Nat \ {0} /\ MaxEvents \in Nat

VARIABLES
    socket,
    shuttingDown,
    wanted,         \* what the client wants of each operation
    operations,     \* socket.data.operations
    task,           \* the handleMessage of each subscribe
    generator,      \* subscribeLiveTraces of each operation
    returned,       \* operations whose iterator was returned
    session,        \* storage-read's side of each operation
    stopSent,       \* number of stop requests sent for each operation
    forwarded       \* number of "next" messages sent for each operation

socketVars == <<socket, shuttingDown, wanted, operations, task, generator, returned, session, stopSent, forwarded>>

Tasks == {"none", "authenticating", "streaming", "finished"}
Generators == {"none", "starting", "waiting", "stopping", "done"}
Sessions == {"none", "requested", "registered", "refused", "stopped"}

\* One stop request at most for each operation.
SocketTypeOK ==
    /\ socket \in {"open", "closing", "closed"}
    /\ shuttingDown \in BOOLEAN
    /\ wanted \in [Operations -> {"new", "subscribed", "completed"}]
    /\ operations \subseteq Operations
    /\ task \in [Operations -> Tasks]
    /\ generator \in [Operations -> Generators]
    /\ returned \subseteq Operations
    /\ session \in [Operations -> Sessions]
    /\ stopSent \in [Operations -> {0, 1}]
    /\ forwarded \in [Operations -> 0 .. MaxEvents]

SocketInit ==
    /\ socket = "open" /\ shuttingDown = FALSE
    /\ wanted = [o \in Operations |-> "new"]
    /\ operations = {} /\ returned = {}
    /\ stopSent = [o \in Operations |-> 0]
    /\ task = [o \in Operations |-> "none"]
    /\ generator = [o \in Operations |-> "none"]
    /\ session = [o \in Operations |-> "none"]
    /\ forwarded = [o \in Operations |-> 0]

--------------------------------------------------------------------------------
(* Messages of the client *)

SocketAtLimit == Cardinality(operations) >= MaxOperations

Subscribe(o) ==
    /\ socket = "open" /\ wanted[o] = "new"
    /\ wanted' = [wanted EXCEPT ![o] = "subscribed"]
    /\ IF shuttingDown \/ SocketAtLimit
         THEN socket' = "closing" /\ UNCHANGED task
         ELSE task' = [task EXCEPT ![o] = "authenticating"] /\ UNCHANGED socket
    /\ UNCHANGED <<shuttingDown, operations, generator, returned, session, stopSent, forwarded>>

\* Mutant: complete forgets the operation without returning its iterator.
CompleteForgets(o) ==
    /\ socket = "open" /\ wanted[o] = "subscribed"
    /\ wanted' = [wanted EXCEPT ![o] = "completed"]
    /\ operations' = operations \ {o}
    /\ UNCHANGED <<socket, shuttingDown, task, generator, returned, session, stopSent, forwarded>>

\* complete returns the iterator of the operation, if it is registered.
Complete(o) ==
    /\ socket = "open" /\ wanted[o] = "subscribed"
    /\ wanted' = [wanted EXCEPT ![o] = "completed"]
    /\ IF shuttingDown
         THEN socket' = "closing" /\ UNCHANGED <<operations, returned>>
         ELSE /\ operations' = operations \ {o}
              /\ returned' = returned \union (operations \intersect {o})
              /\ UNCHANGED socket
    /\ UNCHANGED <<shuttingDown, task, generator, session, stopSent, forwarded>>

CleanupSocketOperations ==
    /\ operations' = {}
    /\ returned' = returned \union operations

\* The client disconnects, or the server closed the socket.
CloseSocket ==
    /\ socket # "closed"
    /\ socket' = "closed"
    /\ CleanupSocketOperations
    /\ UNCHANGED <<shuttingDown, wanted, task, generator, session, stopSent, forwarded>>

\* A shutdown cleans up the sockets that are not closed yet.
Shutdown ==
    /\ ~shuttingDown
    /\ shuttingDown' = TRUE
    /\ IF socket = "closed" THEN UNCHANGED <<operations, returned>> ELSE CleanupSocketOperations
    /\ UNCHANGED <<socket, wanted, task, generator, session, stopSent, forwarded>>

--------------------------------------------------------------------------------
(* The rest of handleMessage *)

\* subscribe() resolves: the loop's first next() runs the generator up to its start request.
RegisterOperation(o) ==
    /\ task[o] = "authenticating"
    /\ task' = [task EXCEPT ![o] = "streaming"]
    /\ operations' = operations \union {o}
    /\ generator' = [generator EXCEPT ![o] = "starting"]
    /\ session' = [session EXCEPT ![o] = "requested"]
    /\ UNCHANGED <<socket, shuttingDown, wanted, returned, stopSent, forwarded>>

RejectOperation(o) ==
    /\ task[o] = "authenticating"
    /\ task' = [task EXCEPT ![o] = "finished"]
    /\ UNCHANGED <<socket, shuttingDown, wanted, operations, generator, returned, session, stopSent, forwarded>>

\* The generator ends: it closes its queue and sink, and sends the stop request.
StopSession(o) ==
    /\ generator' = [generator EXCEPT ![o] = "stopping"]
    /\ stopSent' = [stopSent EXCEPT ![o] = @ + 1]

\* A payload is sent if the operation is still registered, else the loop returns.
ForwardPayload(o) ==
    /\ task[o] = "streaming" /\ generator[o] = "waiting" /\ session[o] = "registered"
    /\ \/ /\ o \in operations /\ forwarded[o] < MaxEvents
          /\ forwarded' = [forwarded EXCEPT ![o] = @ + 1]
          /\ UNCHANGED <<generator, stopSent>>
       \/ /\ o \notin operations
          /\ StopSession(o)
          /\ UNCHANGED forwarded
    /\ UNCHANGED <<socket, shuttingDown, wanted, operations, task, returned, session>>

\* Mutant: the loop ends without taking its operation off the map.
FinishKeepsOperation(o) ==
    /\ task[o] = "streaming" /\ generator[o] = "done"
    /\ task' = [task EXCEPT ![o] = "finished"]
    /\ UNCHANGED <<socket, shuttingDown, wanted, operations, generator, returned, session, stopSent, forwarded>>

\* The loop ends with its generator, by complete or by error.
FinishOperation(o) ==
    /\ task[o] = "streaming" /\ generator[o] = "done"
    /\ task' = [task EXCEPT ![o] = "finished"]
    /\ operations' = operations \ {o}
    /\ UNCHANGED <<socket, shuttingDown, wanted, generator, returned, session, stopSent, forwarded>>

--------------------------------------------------------------------------------
(* The generator *)

StartAnswered(o) ==
    /\ generator[o] = "starting" /\ session[o] = "registered"
    /\ generator' = [generator EXCEPT ![o] = "waiting"]
    /\ UNCHANGED <<socket, shuttingDown, wanted, operations, task, returned, session, stopSent, forwarded>>

\* The start request times out or is refused: nothing was started, so nothing is stopped.
StartFails(o) ==
    /\ generator[o] = "starting"
    /\ generator' = [generator EXCEPT ![o] = "done"]
    /\ UNCHANGED <<socket, shuttingDown, wanted, operations, task, returned, session, stopSent, forwarded>>

\* Mutant: return() stops the session, also when the generator is stopping it.
QueueClosedAnyTime(o) ==
    /\ generator[o] \in {"waiting", "stopping"} /\ o \in returned
    /\ StopSession(o)
    /\ UNCHANGED <<socket, shuttingDown, wanted, operations, task, returned, session, forwarded>>

\* return() closed the queue, which wakes its reader.
QueueClosed(o) ==
    /\ generator[o] = "waiting" /\ o \in returned
    /\ StopSession(o)
    /\ UNCHANGED <<socket, shuttingDown, wanted, operations, task, returned, session, forwarded>>

\* No event arrived before the deadline.
WatchdogFires(o) ==
    /\ generator[o] = "waiting"
    /\ StopSession(o)
    /\ UNCHANGED <<socket, shuttingDown, wanted, operations, task, returned, session, forwarded>>

\* The stop request was answered, or failed and was logged.
StopAnswered(o) ==
    /\ generator[o] = "stopping"
    /\ generator' = [generator EXCEPT ![o] = "done"]
    /\ UNCHANGED <<socket, shuttingDown, wanted, operations, task, returned, session, stopSent, forwarded>>

\* storage-read handles a start, whether or not the BFF still waits for it.
SessionStarts(o) ==
    /\ session[o] = "requested"
    /\ \E answer \in {"registered", "refused"} : session' = [session EXCEPT ![o] = answer]
    /\ UNCHANGED <<socket, shuttingDown, wanted, operations, task, generator, returned, stopSent, forwarded>>

SessionStops(o) ==
    /\ session[o] = "registered" /\ stopSent[o] > 0
    /\ session' = [session EXCEPT ![o] = "stopped"]
    /\ UNCHANGED <<socket, shuttingDown, wanted, operations, task, generator, returned, stopSent, forwarded>>

Client(o) == Subscribe(o) \/ Complete(o)

HandleMessage(o) ==
    RegisterOperation(o) \/ RejectOperation(o) \/ ForwardPayload(o) \/ FinishOperation(o)

Generator(o) ==
    StartAnswered(o) \/ StartFails(o) \/ QueueClosed(o) \/ WatchdogFires(o) \/ StopAnswered(o)

SocketNext ==
    \/ \E o \in Operations :
         Client(o) \/ HandleMessage(o) \/ Generator(o) \/ SessionStarts(o) \/ SessionStops(o)
    \/ CloseSocket
    \/ Shutdown

SocketSpec == SocketInit /\ [][SocketNext]_socketVars

\* Every await of the BFF ends: by its answer, by its timeout or by the closed
\* queue.  Neither payloads nor the watchdog are assumed to come.
SocketFairSpec ==
    /\ SocketSpec
    /\ \A o \in Operations :
        /\ WF_socketVars(RegisterOperation(o) \/ RejectOperation(o))
        /\ WF_socketVars(StartAnswered(o) \/ StartFails(o))
        /\ WF_socketVars(QueueClosed(o))
        /\ WF_socketVars(StopAnswered(o))
        /\ WF_socketVars(FinishOperation(o))

--------------------------------------------------------------------------------
(* Properties *)

OperationOver(o) == wanted[o] = "completed" \/ socket = "closed"

\* The operations that count against the limit are those whose loop runs; none
\* is left behind by an operation that ended, whichever way it did.
NoStaleOperation ==
    \A o \in operations : task[o] = "streaming" /\ o \notin returned

\* An operation that was taken off the map, by its client, by the end of its socket
\* or by a shutdown, ends its loop and its generator, whatever they were waiting
\* for and although no event may come.
CancelledOperationsEnd ==
    \A o \in Operations :
        (task[o] = "streaming" /\ o \notin operations)
            ~> (task[o] = "finished" /\ generator[o] = "done")

\* No payload is forwarded for an operation the client has completed, nor to a
\* socket that is closed.
NoPayloadAfterComplete ==
    [][\A o \in Operations : OperationOver(o) => forwarded'[o] = forwarded[o]]_socketVars
================================================================================
