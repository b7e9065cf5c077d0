------------------------------- MODULE LiveTraces -------------------------------
(***************************************************************************)
(* core/storage-read: the registry of live trace subscriptions, and the    *)
(* BFF's side of a subscription as far as it starts and stops one.         *)
(*                                                                         *)
(* A replica has one goroutine for each NATS subject (start, stop and      *)
(* persisted notifications) and one for the heartbeat ticker.  The         *)
(* registry's lock covers the choice of an event's number, not the publish *)
(* that follows it.  The registry's subscribers are plain NATS             *)
(* subscribers, so every replica gets every start and stop.                *)
(*                                                                         *)
(* Subscription ids are unique: the BFF draws one for each subscription.   *)
(* Whether a trace matches a subscription is the choice of its query.  A   *)
(* removed subscription object is dropped, although publishes in progress  *)
(* may still decrement its counter: nothing reads it any more.             *)
(***************************************************************************)
EXTENDS Integers, Sequences, FiniteSets, SequencesExt

CONSTANTS
    Replicas,           \* of storage-read
    Subscriptions,      \* ids the BFF draws
    Traces,
    MaxSubscriptions, EventBufferSize, HeartbeatInterval, DeliveryTimeout,
    None,
    MaxTime, MaxNotifications   \* bounds on the clock and on the notifications

ASSUME LiveAssumption ==
    /\ MaxSubscriptions \in Nat \ {0} /\ EventBufferSize \in Nat \ {0}
    /\ HeartbeatInterval \in Nat \ {0} /\ DeliveryTimeout \in Nat \ {0}
    /\ MaxTime \in Nat /\ MaxNotifications \in Nat
    /\ None \notin Subscriptions \union Traces

VARIABLES
    now,
    client,         \* the BFF's state of each subscription
    startQ, stopQ,  \* requests each replica has not handled yet
    subs,           \* each replica's registry: its object for a subscription, or None
    work,           \* the publishing goroutines of each replica
    sink,           \* what arrived on each subscription's sink subject
    notifications   \* persisted notifications each replica has received

vars == <<now, client, startQ, stopQ, subs, work, sink, notifications>>

Goroutines == {"start", "persisted", "heartbeat"}
Pcs == {"idle", "next", "emit", "send", "complete", "failed"}

Event == [replica : Replicas, type : {"HEARTBEAT", "ADDED", "UPDATED"},
          trace : Traces \union {None}, seq : Nat]

Subscription == [nextSeq : Nat, inFlight : Nat, lastBeat : Nat, lastProgress : Nat,
                 emitted : SUBSET Traces]

\* ids are a notification's traces, todo is what is left of a snapshot, items what
\* is left of a query's result; at is when a round of heartbeats began, began when
\* a publish did.
Work == [pc : Pcs, sub : Subscriptions \union {None}, todo : SUBSET Subscriptions,
         ids : SUBSET Traces, items : SUBSET Traces, at : Nat,
         event : Event \union {None}, began : Nat, sent : BOOLEAN]

ClientStates == {"new", "starting", "live", "refused", "ended", "timedOut", "abandoned"}

Idle(at) == [pc |-> "idle", sub |-> None, todo |-> {}, ids |-> {}, items |-> {}, at |-> at,
             event |-> None, began |-> 0, sent |-> FALSE]

Registered(r) == {s \in Subscriptions : subs[r][s] # None}

TypeOK ==
    /\ now \in 0 .. MaxTime
    /\ client \in [Subscriptions -> [state : ClientStates, since : 0 .. MaxTime]]
    /\ startQ \in [Replicas -> SUBSET Subscriptions]
    /\ stopQ \in [Replicas -> SUBSET Subscriptions]
    /\ subs \in [Replicas -> [Subscriptions -> Subscription \union {None}]]
    /\ \A r \in Replicas : Cardinality(Registered(r)) <= MaxSubscriptions
    /\ work \in [Replicas -> [Goroutines -> Work]]
    /\ sink \in [Subscriptions -> Seq(Event)]
    /\ notifications \in [Replicas -> 0 .. MaxNotifications]

Init ==
    /\ now = 0
    /\ client = [s \in Subscriptions |-> [state |-> "new", since |-> 0]]
    /\ startQ = [r \in Replicas |-> {}] /\ stopQ = [r \in Replicas |-> {}]
    /\ subs = [r \in Replicas |-> [s \in Subscriptions |-> None]]
    /\ work = [r \in Replicas |-> [g \in Goroutines |-> Idle(0)]]
    /\ sink = [s \in Subscriptions |-> <<>>]
    /\ notifications = [r \in Replicas |-> 0]

Goto(r, g, w) == work' = [work EXCEPT ![r][g] = w]
SetSub(r, s, value) == subs' = [subs EXCEPT ![r][s] = value]
SetClient(s, state) == client' = [client EXCEPT ![s] = [state |-> state, since |-> now]]

\* The first answer decides; the BFF does not see the others.
Reply(s, answer) ==
    IF client[s].state = "starting" THEN SetClient(s, answer) ELSE UNCHANGED client

--------------------------------------------------------------------------------
(* publish: a number under the lock, the event outside it *)

\* Mutant: a heartbeat does not take a number.
NextSeqOfTraces(sub, type) == IF type = "HEARTBEAT" THEN sub.nextSeq ELSE sub.nextSeq + 1

NextSeq(sub, type) == sub.nextSeq + 1

BufferFull(sub) == sub.inFlight >= EventBufferSize

\* w is the goroutine's work with its subscription chosen.
BeginPublish(r, g, w, type, trace) ==
    LET s == w.sub  sub == subs[r][s] IN
    IF sub = None
      THEN Goto(r, g, [w EXCEPT !.pc = "failed"]) /\ UNCHANGED subs
    ELSE IF BufferFull(sub)
      THEN Goto(r, g, [w EXCEPT !.pc = "failed"]) /\ SetSub(r, s, None)
    ELSE /\ Goto(r, g, [w EXCEPT !.pc = "send", !.began = now,
                          !.event = [replica |-> r, type |-> type, trace |-> trace,
                                     seq |-> sub.nextSeq]])
         /\ SetSub(r, s, [sub EXCEPT !.nextSeq = NextSeq(sub, type), !.inFlight = @ + 1,
                            !.lastBeat = IF type = "HEARTBEAT" THEN now ELSE @,
                            !.emitted = @ \union ({trace} \ {None})])

\* The NATS client takes the event, or its connection is lost.
Send(r, g) ==
    LET w == work[r][g] IN
    /\ w.pc = "send"
    /\ \/ /\ sink' = [sink EXCEPT ![w.sub] = Append(@, w.event)]
          /\ Goto(r, g, [w EXCEPT !.pc = "complete", !.sent = TRUE])
       \/ /\ Goto(r, g, [w EXCEPT !.pc = "complete", !.sent = FALSE])
          /\ UNCHANGED sink
    /\ UNCHANGED <<now, client, startQ, stopQ, subs, notifications>>

\* What a goroutine does after an event: go on with its items or its snapshot.
Resumed(g, w) ==
    CASE g = "start" -> Idle(0)
      [] g = "persisted" -> [w EXCEPT !.pc = "emit", !.event = None, !.began = 0, !.sent = FALSE]
      [] g = "heartbeat" -> [w EXCEPT !.pc = "next", !.sub = None, !.event = None,
                                      !.began = 0, !.sent = FALSE]

\* Mutant: a heartbeat is not taken off the events in flight.
CompletedUnlessHeartbeat(sub, event, at) ==
    [sub EXCEPT !.inFlight = IF event.type = "HEARTBEAT" THEN @ ELSE @ - 1,
                !.lastProgress = at]

Completed(sub, event, at) == [sub EXCEPT !.inFlight = @ - 1, !.lastProgress = at]

CompletePublish(r, g) ==
    LET w == work[r][g]  sub == subs[r][w.sub] IN
    /\ w.pc = "complete"
    /\ IF sub = None THEN UNCHANGED subs ELSE SetSub(r, w.sub, Completed(sub, w.event, w.began))
    /\ IF w.sent
         THEN /\ Goto(r, g, Resumed(g, w))
              /\ IF g = "start" THEN Reply(w.sub, "live") ELSE UNCHANGED client
         ELSE Goto(r, g, [w EXCEPT !.pc = "failed"]) /\ UNCHANGED client
    /\ UNCHANGED <<now, startQ, stopQ, sink, notifications>>

\* Mutant: a publish that failed leaves the subscription where it is.
FailPublishKeeps(r, g) ==
    LET w == work[r][g] IN
    /\ w.pc = "failed"
    /\ Goto(r, g, Resumed(g, w))
    /\ IF g = "start" THEN Reply(w.sub, "refused") ELSE UNCHANGED client
    /\ UNCHANGED <<now, startQ, stopQ, subs, sink, notifications>>

\* Every caller removes a subscription whose publish failed.
FailPublish(r, g) ==
    LET w == work[r][g] IN
    /\ w.pc = "failed"
    /\ SetSub(r, w.sub, None)
    /\ Goto(r, g, Resumed(g, w))
    /\ IF g = "start" THEN Reply(w.sub, "refused") ELSE UNCHANGED client
    /\ UNCHANGED <<now, startQ, stopQ, sink, notifications>>

--------------------------------------------------------------------------------
(* The goroutines of a replica *)

\* Mutant: the limit is checked one too late.
OverLimit(r) == Cardinality(Registered(r)) > MaxSubscriptions

AtLimit(r) == Cardinality(Registered(r)) >= MaxSubscriptions

\* Start registers the subscription, or refuses it at the limit.
Start(r, s) ==
    /\ s \in startQ[r] /\ work[r]["start"].pc = "idle"
    /\ startQ' = [startQ EXCEPT ![r] = @ \ {s}]
    /\ IF AtLimit(r)
         THEN Reply(s, "refused") /\ UNCHANGED <<subs, work>>
         ELSE /\ SetSub(r, s, [nextSeq |-> 1, inFlight |-> 0, lastBeat |-> now,
                                lastProgress |-> now, emitted |-> {}])
              /\ Goto(r, "start", [Idle(0) EXCEPT !.pc = "emit", !.sub = s])
              /\ UNCHANGED client
    /\ UNCHANGED <<now, stopQ, sink, notifications>>

\* It answers once a first heartbeat is published.
EmitFirst(r) ==
    LET w == work[r]["start"] IN
    /\ w.pc = "emit"
    /\ BeginPublish(r, "start", w, "HEARTBEAT", None)
    /\ UNCHANGED <<now, client, startQ, stopQ, sink, notifications>>

Stop(r, s) ==
    /\ s \in stopQ[r]
    /\ stopQ' = [stopQ EXCEPT ![r] = @ \ {s}]
    /\ SetSub(r, s, None)
    /\ UNCHANGED <<now, client, startQ, work, sink, notifications>>

\* storage-write has persisted some traces.
HandleTracePersisted(r) ==
    /\ work[r]["persisted"].pc = "idle"
    /\ notifications[r] < MaxNotifications
    /\ notifications' = [notifications EXCEPT ![r] = @ + 1]
    /\ \E ids \in SUBSET Traces \ {{}} :
        Goto(r, "persisted", [Idle(0) EXCEPT !.pc = "next", !.ids = ids, !.todo = Registered(r)])
    /\ UNCHANGED <<now, client, startQ, stopQ, subs, sink>>

\* One subscription after another, in any order; a failed query ends the handler.
QueryCandidates(r) ==
    LET w == work[r]["persisted"] IN
    /\ w.pc = "next"
    /\ \/ w.todo = {} /\ Goto(r, "persisted", Idle(0))
       \/ \E s \in w.todo :
            \/ Goto(r, "persisted", Idle(0))
            \/ \E items \in SUBSET w.ids :
                Goto(r, "persisted", [w EXCEPT !.pc = "emit", !.sub = s, !.todo = @ \ {s},
                                               !.items = items])
    /\ UNCHANGED <<now, client, startQ, stopQ, subs, sink, notifications>>

\* markEmitted and publish; only this goroutine marks.
EmitTrace(r) ==
    LET w == work[r]["persisted"] IN
    /\ w.pc = "emit"
    /\ \/ /\ w.items = {}
          /\ Goto(r, "persisted", [w EXCEPT !.pc = "next", !.sub = None]) /\ UNCHANGED subs
       \/ \E t \in w.items :
            LET sub == subs[r][w.sub]
                type == IF sub # None /\ t \in sub.emitted THEN "UPDATED" ELSE "ADDED"
            IN BeginPublish(r, "persisted", [w EXCEPT !.items = @ \ {t}], type, t)
    /\ UNCHANGED <<now, client, startQ, stopQ, sink, notifications>>

EmitHeartbeats(r) ==
    /\ work[r]["heartbeat"].pc = "idle"
    /\ Goto(r, "heartbeat", [Idle(now) EXCEPT !.pc = "next", !.todo = Registered(r)])
    /\ UNCHANGED <<now, client, startQ, stopQ, subs, sink, notifications>>

Stalled(sub, at) == at - sub.lastProgress >= DeliveryTimeout

\* lastBeat is read without the lock: a read that races with its write finds the
\* old or the new time, up to a second, which is the old or the new value here.
EmitHeartbeat(r) ==
    LET w == work[r]["heartbeat"] IN
    /\ w.pc = "next"
    /\ \/ w.todo = {} /\ Goto(r, "heartbeat", Idle(w.at)) /\ UNCHANGED subs
       \/ \E s \in w.todo :
            LET sub == subs[r][s]
                stalled == sub # None /\ Stalled(sub, w.at)
                beaten == sub # None /\ w.at - sub.lastBeat < HeartbeatInterval
                rest == [w EXCEPT !.todo = @ \ {s}]
            IN IF sub = None \/ stalled \/ beaten
                 THEN /\ Goto(r, "heartbeat", rest)
                      /\ IF stalled THEN SetSub(r, s, None) ELSE UNCHANGED subs
                 ELSE BeginPublish(r, "heartbeat", [rest EXCEPT !.sub = s], "HEARTBEAT", None)
    /\ UNCHANGED <<now, client, startQ, stopQ, sink, notifications>>

--------------------------------------------------------------------------------
(* The BFF *)

SubscribeLiveTraces(s) ==
    /\ client[s].state = "new"
    /\ SetClient(s, "starting")
    /\ startQ' = [r \in Replicas |-> startQ[r] \union {s}]
    /\ UNCHANGED <<now, stopQ, subs, work, sink, notifications>>

\* The client completes the operation or disconnects, or the watchdog fires.
StopLiveTraces(s) ==
    /\ client[s].state = "live"
    /\ SetClient(s, "ended")
    /\ stopQ' = [r \in Replicas |-> stopQ[r] \union {s}]
    /\ UNCHANGED <<now, startQ, subs, work, sink, notifications>>

\* The BFF stops only what it saw started.
StartTimesOut(s) ==
    /\ client[s].state = "starting"
    /\ SetClient(s, "timedOut")
    /\ UNCHANGED <<now, startQ, stopQ, subs, work, sink, notifications>>

\* The stop request is lost, or the BFF crashes.
LoseStop(s) ==
    /\ client[s].state = "live"
    /\ SetClient(s, "abandoned")
    /\ UNCHANGED <<now, startQ, stopQ, subs, work, sink, notifications>>

Elapse ==
    /\ now < MaxTime
    /\ now' = now + 1
    /\ UNCHANGED <<client, startQ, stopQ, subs, work, sink, notifications>>

Registry(r) ==
    \/ \E s \in Subscriptions : Start(r, s) \/ Stop(r, s)
    \/ EmitFirst(r)
    \/ HandleTracePersisted(r) \/ QueryCandidates(r) \/ EmitTrace(r)
    \/ EmitHeartbeats(r) \/ EmitHeartbeat(r)
    \/ \E g \in Goroutines : Send(r, g) \/ CompletePublish(r, g) \/ FailPublish(r, g)

Next ==
    \/ \E r \in Replicas : Registry(r)
    \/ \E s \in Subscriptions :
         \/ SubscribeLiveTraces(s) \/ StartTimesOut(s)
         \/ StopLiveTraces(s) \/ LoseStop(s)
    \/ Elapse

Spec == Init /\ [][Next]_vars

--------------------------------------------------------------------------------
(* Properties *)

InFlight(r, s) == {g \in Goroutines : work[r][g].pc \in {"send", "complete"} /\ work[r][g].sub = s}

\* Whatever goroutines publish at once, the events in flight are counted exactly:
\* a count that leaked would in the end drop a healthy subscription as full.
InFlightCounted ==
    \A r \in Replicas : \A s \in Registered(r) : subs[r][s].inFlight = Cardinality(InFlight(r, s))

\* A number is given to one event only, however many goroutines publish.
SeqDeliveredOnce ==
    \A s \in Subscriptions : \A i, j \in 1 .. Len(sink[s]) :
        sink[s][i].seq = sink[s][j].seq /\ sink[s][i].replica = sink[s][j].replica => i = j

\* A client learns of a trace by ADDED, once, and of its changes by UPDATED after
\* that, even when the event that announced it could not be published.
AddedThenUpdated ==
    \A s \in Subscriptions : \A i \in 1 .. Len(sink[s]) :
        LET event == sink[s][i]
            Known == \E j \in 1 .. i - 1 : /\ sink[s][j].trace = event.trace
                                          /\ sink[s][j].replica = event.replica
        IN  event.trace # None => (event.type = "ADDED" <=> ~Known)

\* A subscription the BFF stopped, or was refused, holds no place in the registry
\* and cannot come back to it.  This is so with one replica: the BFF hears the first
\* answer only, so another may handle the start after the stop.
ReleasedWhenOver ==
    \A s \in Subscriptions, r \in Replicas :
        \/ client[s].state = "refused"
        \/ client[s].state = "ended" /\ s \notin stopQ[r]
        => s \notin Registered(r)

\* The events of a subscription arrive in the order of their numbers.
SeqInOrder ==
    \A s \in Subscriptions : \A i, j \in 1 .. Len(sink[s]) :
        i < j => sink[s][i].seq < sink[s][j].seq

\* A subscription whose stop request never came is removed by the heartbeats.
AbandonedRemoved ==
    \A s \in Subscriptions, r \in Replicas :
        LET beat == work[r]["heartbeat"] IN
        /\ client[s].state = "abandoned"
        /\ beat.pc = "idle" /\ beat.at - client[s].since >= DeliveryTimeout
        => s \notin Registered(r)
================================================================================
