-------------------------------- MODULE LiveProofs -------------------------------
(***************************************************************************)
(* For any number of replicas, subscriptions and traces, any limit and any *)
(* buffer: LiveTraces' safety invariants, and those of LiveOperations.     *)
(*                                                                         *)
(* A replica's part of the invariant (Local) says what its three publishers*)
(* hold of a subscription between the lock and the publish: the counter is *)
(* the number of them that are in progress, the number each has drawn is   *)
(* below nextSeq and nobody else's, and a trace is marked when the client  *)
(* was told, or is being told, or the telling has failed and the           *)
(* subscription is about to go.  It starts from nothing (Untouched), since *)
(* a subscription is started once in each replica.                         *)
(***************************************************************************)
EXTENDS LiveTraces, LiveOperations, FiniteSetTheorems, TLAPS

--------------------------------------------------------------------------------
(* The registry of live trace subscriptions *)

\* TypeOK without the limit.
Types ==
    /\ now \in 0 .. MaxTime
    /\ client \in [Subscriptions -> [state : ClientStates, since : 0 .. MaxTime]]
    /\ startQ \in [Replicas -> SUBSET Subscriptions]
    /\ stopQ \in [Replicas -> SUBSET Subscriptions]
    /\ subs \in [Replicas -> [Subscriptions -> Subscription \union {None}]]
    /\ work \in [Replicas -> [Goroutines -> Work]]
    /\ sink \in [Subscriptions -> Seq(Event)]
    /\ notifications \in [Replicas -> 0 .. MaxNotifications]

Limited ==
    \A r \in Replicas :
        IsFiniteSet(Registered(r)) /\ Cardinality(Registered(r)) <= MaxSubscriptions

\* A goroutine that publishes has a subscription, and traces are announced by one of
\* the three only.
Shape(r, g) ==
    LET w == work[r][g] IN
    /\ w.pc \in {"emit", "send", "complete", "failed"} => w.sub \in Subscriptions
    /\ w.pc \in {"idle", "next"} => w.sub = None
    /\ w.pc = "emit" => g # "heartbeat"
    /\ w.pc = "next" => g # "start"
    /\ w.pc = "send" =>
         /\ w.event \in Event /\ w.event.replica = r
         /\ IF g = "persisted" THEN w.event.trace \in Traces ELSE w.event.trace = None

Untouched(r, s) ==
    /\ subs[r][s] = None
    /\ \A g \in Goroutines : work[r][g].sub # s /\ s \notin work[r][g].todo
    /\ \A i \in 1 .. Len(sink[s]) : sink[s][i].replica # r

\* A replica has nothing of a subscription before it handles the start request, and
\* there is one start request.
StartedOnce(r, s) ==
    /\ client[s].state = "new" => s \notin startQ[r]
    /\ client[s].state = "new" \/ s \in startQ[r] => Untouched(r, s)

Counted(r, s) ==
    subs[r][s] # None => subs[r][s].inFlight = Cardinality(InFlight(r, s))

Sends(r, g, s) == work[r][g].pc = "send" /\ work[r][g].sub = s

\* The numbers of the events that arrived or are on their way.
Numbered(r, s) ==
    /\ \A i \in 1 .. Len(sink[s]) :
         sink[s][i].replica = r /\ subs[r][s] # None => sink[s][i].seq < subs[r][s].nextSeq
    /\ \A g \in Goroutines : Sends(r, g, s) =>
         /\ subs[r][s] # None => work[r][g].event.seq < subs[r][s].nextSeq
         /\ \A i \in 1 .. Len(sink[s]) :
              sink[s][i].replica = r => sink[s][i].seq # work[r][g].event.seq
         /\ \A h \in Goroutines :
              Sends(r, h, s) /\ g # h => work[r][h].event.seq # work[r][g].event.seq

\* The client was told of the trace, or is about to be, or the telling has failed and
\* the subscription is about to be removed.
Told(r, s, t) == \E i \in 1 .. Len(sink[s]) : sink[s][i].replica = r /\ sink[s][i].trace = t
Telling(r, s, t) ==
    LET w == work[r]["persisted"] IN
    /\ w.sub = s /\ w.event.trace = t
    /\ w.pc = "send" \/ (w.pc \in {"complete", "failed"} /\ ~w.sent)

Marked(r, s) ==
    \A t \in Traces :
      /\ subs[r][s] # None =>
           IF t \in subs[r][s].emitted THEN Told(r, s, t) \/ Telling(r, s, t) ELSE ~Told(r, s, t)
      /\ Sends(r, "persisted", s) /\ work[r]["persisted"].event.trace = t =>
           /\ (work[r]["persisted"].event.type = "ADDED") <=> ~Told(r, s, t)
           /\ subs[r][s] # None => t \in subs[r][s].emitted

Local(r) ==
    /\ \A g \in Goroutines : Shape(r, g)
    /\ \A s \in Subscriptions : StartedOnce(r, s) /\ Counted(r, s) /\ Numbered(r, s) /\ Marked(r, s)

Inv ==
    /\ Types /\ Limited
    /\ \A r \in Replicas : Local(r)
    /\ SeqDeliveredOnce /\ AddedThenUpdated

LEMMA GotoFacts ==
    ASSUME Types, NEW r \in Replicas, NEW g \in Goroutines, NEW w \in Work, Goto(r, g, w)
    PROVE  /\ work' \in [Replicas -> [Goroutines -> Work]]
           /\ work'[r][g] = w
           /\ \A h \in Goroutines \ {g} : work'[r][h] = work[r][h]
           /\ \A q \in Replicas \ {r} : work'[q] = work[q]
    BY DEF Types, Goto

LEMMA SetSubFacts ==
    ASSUME Types, NEW r \in Replicas, NEW s \in Subscriptions,
           NEW value \in Subscription \union {None}, SetSub(r, s, value)
    PROVE  /\ subs' \in [Replicas -> [Subscriptions -> Subscription \union {None}]]
           /\ subs'[r][s] = value
           /\ \A x \in Subscriptions \ {s} : subs'[r][x] = subs[r][x]
           /\ \A q \in Replicas \ {r} : subs'[q] = subs[q]
    BY DEF Types, SetSub

LEMMA ReplyFacts ==
    ASSUME Types, NEW s \in Subscriptions, NEW answer \in ClientStates \ {"new"},
           Reply(s, answer)
    PROVE  /\ client' \in [Subscriptions -> [state : ClientStates, since : 0 .. MaxTime]]
           /\ \A x \in Subscriptions : client'[x].state = "new" => client[x].state = "new"
<1>1. CASE client[s].state = "starting"
    <2>1. client' = [client EXCEPT ![s] = [state |-> answer, since |-> now]]
        BY <1>1 DEF Reply, SetClient
    <2> QED
        BY <2>1 DEF Types
<1>2. CASE client[s].state # "starting"
    BY <1>2 DEF Types, Reply
<1> QED
    BY <1>1, <1>2

LEMMA SinkFacts ==
    ASSUME Types, NEW s \in Subscriptions
    PROVE  /\ sink[s] \in Seq(Event) /\ Len(sink[s]) \in Nat
           /\ \A i \in 1 .. Len(sink[s]) : sink[s][i] \in Event /\ sink[s][i].seq \in Nat
<1>1. sink[s] \in Seq(Event)
    BY DEF Types
<1>2. \A i \in 1 .. Len(sink[s]) : sink[s][i] \in Event
    BY <1>1
<1> QED
    BY <1>1, <1>2 DEF Event

\* Nothing changes for the other replicas.
LEMMA Elsewhere ==
    ASSUME Inv, NEW r \in Replicas, UNCHANGED sink,
           subs'[r] = subs[r], work'[r] = work[r], startQ'[r] \subseteq startQ[r],
           \A s \in Subscriptions : client'[s].state = "new" => client[s].state = "new"
    PROVE  Local(r)'
<1>1. Local(r)
    BY DEF Inv
<1>2. ASSUME NEW g \in Goroutines PROVE Shape(r, g)'
    BY <1>1 DEF Local, Shape
<1>3. ASSUME NEW s \in Subscriptions
      PROVE  (StartedOnce(r, s) /\ Counted(r, s) /\ Numbered(r, s) /\ Marked(r, s))'
    <2>1. StartedOnce(r, s)'
        BY <1>1 DEF Local, StartedOnce, Untouched
    <2>2. Counted(r, s)'
        BY <1>1 DEF Local, Counted, InFlight
    <2>3. Numbered(r, s)'
        BY <1>1 DEF Local, Numbered, Sends
    <2>4. Marked(r, s)'
        BY <1>1 DEF Local, Marked, Told, Telling, Sends
    <2> QED
        BY <2>1, <2>2, <2>3, <2>4
<1> QED
    BY <1>2, <1>3 DEF Local

LEMMA FewerRegistered ==
    ASSUME Limited, NEW r \in Replicas, Registered(r)' \subseteq Registered(r)
    PROVE  IsFiniteSet(Registered(r)') /\ Cardinality(Registered(r)') <= MaxSubscriptions
<1>1. IsFiniteSet(Registered(r)) /\ Cardinality(Registered(r)) <= MaxSubscriptions
    BY DEF Limited
<1>2. /\ IsFiniteSet(Registered(r)') /\ Cardinality(Registered(r)') <= Cardinality(Registered(r))
      /\ Cardinality(Registered(r)') \in Nat /\ Cardinality(Registered(r)) \in Nat
    BY <1>1, FS_Subset, FS_CardinalityType
<1> QED
    BY <1>1, <1>2, LiveAssumption

\* Steps of a replica that neither begin nor complete a publish, and may remove
\* subscriptions.
LEMMA Quiet ==
    ASSUME Inv, Types', NEW r \in Replicas, UNCHANGED sink,
           \A q \in Replicas \ {r} : subs'[q] = subs[q] /\ work'[q] = work[q],
           \A q \in Replicas : startQ'[q] \subseteq startQ[q],
           \A s \in Subscriptions : client'[s].state = "new" => client[s].state = "new",
           \A s \in Subscriptions : subs'[r][s] \in {subs[r][s], None},
           \A g \in Goroutines :
             \/ work'[r][g] = work[r][g]
             \/ /\ Shape(r, g)'
                /\ work[r][g].pc \notin {"send", "complete"}
                /\ work'[r][g].pc \notin {"send", "complete"}
                /\ \A s \in Subscriptions : Untouched(r, s) =>
                     work'[r][g].sub # s /\ s \notin work'[r][g].todo,
           \/ work'[r]["persisted"] = work[r]["persisted"]
           \/ work[r]["persisted"].pc # "failed"
           \/ subs'[r][work[r]["persisted"].sub] = None
    PROVE  Inv'
<1>1. \A q \in Replicas \ {r} : Local(q)'
    BY Elsewhere
<1>2. Local(r)
    BY DEF Inv
<1>3. \A g \in Goroutines : Shape(r, g)'
    BY <1>2 DEF Local, Shape
<1>4. ASSUME NEW s \in Subscriptions
      PROVE  (StartedOnce(r, s) /\ Counted(r, s) /\ Numbered(r, s) /\ Marked(r, s))'
    <2>1. StartedOnce(r, s)'
        BY <1>2 DEF Local, StartedOnce, Untouched
    <2>2. Counted(r, s)'
        <3>1. InFlight(r, s)' = InFlight(r, s)
            BY DEF InFlight
        <3> QED
            BY <1>2, <3>1 DEF Local, Counted
    <2>3. Numbered(r, s)'
        <3>1. \A g \in Goroutines : Sends(r, g, s)' => Sends(r, g, s) /\ work'[r][g] = work[r][g]
            BY DEF Sends
        <3> QED
            BY <1>2, <3>1 DEF Local, Numbered
    <2>4. Marked(r, s)'
        <3>1. ASSUME NEW t \in Traces PROVE Told(r, s, t)' <=> Told(r, s, t)
            BY DEF Told
        <3>2. ASSUME NEW t \in Traces, subs'[r][s] # None, Telling(r, s, t)
              PROVE  Telling(r, s, t)'
            BY <3>2 DEF Telling, Goroutines
        <3>3. Sends(r, "persisted", s)' => Sends(r, "persisted", s) /\ work'[r]["persisted"] = work[r]["persisted"]
            BY DEF Sends, Goroutines
        <3> QED
            BY <1>2, <3>1, <3>2, <3>3 DEF Local, Marked
    <2> QED
        BY <2>1, <2>2, <2>3, <2>4
<1>5. Local(r)'
    BY <1>3, <1>4 DEF Local
<1>6. Limited'
    <2> SUFFICES ASSUME NEW q \in Replicas
                 PROVE  IsFiniteSet(Registered(q)') /\ Cardinality(Registered(q)') <= MaxSubscriptions
        BY DEF Limited
    <2>1. Registered(q)' \subseteq Registered(q)
        BY DEF Registered
    <2> QED
        BY <2>1, FewerRegistered DEF Inv
<1>7. SeqDeliveredOnce' /\ AddedThenUpdated'
    BY DEF Inv, SeqDeliveredOnce, AddedThenUpdated
<1> QED
    BY <1>1, <1>5, <1>6, <1>7 DEF Inv

LEMMA GoroutinesFinite ==
    ASSUME NEW G \in SUBSET Goroutines
    PROVE  IsFiniteSet(G) /\ Cardinality(G) \in Nat
<1>1. IsFiniteSet({}) /\ IsFiniteSet({} \union {"start"})
    BY FS_EmptySet, FS_AddElement
<1>2. IsFiniteSet(({} \union {"start"}) \union {"persisted"})
    BY <1>1, FS_AddElement
<1>3. IsFiniteSet((({} \union {"start"}) \union {"persisted"}) \union {"heartbeat"})
    BY <1>2, FS_AddElement
<1>4. Goroutines = (({} \union {"start"}) \union {"persisted"}) \union {"heartbeat"}
    BY DEF Goroutines
<1> QED
    BY <1>3, <1>4, FS_Subset, FS_CardinalityType

\* A publish begins: the event gets the next number, and its trace is marked.
LEMMA Begins ==
    ASSUME Inv, NEW r \in Replicas, NEW g \in Goroutines, NEW w \in Work,
           NEW type \in {"HEARTBEAT", "ADDED", "UPDATED"}, NEW trace \in Traces \union {None},
           BeginPublish(r, g, w, type, trace),
           UNCHANGED <<now, client, startQ, stopQ, sink, notifications>>,
           work[r][g].pc \in {"emit", "next"},
           w.sub \in Subscriptions, ~Untouched(r, w.sub), w.todo \subseteq work[r][g].todo,
           g # "persisted" => trace = None,
           g = "persisted" =>
             /\ trace \in Traces
             /\ type = IF subs[r][w.sub] # None /\ trace \in subs[r][w.sub].emitted
                       THEN "UPDATED" ELSE "ADDED"
    PROVE  Inv'
<1> DEFINE s == w.sub
           sub == subs[r][s]
<1>1. Types /\ Local(r)
    BY DEF Inv
<1>2. ASSUME Goto(r, g, [w EXCEPT !.pc = "failed"]), UNCHANGED subs \/ SetSub(r, s, None)
      PROVE  Inv'
    <2>1. [w EXCEPT !.pc = "failed"] \in Work
        BY DEF Work, Pcs
    <2>2. /\ work' \in [Replicas -> [Goroutines -> Work]]
          /\ work'[r][g] = [w EXCEPT !.pc = "failed"]
          /\ \A h \in Goroutines \ {g} : work'[r][h] = work[r][h]
          /\ \A q \in Replicas \ {r} : work'[q] = work[q]
        BY <1>1, <1>2, <2>1, GotoFacts
    <2>3. /\ subs' \in [Replicas -> [Subscriptions -> Subscription \union {None}]]
          /\ \A x \in Subscriptions : subs'[r][x] \in {subs[r][x], None}
          /\ \A q \in Replicas \ {r} : subs'[q] = subs[q]
        BY <1>1, <1>2, SetSubFacts DEF Types
    <2>4. Types'
        BY <1>1, <2>2, <2>3 DEF Types
    <2>5. Shape(r, g)'
        BY <2>2 DEF Shape, Work
    <2>6. work'[r][g].sub = w.sub /\ work'[r][g].todo = w.todo /\ work'[r][g].pc = "failed"
        BY <2>2 DEF Work
    <2>7. \A x \in Subscriptions : Untouched(r, x) => work'[r][g].sub # x /\ x \notin work'[r][g].todo
        BY <2>6 DEF Untouched
    <2>8. work'[r]["persisted"] = work[r]["persisted"] \/ work[r]["persisted"].pc # "failed"
        BY <2>2 DEF Goroutines
    <2>9. \A h \in Goroutines :
             \/ work'[r][h] = work[r][h]
             \/ /\ Shape(r, h)'
                /\ work[r][h].pc \notin {"send", "complete"}
                /\ work'[r][h].pc \notin {"send", "complete"}
                /\ \A x \in Subscriptions : Untouched(r, x) =>
                     work'[r][h].sub # x /\ x \notin work'[r][h].todo
        BY <2>2, <2>5, <2>6, <2>7
    <2> QED
        BY <2>2, <2>3, <2>4, <2>8, <2>9, Quiet
<1>3. CASE sub # None /\ ~BufferFull(sub)
    <2> DEFINE event == [replica |-> r, type |-> type, trace |-> trace, seq |-> sub.nextSeq]
               sending == [w EXCEPT !.pc = "send", !.began = now, !.event = event]
               counted == [sub EXCEPT !.nextSeq = NextSeq(sub, type), !.inFlight = @ + 1,
                             !.lastBeat = IF type = "HEARTBEAT" THEN now ELSE @,
                             !.emitted = @ \union ({trace} \ {None})]
    <2>1. Goto(r, g, sending) /\ SetSub(r, s, counted)
        BY <1>3 DEF BeginPublish
    <2>2. sub \in Subscription /\ now \in Nat
        BY <1>1, <1>3 DEF Types
    <2>3. /\ event \in Event /\ event.replica = r /\ event.type = type /\ event.trace = trace
          /\ event.seq = sub.nextSeq
        BY <2>2 DEF Event, Subscription
    <2>4. /\ sending \in Work
          /\ sending.pc = "send" /\ sending.sub = s /\ sending.event = event /\ sending.todo = w.todo
        BY <2>2, <2>3 DEF Work, Pcs
    <2>5. /\ counted \in Subscription
          /\ counted.nextSeq = sub.nextSeq + 1 /\ counted.inFlight = sub.inFlight + 1
          /\ counted.emitted = sub.emitted \union ({trace} \ {None})
          /\ sub.nextSeq \in Nat
        <3> DEFINE next == sub.nextSeq + 1
                   flight == sub.inFlight + 1
                   beat == IF type = "HEARTBEAT" THEN now ELSE sub.lastBeat
                   marks == sub.emitted \union ({trace} \ {None})
        <3>1. /\ next \in Nat /\ flight \in Nat /\ beat \in Nat /\ marks \in SUBSET Traces
              /\ sub.nextSeq \in Nat
            BY <2>2 DEF Subscription
        <3>2. counted = [sub EXCEPT !.nextSeq = next, !.inFlight = flight, !.lastBeat = beat,
                           !.emitted = marks]
            BY DEF NextSeq
        <3> HIDE DEF next, flight, beat, marks, counted, sub
        <3>3. /\ counted \in Subscription /\ counted.nextSeq = next /\ counted.inFlight = flight
              /\ counted.emitted = marks
            BY <2>2, <3>1, <3>2 DEF Subscription
        <3> QED
            BY <3>1, <3>3 DEF next, flight, marks
    <2> HIDE DEF event, sending, counted
    <2>6. /\ work' \in [Replicas -> [Goroutines -> Work]]
          /\ work'[r][g] = sending
          /\ \A h \in Goroutines \ {g} : work'[r][h] = work[r][h]
          /\ \A q \in Replicas \ {r} : work'[q] = work[q]
        BY <1>1, <2>1, <2>4, GotoFacts
    <2>7. /\ subs' \in [Replicas -> [Subscriptions -> Subscription \union {None}]]
          /\ subs'[r][s] = counted
          /\ \A x \in Subscriptions \ {s} : subs'[r][x] = subs[r][x]
          /\ \A q \in Replicas \ {r} : subs'[q] = subs[q]
        BY <1>1, <2>1, <2>5, SetSubFacts
    <2>8. Types'
        BY <1>1, <2>6, <2>7 DEF Types
    <2>9. \A q \in Replicas \ {r} : Local(q)'
        BY <2>6, <2>7, Elsewhere
    <2>10. \A h \in Goroutines : Shape(r, h)'
        <3>1. Shape(r, g)'
            BY <1>1, <2>3, <2>4, <2>6 DEF Shape, Local, Goroutines
        <3> QED
            BY <1>1, <2>6, <3>1 DEF Local, Shape
    <2>11. ASSUME NEW x \in Subscriptions PROVE StartedOnce(r, x)'
        <3>1. StartedOnce(r, x)
            BY <1>1 DEF Local
        <3>2. CASE x = s
            BY <3>1, <3>2 DEF StartedOnce
        <3>3. CASE x # s
            BY <2>4, <2>6, <2>7, <3>1, <3>3 DEF StartedOnce, Untouched
        <3> QED
            BY <3>2, <3>3
    <2>12. ASSUME NEW x \in Subscriptions PROVE Counted(r, x)'
        <3>1. Counted(r, x)
            BY <1>1 DEF Local
        <3>2. CASE x = s
            <4>1. InFlight(r, s)' = InFlight(r, s) \union {g} /\ g \notin InFlight(r, s)
                BY <2>4, <2>6 DEF InFlight
            <4>2. IsFiniteSet(InFlight(r, s))
                BY GoroutinesFinite DEF InFlight
            <4>3. Cardinality(InFlight(r, s)') = Cardinality(InFlight(r, s)) + 1
                BY <4>1, <4>2, FS_AddElement
            <4> QED
                BY <1>3, <2>5, <2>7, <3>1, <3>2, <4>3 DEF Counted
        <3>3. CASE x # s
            <4>1. InFlight(r, x)' = InFlight(r, x)
                BY <2>4, <2>6, <3>3 DEF InFlight
            <4> QED
                BY <2>7, <3>1, <3>3, <4>1 DEF Counted
        <3> QED
            BY <3>2, <3>3
    <2>13. ASSUME NEW x \in Subscriptions PROVE Numbered(r, x)'
        <3>1. Numbered(r, x)
            BY <1>1 DEF Local
        <3>2. CASE x # s
            <4>1. \A h \in Goroutines : Sends(r, h, x)' => Sends(r, h, x) /\ work'[r][h] = work[r][h]
                BY <2>4, <2>6, <3>2 DEF Sends
            <4> QED
                BY <2>7, <3>1, <3>2, <4>1 DEF Numbered
        <3>3. CASE x = s
            <4>1. \A i \in 1 .. Len(sink[s]) : sink[s][i].seq \in Nat
                BY <1>1, SinkFacts
            <4>2. \A h \in Goroutines \ {g} : Sends(r, h, s)' => Sends(r, h, s) /\ work'[r][h] = work[r][h]
                BY <2>6 DEF Sends
            <4>3. \A h \in Goroutines : Sends(r, h, s) =>
                    work[r][h].event.seq \in Nat /\ work[r][h].event.seq < sub.nextSeq
                <5> SUFFICES ASSUME NEW h \in Goroutines, Sends(r, h, s)
                             PROVE  work[r][h].event.seq \in Nat /\ work[r][h].event.seq < sub.nextSeq
                    OBVIOUS
                <5>1. work[r][h].event \in Event
                    BY <1>1 DEF Local, Shape, Sends
                <5> QED
                    BY <1>3, <3>1, <3>3, <5>1 DEF Event, Numbered
            <4>4. work'[r][g].event.seq = sub.nextSeq
                BY <2>3, <2>4, <2>6
            <4>5. \A i \in 1 .. Len(sink[s]) :
                    sink[s][i].replica = r => sink[s][i].seq < sub.nextSeq
                BY <1>3, <3>1, <3>3 DEF Numbered
            <4>6. ASSUME NEW h \in Goroutines, Sends(r, h, s)'
                  PROVE  /\ work'[r][h].event.seq < sub.nextSeq + 1
                         /\ \A i \in 1 .. Len(sink[s]) :
                              sink[s][i].replica = r => sink[s][i].seq # work'[r][h].event.seq
                         /\ \A k \in Goroutines :
                              Sends(r, k, s)' /\ h # k => work'[r][k].event.seq # work'[r][h].event.seq
                <5>1. CASE h = g
                    BY <2>5, <4>1, <4>2, <4>3, <4>4, <4>5, <5>1
                <5>2. CASE h # g
                    <6>1. Sends(r, h, s) /\ work'[r][h] = work[r][h]
                        BY <4>2, <4>6, <5>2
                    <6>2. work[r][h].event.seq \in Nat /\ work[r][h].event.seq < sub.nextSeq
                        BY <4>3, <6>1
                    <6>3. \A i \in 1 .. Len(sink[s]) :
                            sink[s][i].replica = r => sink[s][i].seq # work[r][h].event.seq
                        BY <3>1, <3>3, <6>1 DEF Numbered
                    <6>4. \A k \in Goroutines \ {g} :
                            Sends(r, k, s) /\ h # k => work[r][k].event.seq # work[r][h].event.seq
                        BY <3>1, <3>3, <6>1 DEF Numbered
                    <6> QED
                        BY <2>5, <4>2, <4>4, <6>1, <6>2, <6>3, <6>4
                <5> QED
                    BY <5>1, <5>2
            <4>7. \A i \in 1 .. Len(sink[s]) :
                    sink[s][i].replica = r => sink[s][i].seq < sub.nextSeq + 1
                BY <2>5, <4>1, <4>5
            <4> QED
                BY <2>5, <2>7, <3>3, <4>6, <4>7 DEF Numbered
        <3> QED
            BY <3>2, <3>3
    <2>14. ASSUME NEW x \in Subscriptions PROVE Marked(r, x)'
        <3>1. Marked(r, x)
            BY <1>1 DEF Local
        <3> SUFFICES ASSUME NEW t \in Traces
                     PROVE  /\ subs'[r][x] # None =>
                                 IF t \in subs'[r][x].emitted
                                 THEN Told(r, x, t) \/ Telling(r, x, t)' ELSE ~Told(r, x, t)
                            /\ Sends(r, "persisted", x)' /\ work'[r]["persisted"].event.trace = t =>
                                 /\ (work'[r]["persisted"].event.type = "ADDED") <=> ~Told(r, x, t)
                                 /\ subs'[r][x] # None => t \in subs'[r][x].emitted
            BY DEF Marked, Told
        <3>2. CASE g # "persisted"
            <4>1. work'[r]["persisted"] = work[r]["persisted"]
                BY <2>6, <3>2 DEF Goroutines
            <4>2. counted.emitted = sub.emitted
                BY <2>5, <3>2
            <4>3. subs'[r][x] # None => subs[r][x] # None /\ subs'[r][x].emitted = subs[r][x].emitted
                BY <1>3, <2>7, <4>2
            <4> QED
                BY <3>1, <4>1, <4>3 DEF Marked, Telling, Sends
        <3>3. CASE g = "persisted" /\ x # s
            <4>1. ~Telling(r, x, t) /\ ~Sends(r, "persisted", x)'
                BY <2>4, <2>6, <3>3 DEF Telling, Sends
            <4> QED
                BY <2>7, <3>1, <3>3, <4>1 DEF Marked
        <3>4. CASE g = "persisted" /\ x = s
            <4>1. ~Telling(r, s, t)
                BY <3>4 DEF Telling
            <4>2. t \in sub.emitted <=> Told(r, s, t)
                BY <1>3, <3>1, <3>4, <4>1 DEF Marked
            <4>3. Telling(r, s, t)' <=> t = trace
                BY <2>3, <2>4, <2>6, <3>4 DEF Telling
            <4>4. counted.emitted = sub.emitted \union {trace}
                BY <2>5, <3>4, LiveAssumption
            <4>5. /\ work'[r]["persisted"].event.trace = trace
                  /\ work'[r]["persisted"].event.type = type
                BY <2>3, <2>4, <2>6, <3>4
            <4>6. trace = t => ((type = "ADDED") <=> ~Told(r, s, t))
                BY <1>3, <3>4, <4>2
            <4> QED
                BY <2>7, <3>4, <4>2, <4>3, <4>4, <4>5, <4>6
        <3> QED
            BY <3>2, <3>3, <3>4
    <2>15. Local(r)'
        BY <2>10, <2>11, <2>12, <2>13, <2>14 DEF Local
    <2>16. Limited'
        <3> SUFFICES ASSUME NEW q \in Replicas
                     PROVE  IsFiniteSet(Registered(q)') /\ Cardinality(Registered(q)') <= MaxSubscriptions
            BY DEF Limited
        <3>1. Registered(q)' \subseteq Registered(q)
            BY <1>3, <2>7 DEF Registered
        <3> QED
            BY <3>1, FewerRegistered DEF Inv
    <2>17. SeqDeliveredOnce' /\ AddedThenUpdated'
        BY DEF Inv, SeqDeliveredOnce, AddedThenUpdated
    <2> QED
        BY <2>8, <2>9, <2>15, <2>16, <2>17 DEF Inv
<1> QED
    BY <1>2, <1>3 DEF BeginPublish

LEMMA IdleFacts ==
    ASSUME NEW at \in 0 .. MaxTime
    PROVE  Idle(at) \in Work /\ Idle(at).pc = "idle" /\ Idle(at).sub = None /\ Idle(at).todo = {}
    BY LiveAssumption DEF Idle, Work, Pcs

\* A goroutine moves on without beginning or completing a publish.
LEMMA Moves ==
    ASSUME Inv, NEW r \in Replicas, NEW g \in Goroutines, NEW w \in Work, Goto(r, g, w),
           UNCHANGED subs \/ \E s \in Subscriptions : SetSub(r, s, None),
           UNCHANGED <<now, client, startQ, stopQ, sink>>,
           notifications' \in [Replicas -> 0 .. MaxNotifications],
           work[r][g].pc \notin {"send", "complete"},
           g = "persisted" => work[r][g].pc # "failed",
           w.pc \in {"idle", "next", "emit"},
           IF w.pc = "emit" THEN w.sub \in Subscriptions ELSE w.sub = None,
           w.pc = "emit" => g # "heartbeat",
           w.pc = "next" => g # "start",
           \A s \in Subscriptions : Untouched(r, s) => w.sub # s /\ s \notin w.todo
    PROVE  Inv'
<1>1. Types
    BY DEF Inv
<1>2. /\ work' \in [Replicas -> [Goroutines -> Work]]
      /\ work'[r][g] = w
      /\ \A h \in Goroutines \ {g} : work'[r][h] = work[r][h]
      /\ \A q \in Replicas \ {r} : work'[q] = work[q]
    BY <1>1, GotoFacts
<1>3. /\ subs' \in [Replicas -> [Subscriptions -> Subscription \union {None}]]
      /\ \A x \in Subscriptions : subs'[r][x] \in {subs[r][x], None}
      /\ \A q \in Replicas \ {r} : subs'[q] = subs[q]
    BY <1>1, SetSubFacts DEF Types
<1>4. Types'
    BY <1>1, <1>2, <1>3 DEF Types
<1>5. Shape(r, g)'
    BY <1>2 DEF Shape
<1>6. \A h \in Goroutines :
         \/ work'[r][h] = work[r][h]
         \/ /\ Shape(r, h)'
            /\ work[r][h].pc \notin {"send", "complete"}
            /\ work'[r][h].pc \notin {"send", "complete"}
            /\ \A x \in Subscriptions : Untouched(r, x) =>
                 work'[r][h].sub # x /\ x \notin work'[r][h].todo
    BY <1>2, <1>5
<1>7. work'[r]["persisted"] = work[r]["persisted"] \/ work[r]["persisted"].pc # "failed"
    BY <1>2 DEF Goroutines
<1> QED
    BY <1>2, <1>3, <1>4, <1>6, <1>7, Quiet

LEMMA EmitFirstStep ==
    ASSUME Inv, NEW r \in Replicas, EmitFirst(r)
    PROVE  Inv'
<1> DEFINE w == work[r]["start"]
<1>1. "start" \in Goroutines /\ w \in Work /\ w.pc = "emit"
    BY DEF Goroutines, EmitFirst, Inv, Types
<1>2. w.sub \in Subscriptions
    BY <1>1 DEF Inv, Local, Shape
<1>3. ~Untouched(r, w.sub)
    BY <1>1 DEF Untouched
<1> QED
    BY <1>1, <1>2, <1>3, Begins DEF EmitFirst

LEMMA EmitTraceStep ==
    ASSUME Inv, NEW r \in Replicas, EmitTrace(r)
    PROVE  Inv'
<1> DEFINE w == work[r]["persisted"]
<1>1. "persisted" \in Goroutines /\ w \in Work /\ w.pc = "emit"
    BY DEF Goroutines, EmitTrace, Inv, Types
<1>2. w.sub \in Subscriptions
    BY <1>1 DEF Inv, Local, Shape
<1>3. ~Untouched(r, w.sub)
    BY <1>1 DEF Untouched
<1>4. CASE /\ Goto(r, "persisted", [w EXCEPT !.pc = "next", !.sub = None])
           /\ UNCHANGED subs
    <2> DEFINE next == [w EXCEPT !.pc = "next", !.sub = None]
    <2>1. next \in Work /\ next.pc = "next" /\ next.sub = None /\ next.todo = w.todo
        BY <1>1 DEF Work, Pcs
    <2>2. \A s \in Subscriptions : Untouched(r, s) => next.sub # s /\ s \notin next.todo
        BY <1>1, <2>1, LiveAssumption DEF Untouched
    <2>3. notifications' \in [Replicas -> 0 .. MaxNotifications]
        BY DEF EmitTrace, Inv, Types
    <2> HIDE DEF next
    <2> QED
        BY <1>1, <1>4, <2>1, <2>2, <2>3, Moves DEF EmitTrace, next
<1>5. CASE \E t \in w.items :
             LET sub == subs[r][w.sub]
                 type == IF sub # None /\ t \in sub.emitted THEN "UPDATED" ELSE "ADDED"
             IN BeginPublish(r, "persisted", [w EXCEPT !.items = @ \ {t}], type, t)
    <2> DEFINE sub == subs[r][w.sub]
               type(t) == IF sub # None /\ t \in sub.emitted THEN "UPDATED" ELSE "ADDED"
               rest(t) == [w EXCEPT !.items = @ \ {t}]
    <2>1. PICK t \in w.items : BeginPublish(r, "persisted", rest(t), type(t), t)
        BY <1>5
    <2>2. t \in Traces /\ rest(t) \in Work /\ rest(t).sub = w.sub /\ rest(t).todo = w.todo
        BY <1>1 DEF Work
    <2>3. type(t) \in {"HEARTBEAT", "ADDED", "UPDATED"}
        OBVIOUS
    <2>4. type(t) = IF subs[r][rest(t).sub] # None /\ t \in subs[r][rest(t).sub].emitted
                    THEN "UPDATED" ELSE "ADDED"
        BY <2>2
    <2>5. UNCHANGED <<now, client, startQ, stopQ, sink, notifications>>
        BY DEF EmitTrace
    <2> HIDE DEF rest, type
    <2> QED
        BY <1>1, <1>2, <1>3, <2>1, <2>2, <2>3, <2>4, <2>5, Begins
<1> QED
    BY <1>4, <1>5 DEF EmitTrace

LEMMA HandleTracePersistedStep ==
    ASSUME Inv, NEW r \in Replicas, HandleTracePersisted(r)
    PROVE  Inv'
<1>1. PICK ids \in SUBSET Traces :
        Goto(r, "persisted", [Idle(0) EXCEPT !.pc = "next", !.ids = ids, !.todo = Registered(r)])
    BY DEF HandleTracePersisted
<1> DEFINE w == [Idle(0) EXCEPT !.pc = "next", !.ids = ids, !.todo = Registered(r)]
<1>2. w \in Work /\ w.pc = "next" /\ w.sub = None /\ w.todo = Registered(r)
    <2> DEFINE base == Idle(0)
    <2>1. base \in Work /\ base.sub = None /\ Registered(r) \in SUBSET Subscriptions
        BY IdleFacts, LiveAssumption DEF Registered
    <2> HIDE DEF base
    <2>2. /\ [base EXCEPT !.pc = "next", !.ids = ids, !.todo = Registered(r)] \in Work
          /\ [base EXCEPT !.pc = "next", !.ids = ids, !.todo = Registered(r)].pc = "next"
          /\ [base EXCEPT !.pc = "next", !.ids = ids, !.todo = Registered(r)].sub = None
          /\ [base EXCEPT !.pc = "next", !.ids = ids, !.todo = Registered(r)].todo = Registered(r)
        BY <2>1 DEF Work, Pcs
    <2> QED
        BY <2>2 DEF base
<1>3. \A s \in Subscriptions : Untouched(r, s) => w.sub # s /\ s \notin w.todo
    BY <1>2, LiveAssumption DEF Untouched, Registered
<1>4. notifications' \in [Replicas -> 0 .. MaxNotifications]
    BY LiveAssumption DEF HandleTracePersisted, Inv, Types
<1>5. "persisted" \in Goroutines
    BY DEF Goroutines
<1> HIDE DEF w
<1> QED
    BY <1>1, <1>2, <1>3, <1>4, <1>5, Moves DEF HandleTracePersisted, w

LEMMA QueryCandidatesStep ==
    ASSUME Inv, NEW r \in Replicas, QueryCandidates(r)
    PROVE  Inv'
<1> DEFINE w == work[r]["persisted"]
<1>1. /\ "persisted" \in Goroutines /\ w \in Work /\ w.pc = "next"
      /\ notifications' \in [Replicas -> 0 .. MaxNotifications]
    BY DEF Goroutines, QueryCandidates, Inv, Types
<1>2. CASE Goto(r, "persisted", Idle(0))
    <2>1. Idle(0) \in Work /\ Idle(0).pc = "idle" /\ Idle(0).sub = None /\ Idle(0).todo = {}
        BY IdleFacts, LiveAssumption
    <2> QED
        BY <1>1, <1>2, <2>1, Moves, LiveAssumption DEF QueryCandidates
<1>3. CASE \E s \in w.todo, items \in SUBSET w.ids :
             Goto(r, "persisted", [w EXCEPT !.pc = "emit", !.sub = s, !.todo = @ \ {s},
                                            !.items = items])
    <2>1. PICK s \in w.todo, items \in SUBSET w.ids :
             Goto(r, "persisted", [w EXCEPT !.pc = "emit", !.sub = s, !.todo = @ \ {s},
                                            !.items = items])
        BY <1>3
    <2> DEFINE v == [w EXCEPT !.pc = "emit", !.sub = s, !.todo = @ \ {s}, !.items = items]
    <2>2. v \in Work /\ v.pc = "emit" /\ v.sub = s /\ v.todo = w.todo \ {s} /\ s \in Subscriptions
        BY <1>1 DEF Work, Pcs
    <2>3. \A x \in Subscriptions : Untouched(r, x) => v.sub # x /\ x \notin v.todo
        BY <1>1, <2>2 DEF Untouched
    <2> HIDE DEF v
    <2> QED
        BY <1>1, <2>1, <2>2, <2>3, Moves DEF QueryCandidates, v
<1> QED
    BY <1>2, <1>3 DEF QueryCandidates

LEMMA EmitHeartbeatsStep ==
    ASSUME Inv, NEW r \in Replicas, EmitHeartbeats(r)
    PROVE  Inv'
<1> DEFINE w == [Idle(now) EXCEPT !.pc = "next", !.todo = Registered(r)]
<1>1. w \in Work /\ w.pc = "next" /\ w.sub = None /\ w.todo = Registered(r)
    <2> DEFINE base == Idle(now)
    <2>1. base \in Work /\ base.sub = None /\ Registered(r) \in SUBSET Subscriptions
        BY IdleFacts DEF Registered, Inv, Types
    <2> HIDE DEF base
    <2>2. /\ [base EXCEPT !.pc = "next", !.todo = Registered(r)] \in Work
          /\ [base EXCEPT !.pc = "next", !.todo = Registered(r)].pc = "next"
          /\ [base EXCEPT !.pc = "next", !.todo = Registered(r)].sub = None
          /\ [base EXCEPT !.pc = "next", !.todo = Registered(r)].todo = Registered(r)
        BY <2>1 DEF Work, Pcs
    <2> QED
        BY <2>2 DEF base
<1>2. \A s \in Subscriptions : Untouched(r, s) => w.sub # s /\ s \notin w.todo
    BY <1>1, LiveAssumption DEF Untouched, Registered
<1>3. "heartbeat" \in Goroutines /\ notifications' \in [Replicas -> 0 .. MaxNotifications]
    BY DEF Goroutines, EmitHeartbeats, Inv, Types
<1>4. Goto(r, "heartbeat", w)
    BY DEF EmitHeartbeats
<1> HIDE DEF w
<1> QED
    BY <1>1, <1>2, <1>3, <1>4, Moves DEF EmitHeartbeats

LEMMA EmitHeartbeatStep ==
    ASSUME Inv, NEW r \in Replicas, EmitHeartbeat(r)
    PROVE  Inv'
<1> DEFINE w == work[r]["heartbeat"]
           rest(s) == [w EXCEPT !.todo = @ \ {s}]
           beating(s) == [rest(s) EXCEPT !.sub = s]
<1>1. /\ "heartbeat" \in Goroutines /\ w \in Work /\ w.pc = "next"
      /\ notifications' \in [Replicas -> 0 .. MaxNotifications]
      /\ UNCHANGED <<now, client, startQ, stopQ, sink, notifications>>
    BY DEF Goroutines, EmitHeartbeat, Inv, Types
<1>2. w.sub = None
    BY <1>1 DEF Inv, Local, Shape
<1>3. CASE Goto(r, "heartbeat", Idle(w.at)) /\ UNCHANGED subs
    <2>1. /\ Idle(w.at) \in Work /\ Idle(w.at).pc = "idle" /\ Idle(w.at).sub = None
          /\ Idle(w.at).todo = {}
        BY <1>1, LiveAssumption DEF Idle, Work, Pcs
    <2> QED
        BY <1>1, <1>3, <2>1, Moves, LiveAssumption
<1>4. ASSUME NEW s \in w.todo, Goto(r, "heartbeat", rest(s)),
             UNCHANGED subs \/ SetSub(r, s, None)
      PROVE  Inv'
    <2>1. /\ rest(s) \in Work /\ rest(s).pc = "next" /\ rest(s).sub = None
          /\ rest(s).todo \subseteq w.todo /\ s \in Subscriptions
        BY <1>1, <1>2 DEF Work
    <2>2. \A x \in Subscriptions : Untouched(r, x) => rest(s).sub # x /\ x \notin rest(s).todo
        BY <1>1, <2>1, LiveAssumption DEF Untouched
    <2> HIDE DEF rest
    <2> QED
        BY <1>1, <1>4, <2>1, <2>2, Moves
<1>5. ASSUME NEW s \in w.todo, BeginPublish(r, "heartbeat", beating(s), "HEARTBEAT", None)
      PROVE  Inv'
    <2>1. /\ beating(s) \in Work /\ beating(s).sub = s /\ s \in Subscriptions
          /\ beating(s).todo \subseteq w.todo
        BY <1>1 DEF Work
    <2>2. ~Untouched(r, s)
        BY <1>1 DEF Untouched
    <2> HIDE DEF beating, rest
    <2> QED
        BY <1>1, <1>5, <2>1, <2>2, Begins
<1> QED
    BY <1>3, <1>4, <1>5 DEF EmitHeartbeat

LEMMA ResumedInWork ==
    ASSUME NEW g \in Goroutines, NEW w \in Work
    PROVE  Resumed(g, w) \in Work
<1>1. CASE g = "start"
    BY <1>1, IdleFacts, LiveAssumption DEF Resumed
<1>2. CASE g = "persisted"
    BY <1>2 DEF Resumed, Work, Pcs
<1>3. CASE g = "heartbeat"
    BY <1>3 DEF Resumed, Work, Pcs
<1> QED
    BY <1>1, <1>2, <1>3 DEF Goroutines

LEMMA ResumedFacts ==
    ASSUME NEW g \in Goroutines, NEW w \in Work
    PROVE  /\ Resumed(g, w).pc \in {"idle", "emit", "next"}
           /\ IF g = "persisted" THEN Resumed(g, w).pc = "emit" /\ Resumed(g, w).sub = w.sub
              ELSE Resumed(g, w).pc # "emit" /\ Resumed(g, w).sub = None
           /\ Resumed(g, w).pc = "next" => g # "start"
           /\ Resumed(g, w).todo \subseteq w.todo
<1>1. CASE g = "start"
    BY <1>1, IdleFacts, LiveAssumption DEF Resumed
<1>2. CASE g = "persisted"
    BY <1>2 DEF Resumed, Work
<1>3. CASE g = "heartbeat"
    BY <1>3 DEF Resumed, Work
<1> QED
    BY <1>1, <1>2, <1>3 DEF Goroutines

LEMMA StopStep ==
    ASSUME Inv, NEW r \in Replicas, NEW s \in Subscriptions, Stop(r, s)
    PROVE  Inv'
<1>1. Types
    BY DEF Inv
<1>2. /\ subs' \in [Replicas -> [Subscriptions -> Subscription \union {None}]]
      /\ \A x \in Subscriptions : subs'[r][x] \in {subs[r][x], None}
      /\ \A q \in Replicas \ {r} : subs'[q] = subs[q]
    BY <1>1, SetSubFacts DEF Stop
<1>3. Types'
    BY <1>1, <1>2 DEF Types, Stop
<1> QED
    BY <1>2, <1>3, Quiet DEF Stop

LEMMA FailPublishStep ==
    ASSUME Inv, NEW r \in Replicas, NEW g \in Goroutines, FailPublish(r, g)
    PROVE  Inv'
<1> DEFINE w == work[r][g]
           s == w.sub
<1>1. Types /\ w \in Work /\ w.pc = "failed"
    BY DEF Inv, Types, FailPublish
<1>2. s \in Subscriptions /\ ~Untouched(r, s)
    BY <1>1 DEF Inv, Local, Shape, Untouched
<1>3. Resumed(g, w) \in Work
    BY <1>1, ResumedInWork
<1>4. /\ Resumed(g, w).pc \in {"idle", "emit", "next"}
      /\ IF g = "persisted" THEN Resumed(g, w).pc = "emit" /\ Resumed(g, w).sub = s
         ELSE Resumed(g, w).pc # "emit" /\ Resumed(g, w).sub = None
      /\ Resumed(g, w).pc = "next" => g # "start"
      /\ Resumed(g, w).todo \subseteq w.todo
    BY <1>1, ResumedFacts
<1>5. /\ work' \in [Replicas -> [Goroutines -> Work]]
      /\ work'[r][g] = Resumed(g, w)
      /\ \A h \in Goroutines \ {g} : work'[r][h] = work[r][h]
      /\ \A q \in Replicas \ {r} : work'[q] = work[q]
    BY <1>1, <1>3, GotoFacts DEF FailPublish
<1>6. /\ subs' \in [Replicas -> [Subscriptions -> Subscription \union {None}]]
      /\ subs'[r][s] = None
      /\ \A x \in Subscriptions : subs'[r][x] \in {subs[r][x], None}
      /\ \A q \in Replicas \ {r} : subs'[q] = subs[q]
    BY <1>1, <1>2, SetSubFacts DEF FailPublish
<1>7. /\ client' \in [Subscriptions -> [state : ClientStates, since : 0 .. MaxTime]]
      /\ \A x \in Subscriptions : client'[x].state = "new" => client[x].state = "new"
    BY <1>1, <1>2, ReplyFacts DEF FailPublish, ClientStates, Types
<1>8. Types'
    BY <1>1, <1>5, <1>6, <1>7 DEF Types, FailPublish
<1>9. \A h \in Goroutines :
         \/ work'[r][h] = work[r][h]
         \/ /\ Shape(r, h)'
            /\ work[r][h].pc \notin {"send", "complete"}
            /\ work'[r][h].pc \notin {"send", "complete"}
            /\ \A x \in Subscriptions : Untouched(r, x) =>
                 work'[r][h].sub # x /\ x \notin work'[r][h].todo
    <2>1. Shape(r, g)'
        BY <1>2, <1>4, <1>5 DEF Shape
    <2>2. \A x \in Subscriptions : Untouched(r, x) =>
            work'[r][g].sub # x /\ x \notin work'[r][g].todo
        BY <1>2, <1>4, <1>5, LiveAssumption DEF Untouched
    <2> QED
        BY <1>1, <1>4, <1>5, <2>1, <2>2
<1>10. work'[r]["persisted"] = work[r]["persisted"] \/ subs'[r][work[r]["persisted"].sub] = None
    BY <1>5, <1>6 DEF Goroutines
<1> QED
    BY <1>5, <1>6, <1>7, <1>8, <1>9, <1>10, Quiet DEF FailPublish

\* A start request is handled: refused at the limit, or an object for a subscription
\* of which the replica had nothing.
LEMMA StartStep ==
    ASSUME Inv, NEW r \in Replicas, NEW s \in Subscriptions, Start(r, s)
    PROVE  Inv'
<1>1. /\ Types /\ Local(r) /\ "start" \in Goroutines
      /\ work[r]["start"].pc = "idle" /\ s \in startQ[r]
      /\ UNCHANGED <<now, stopQ, sink, notifications>>
    BY DEF Inv, Start, Goroutines
<1>2. /\ startQ' \in [Replicas -> SUBSET Subscriptions]
      /\ startQ'[r] = startQ[r] \ {s}
      /\ \A q \in Replicas : startQ'[q] \subseteq startQ[q]
    BY <1>1 DEF Types, Start
<1>3. CASE AtLimit(r)
    <2>1. /\ client' \in [Subscriptions -> [state : ClientStates, since : 0 .. MaxTime]]
          /\ \A x \in Subscriptions : client'[x].state = "new" => client[x].state = "new"
        BY <1>1, <1>3, ReplyFacts DEF Start, ClientStates
    <2>2. UNCHANGED <<subs, work>>
        BY <1>3 DEF Start
    <2>3. Types'
        BY <1>1, <1>2, <2>1, <2>2 DEF Types
    <2> QED
        BY <1>1, <1>2, <2>1, <2>2, <2>3, Quiet
<1>4. CASE ~AtLimit(r)
    <2> DEFINE new == [nextSeq |-> 1, inFlight |-> 0, lastBeat |-> now, lastProgress |-> now,
                       emitted |-> {}]
               w == [Idle(0) EXCEPT !.pc = "emit", !.sub = s]
    <2>1. SetSub(r, s, new) /\ Goto(r, "start", w) /\ UNCHANGED client
        BY <1>4 DEF Start
    <2>2. /\ new \in Subscription /\ new.nextSeq = 1 /\ new.inFlight = 0 /\ new.emitted = {}
        BY <1>1, LiveAssumption DEF Subscription, Types
    <2>3. w \in Work /\ w.pc = "emit" /\ w.sub = s /\ w.todo = {}
        BY LiveAssumption DEF Idle, Work, Pcs
    <2> HIDE DEF new, w
    <2>4. /\ work' \in [Replicas -> [Goroutines -> Work]]
          /\ work'[r]["start"] = w
          /\ \A h \in Goroutines \ {"start"} : work'[r][h] = work[r][h]
          /\ \A q \in Replicas \ {r} : work'[q] = work[q]
        BY <1>1, <2>1, <2>3, GotoFacts
    <2>5. /\ subs' \in [Replicas -> [Subscriptions -> Subscription \union {None}]]
          /\ subs'[r][s] = new
          /\ \A x \in Subscriptions \ {s} : subs'[r][x] = subs[r][x]
          /\ \A q \in Replicas \ {r} : subs'[q] = subs[q]
        BY <1>1, <2>1, <2>2, SetSubFacts
    <2>6. Types'
        BY <1>1, <1>2, <2>1, <2>4, <2>5 DEF Types
    <2>7. \A q \in Replicas \ {r} : Local(q)'
        BY <1>1, <1>2, <2>1, <2>4, <2>5, Elsewhere
    <2>8. Untouched(r, s)
        BY <1>1 DEF Local, StartedOnce
    <2>9. \A h \in Goroutines : Shape(r, h)'
        BY <1>1, <2>3, <2>4 DEF Shape, Local
    <2>10. ASSUME NEW x \in Subscriptions PROVE StartedOnce(r, x)'
        <3>1. StartedOnce(r, x)
            BY <1>1 DEF Local
        <3>2. CASE x = s
            BY <1>1, <1>2, <2>1, <3>1, <3>2 DEF StartedOnce
        <3>3. CASE x # s
            BY <1>1, <1>2, <2>1, <2>3, <2>4, <2>5, <3>1, <3>3 DEF StartedOnce, Untouched
        <3> QED
            BY <3>2, <3>3
    <2>11. ASSUME NEW x \in Subscriptions, NEW h \in Goroutines
           PROVE  Sends(r, h, x)' => x # s /\ h # "start" /\ Sends(r, h, x) /\ work'[r][h] = work[r][h]
        BY <2>3, <2>4, <2>8 DEF Sends, Untouched
    <2>12. ASSUME NEW x \in Subscriptions PROVE Counted(r, x)'
        <3>1. CASE x = s
            <4>1. InFlight(r, s)' = {}
                BY <2>3, <2>4, <2>8 DEF InFlight, Untouched
            <4> QED
                BY <2>2, <2>5, <3>1, <4>1, FS_EmptySet DEF Counted
        <3>2. CASE x # s
            <4>1. InFlight(r, x)' = InFlight(r, x)
                BY <1>1, <2>3, <2>4, <3>2 DEF InFlight
            <4> QED
                BY <1>1, <2>5, <3>2, <4>1 DEF Local, Counted
        <3> QED
            BY <3>1, <3>2
    <2>13. ASSUME NEW x \in Subscriptions PROVE Numbered(r, x)'
        <3>1. CASE x = s
            BY <1>1, <2>8, <2>11, <3>1 DEF Numbered, Untouched
        <3>2. CASE x # s
            BY <1>1, <2>5, <2>11, <3>2 DEF Numbered, Local
        <3> QED
            BY <3>1, <3>2
    <2>14. ASSUME NEW x \in Subscriptions PROVE Marked(r, x)'
        <3>1. work'[r]["persisted"] = work[r]["persisted"]
            BY <2>4 DEF Goroutines
        <3>2. CASE x = s
            <4>1. \A t \in Traces : ~Told(r, s, t)'
                BY <1>1, <2>8 DEF Untouched, Told
            <4> QED
                BY <2>2, <2>5, <2>11, <3>2, <4>1 DEF Marked, Goroutines
        <3>3. CASE x # s
            BY <1>1, <2>5, <3>1, <3>3 DEF Local, Marked, Told, Telling, Sends
        <3> QED
            BY <3>2, <3>3
    <2>15. Local(r)'
        BY <2>9, <2>10, <2>12, <2>13, <2>14 DEF Local
    <2>16. Limited'
        <3> SUFFICES ASSUME NEW q \in Replicas
                     PROVE  IsFiniteSet(Registered(q)') /\ Cardinality(Registered(q)') <= MaxSubscriptions
            BY DEF Limited
        <3>1. CASE q = r
            <4>1. /\ IsFiniteSet(Registered(r)) /\ Cardinality(Registered(r)) \in Nat
                  /\ Cardinality(Registered(r)) < MaxSubscriptions
                BY <1>4, FS_CardinalityType, LiveAssumption DEF Inv, Limited, AtLimit
            <4>2. s \notin Registered(r)
                BY <2>8 DEF Registered, Untouched
            <4>3. /\ IsFiniteSet(Registered(r) \union {s})
                  /\ Cardinality(Registered(r) \union {s}) = Cardinality(Registered(r)) + 1
                BY <4>1, <4>2, FS_AddElement
            <4>4. Registered(r)' \subseteq Registered(r) \union {s}
                BY <2>5 DEF Registered
            <4>5. /\ IsFiniteSet(Registered(r)') /\ Cardinality(Registered(r)') \in Nat
                  /\ Cardinality(Registered(r)') <= Cardinality(Registered(r) \union {s})
                BY <4>3, <4>4, FS_Subset, FS_CardinalityType
            <4> QED
                BY <3>1, <4>1, <4>3, <4>5, LiveAssumption
        <3>2. CASE q # r
            <4>1. Registered(q)' \subseteq Registered(q)
                BY <2>5, <3>2 DEF Registered
            <4> QED
                BY <4>1, FewerRegistered DEF Inv
        <3> QED
            BY <3>1, <3>2
    <2>17. SeqDeliveredOnce' /\ AddedThenUpdated'
        BY <1>1 DEF Inv, SeqDeliveredOnce, AddedThenUpdated
    <2> QED
        BY <2>6, <2>7, <2>15, <2>16, <2>17 DEF Inv
<1> QED
    BY <1>3, <1>4

LEMMA AppendFacts ==
    ASSUME NEW S, NEW seq \in Seq(S), NEW e \in S
    PROVE  /\ Append(seq, e) \in Seq(S) /\ Len(Append(seq, e)) = Len(seq) + 1
           /\ \A i \in 1 .. Len(seq) : i \in 1 .. Len(Append(seq, e)) /\ Append(seq, e)[i] = seq[i]
           /\ Append(seq, e)[Len(seq) + 1] = e
    OBVIOUS

\* An event arrives at its sink, or is lost with the connection.
LEMMA SendStep ==
    ASSUME Inv, NEW r \in Replicas, NEW g \in Goroutines, Send(r, g)
    PROVE  Inv'
<1>0. PICK w, s, event, n : w = work[r][g] /\ s = w.sub /\ event = w.event /\ n = Len(sink[s])
    OBVIOUS
<1>1. /\ Types /\ Local(r) /\ w \in Work /\ w.pc = "send"
      /\ UNCHANGED <<now, client, startQ, stopQ, subs, notifications>>
    BY <1>0 DEF Inv, Types, Send
<1>2. /\ s \in Subscriptions /\ event \in Event /\ event.replica = r /\ event.seq \in Nat
      /\ IF g = "persisted" THEN event.trace \in Traces ELSE event.trace = None
    BY <1>0, <1>1 DEF Local, Shape, Event
<1>3. /\ sink[s] \in Seq(Event) /\ n \in Nat
      /\ \A i \in 1 .. n : sink[s][i] \in Event /\ sink[s][i].seq \in Nat
    BY <1>0, <1>1, <1>2, SinkFacts
<1>4. PICK sent \in BOOLEAN :
        /\ Goto(r, g, [w EXCEPT !.pc = "complete", !.sent = sent])
        /\ \/ sent = TRUE /\ sink' = [sink EXCEPT ![s] = Append(@, event)]
           \/ sent = FALSE /\ UNCHANGED sink
    BY <1>0 DEF Send
<1> DEFINE done == [w EXCEPT !.pc = "complete", !.sent = sent]
<1>5. /\ done \in Work /\ done.pc = "complete" /\ done.sub = s /\ done.todo = w.todo
      /\ done.event = event /\ done.sent = sent
    BY <1>0, <1>1 DEF Work, Pcs
<1> HIDE DEF done
<1>6. /\ work' \in [Replicas -> [Goroutines -> Work]]
      /\ work'[r][g] = done
      /\ \A h \in Goroutines \ {g} : work'[r][h] = work[r][h]
      /\ \A q \in Replicas \ {r} : work'[q] = work[q]
    BY <1>0, <1>1, <1>4, <1>5, GotoFacts DEF done
<1>7. /\ sink' \in [Subscriptions -> Seq(Event)]
      /\ \A x \in Subscriptions \ {s} : sink'[x] = sink[x]
      /\ \A i \in 1 .. n : i \in 1 .. Len(sink'[s]) /\ sink'[s][i] = sink[s][i]
      /\ \/ /\ sent = TRUE /\ Len(sink'[s]) = n + 1 /\ sink'[s][n + 1] = event
         \/ sent = FALSE /\ Len(sink'[s]) = n
    <2>1. CASE sent = TRUE /\ sink' = [sink EXCEPT ![s] = Append(@, event)]
        <3>1. /\ sink' \in [Subscriptions -> Seq(Event)]
              /\ \A x \in Subscriptions \ {s} : sink'[x] = sink[x]
              /\ sink'[s] = Append(sink[s], event)
            BY <1>1, <1>2, <1>3, <2>1, AppendFacts DEF Types
        <3> QED
            BY <1>0, <1>2, <1>3, <2>1, <3>1, AppendFacts
    <2>2. CASE sent = FALSE /\ UNCHANGED sink
        BY <1>0, <1>1, <1>3, <2>2 DEF Types
    <2> QED
        BY <1>4, <2>1, <2>2
<1>8. /\ \A i \in 1 .. n : i \in 1 .. Len(sink'[s]) /\ sink'[s][i] = sink[s][i]
      /\ \A x \in Subscriptions \ {s} : sink'[x] = sink[x]
    BY <1>7
<1>9. /\ sent = TRUE => Len(sink'[s]) = n + 1 /\ sink'[s][n + 1] = event /\ n + 1 \in 1 .. Len(sink'[s])
      /\ \A i \in 1 .. Len(sink'[s]) : i \in 1 .. n \/ (sent = TRUE /\ i = n + 1 /\ i \notin 1 .. n)
    BY <1>3, <1>7
<1>10. Types'
    BY <1>1, <1>6, <1>7 DEF Types
<1>11. ASSUME NEW q \in Replicas \ {r} PROVE Local(q)'
    <2>1. Local(q) /\ work'[q] = work[q] /\ UNCHANGED <<client, startQ, subs>>
        BY <1>1, <1>6 DEF Inv
    <2>2. ASSUME NEW h \in Goroutines PROVE Shape(q, h)'
        BY <2>1 DEF Local, Shape
    <2>3. ASSUME NEW x \in Subscriptions, NEW i \in 1 .. Len(sink'[x]), sink'[x][i].replica = q
          PROVE  i \in 1 .. Len(sink[x]) /\ sink[x][i] = sink'[x][i]
        <3>1. CASE x # s
            BY <1>8, <3>1
        <3>2. CASE x = s
            <4>1. sent = TRUE /\ i = n + 1 => sink'[x][i].replica = r
                BY <1>2, <1>9, <3>2
            <4>2. i \in 1 .. n
                BY <1>9, <2>3, <3>2, <4>1
            <4> QED
                BY <1>0, <1>8, <3>2, <4>2
        <3> QED
            BY <3>1, <3>2
    <2>4. ASSUME NEW x \in Subscriptions, NEW i \in 1 .. Len(sink[x])
          PROVE  i \in 1 .. Len(sink'[x]) /\ sink'[x][i] = sink[x][i]
        BY <1>0, <1>8
    <2>5. ASSUME NEW x \in Subscriptions
          PROVE  (StartedOnce(q, x) /\ Counted(q, x) /\ Numbered(q, x) /\ Marked(q, x))'
        <3>1. StartedOnce(q, x) /\ Counted(q, x) /\ Numbered(q, x) /\ Marked(q, x)
            BY <2>1 DEF Local
        <3>2. StartedOnce(q, x)'
            BY <2>1, <2>3, <3>1 DEF StartedOnce, Untouched
        <3>3. Counted(q, x)'
            BY <2>1, <3>1 DEF Counted, InFlight
        <3>4. Numbered(q, x)'
            BY <2>1, <2>3, <3>1 DEF Numbered, Sends
        <3>5. \A t \in Traces : Told(q, x, t)' <=> Told(q, x, t)
            BY <2>3, <2>4 DEF Told
        <3>6. Marked(q, x)'
            BY <2>1, <3>1, <3>5 DEF Marked, Telling, Sends
        <3> QED
            BY <3>2, <3>3, <3>4, <3>6
    <2> QED
        BY <2>2, <2>5 DEF Local
<1>12. \A h \in Goroutines : Shape(r, h)'
    BY <1>0, <1>1, <1>2, <1>5, <1>6 DEF Local, Shape
<1>13. ASSUME NEW x \in Subscriptions PROVE StartedOnce(r, x)'
    <2>1. StartedOnce(r, x)
        BY <1>1 DEF Local
    <2>2. Untouched(r, x) => x # s
        BY <1>0 DEF Untouched
    <2> QED
        BY <1>0, <1>1, <1>5, <1>6, <1>8, <2>1, <2>2 DEF StartedOnce, Untouched
<1>14. ASSUME NEW x \in Subscriptions PROVE Counted(r, x)'
    <2>1. InFlight(r, x)' = InFlight(r, x)
        BY <1>0, <1>1, <1>5, <1>6 DEF InFlight
    <2> QED
        BY <1>1, <2>1 DEF Local, Counted
<1>15. ASSUME NEW x \in Subscriptions, NEW h \in Goroutines, Sends(r, h, x)'
       PROVE  h # g /\ Sends(r, h, x) /\ work'[r][h] = work[r][h]
    BY <1>5, <1>6, <1>15 DEF Sends
<1>16. Sends(r, g, s)
    BY <1>0, <1>1 DEF Sends
<1>17. ASSUME NEW x \in Subscriptions PROVE Numbered(r, x)'
    <2>1. Numbered(r, x)
        BY <1>1 DEF Local
    <2>2. CASE x # s
        BY <1>0, <1>1, <1>8, <1>15, <2>1, <2>2 DEF Numbered
    <2>3. CASE x = s
        <3>1. ASSUME NEW i \in 1 .. Len(sink'[s]), sink'[s][i].replica = r, subs[r][s] # None
              PROVE  sink'[s][i].seq < subs[r][s].nextSeq
            BY <1>0, <1>8, <1>9, <1>16, <2>1, <2>3, <3>1 DEF Numbered
        <3>2. ASSUME NEW h \in Goroutines, Sends(r, h, s)',
                     NEW i \in 1 .. Len(sink'[s]), sink'[s][i].replica = r
              PROVE  sink'[s][i].seq # work'[r][h].event.seq
            <4>1. h # g /\ Sends(r, h, s) /\ work'[r][h] = work[r][h]
                BY <1>2, <1>15, <3>2
            <4>2. CASE i \in 1 .. n
                BY <1>0, <1>8, <2>1, <2>3, <3>2, <4>1, <4>2 DEF Numbered
            <4>3. CASE i \notin 1 .. n
                <5>1. sink'[s][i] = event
                    BY <1>9, <4>3
                <5> QED
                    BY <1>0, <1>16, <2>1, <2>3, <4>1, <5>1 DEF Numbered
            <4> QED
                BY <4>2, <4>3
        <3> QED
            BY <1>1, <1>15, <2>1, <2>3, <3>1, <3>2 DEF Numbered
    <2> QED
        BY <2>2, <2>3
<1>18. ASSUME NEW x \in Subscriptions PROVE Marked(r, x)'
    <2>1. Marked(r, x)
        BY <1>1 DEF Local
    <2>2. CASE x # s
        <3>1. \A t \in Traces : Told(r, x, t)' <=> Told(r, x, t)
            BY <1>8, <2>2 DEF Told
        <3>2. \A t \in Traces : Telling(r, x, t)' <=> Telling(r, x, t)
            BY <1>0, <1>5, <1>6, <2>2 DEF Telling, Goroutines
        <3> QED
            BY <1>1, <1>15, <2>1, <2>2, <3>1, <3>2 DEF Marked, Goroutines
    <2>3. CASE x = s /\ g # "persisted"
        <3>1. \A t \in Traces : Told(r, s, t)' <=> Told(r, s, t)
            <4> SUFFICES ASSUME NEW t \in Traces PROVE Told(r, s, t)' <=> Told(r, s, t)
                OBVIOUS
            <4>1. Told(r, s, t) => Told(r, s, t)'
                BY <1>0, <1>8 DEF Told
            <4>2. event.trace # t
                BY <1>2, <2>3, LiveAssumption
            <4>3. Told(r, s, t)' => Told(r, s, t)
                BY <1>0, <1>8, <1>9, <4>2 DEF Told
            <4> QED
                BY <4>1, <4>3
        <3>2. work'[r]["persisted"] = work[r]["persisted"]
            BY <1>6, <2>3 DEF Goroutines
        <3> QED
            BY <1>1, <2>1, <2>3, <3>1, <3>2 DEF Marked, Telling, Sends
    <2>4. CASE x = s /\ g = "persisted"
        <3>1. \A t \in Traces : Told(r, s, t)' <=> Told(r, s, t) \/ (sent = TRUE /\ t = event.trace)
            <4> SUFFICES ASSUME NEW t \in Traces
                         PROVE  Told(r, s, t)' <=> Told(r, s, t) \/ (sent = TRUE /\ t = event.trace)
                OBVIOUS
            <4>1. Told(r, s, t) => Told(r, s, t)'
                BY <1>0, <1>8 DEF Told
            <4>2. sent = TRUE /\ t = event.trace => Told(r, s, t)'
                BY <1>2, <1>3, <1>9 DEF Told
            <4>3. Told(r, s, t)' => Told(r, s, t) \/ (sent = TRUE /\ t = event.trace)
                BY <1>0, <1>8, <1>9 DEF Told
            <4> QED
                BY <4>1, <4>2, <4>3
        <3>2. \A t \in Traces : Telling(r, s, t) <=> t = event.trace
            BY <1>0, <1>1, <2>4 DEF Telling
        <3>3. \A t \in Traces : Telling(r, s, t)' <=> t = event.trace /\ sent = FALSE
            BY <1>5, <1>6, <2>4 DEF Telling
        <3>4. ~Sends(r, "persisted", s)'
            BY <1>5, <1>6, <2>4 DEF Sends
        <3>5. subs[r][s] # None => event.trace \in subs[r][s].emitted
            BY <1>0, <1>2, <1>16, <2>1, <2>4 DEF Marked
        <3> QED
            BY <1>1, <2>1, <2>4, <3>1, <3>2, <3>3, <3>4, <3>5 DEF Marked
    <2> QED
        BY <2>2, <2>3, <2>4
<1>19. Local(r)'
    BY <1>12, <1>13, <1>14, <1>17, <1>18 DEF Local
<1>20. Limited'
    <2>1. \A q \in Replicas : Registered(q)' = Registered(q)
        BY <1>1 DEF Registered
    <2> QED
        BY <2>1 DEF Inv, Limited
<1>21. SeqDeliveredOnce'
    <2> SUFFICES ASSUME NEW x \in Subscriptions, NEW i \in 1 .. Len(sink'[x]),
                        NEW j \in 1 .. Len(sink'[x]), sink'[x][i].seq = sink'[x][j].seq,
                        sink'[x][i].replica = sink'[x][j].replica
                 PROVE  i = j
        BY DEF SeqDeliveredOnce
    <2>1. \A k, l \in 1 .. Len(sink[x]) :
            sink[x][k].seq = sink[x][l].seq /\ sink[x][k].replica = sink[x][l].replica => k = l
        BY DEF Inv, SeqDeliveredOnce
    <2>2. CASE x # s
        BY <1>8, <2>1, <2>2
    <2>3. CASE x = s
        <3>1. \A k \in 1 .. n : sink[s][k].replica = r => sink[s][k].seq # event.seq
            BY <1>0, <1>1, <1>2, <1>16 DEF Local, Numbered
        <3>2. CASE i \in 1 .. n /\ j \in 1 .. n
            <4>1. /\ sink'[s][i] = sink[s][i] /\ i \in 1 .. Len(sink[s])
                  /\ sink'[s][j] = sink[s][j] /\ j \in 1 .. Len(sink[s])
                BY <1>0, <1>8, <3>2
            <4> QED
                BY <2>1, <2>3, <4>1
        <3>3. CASE i \in 1 .. n /\ j \notin 1 .. n
            <4>1. sink'[s][j] = event /\ sink'[s][i] = sink[s][i]
                BY <1>8, <1>9, <2>3, <3>3
            <4> QED
                BY <1>2, <2>3, <3>1, <3>3, <4>1
        <3>4. CASE i \notin 1 .. n /\ j \in 1 .. n
            <4>1. sink'[s][i] = event /\ sink'[s][j] = sink[s][j]
                BY <1>8, <1>9, <2>3, <3>4
            <4> QED
                BY <1>2, <2>3, <3>1, <3>4, <4>1
        <3>5. CASE i \notin 1 .. n /\ j \notin 1 .. n
            BY <1>9, <2>3, <3>5
        <3> QED
            BY <3>2, <3>3, <3>4, <3>5
    <2> QED
        BY <2>2, <2>3
<1>22. AddedThenUpdated'
    <2> DEFINE Known(x, i, e) == \E j \in 1 .. i - 1 : sink[x][j].trace = e.trace /\ sink[x][j].replica = e.replica
    <2> SUFFICES ASSUME NEW x \in Subscriptions, NEW i \in 1 .. Len(sink'[x]),
                        sink'[x][i].trace # None
                 PROVE  sink'[x][i].type = "ADDED" <=>
                          ~ \E j \in 1 .. i - 1 : /\ sink'[x][j].trace = sink'[x][i].trace
                                                  /\ sink'[x][j].replica = sink'[x][i].replica
        BY DEF AddedThenUpdated
    <2>1. \A k \in 1 .. Len(sink[x]) :
            sink[x][k].trace # None => (sink[x][k].type = "ADDED" <=> ~Known(x, k, sink[x][k]))
        BY DEF Inv, AddedThenUpdated
    <2>2. CASE x # s
        BY <1>8, <2>1, <2>2
    <2>3. CASE x = s /\ i \in 1 .. n
        <3>1. \A j \in 1 .. i - 1 : j \in 1 .. n /\ sink'[s][j] = sink[s][j]
            BY <1>0, <1>3, <1>8, <2>3
        <3>2. sink'[s][i] = sink[s][i] /\ i \in 1 .. Len(sink[s])
            BY <1>0, <1>8, <2>3
        <3>3. Known(s, i, sink[s][i]) <=>
                \E j \in 1 .. i - 1 : /\ sink'[s][j].trace = sink[s][i].trace
                                      /\ sink'[s][j].replica = sink[s][i].replica
            BY <3>1
        <3> HIDE DEF Known
        <3> QED
            BY <2>1, <2>3, <3>2, <3>3
    <2>4. CASE x = s /\ i \notin 1 .. n
        <3>1. sent = TRUE /\ i = n + 1 /\ sink'[s][i] = event
            BY <1>9, <2>4
        <3>2. g = "persisted" /\ event.trace \in Traces
            BY <1>2, <2>4, <3>1
        <3>3. (event.type = "ADDED") <=> ~Told(r, s, event.trace)
            BY <1>0, <1>1, <1>2, <1>16, <3>2 DEF Local, Marked
        <3>4. i - 1 = n
            BY <1>3, <3>1
        <3>5. Told(r, s, event.trace) <=>
                \E j \in 1 .. i - 1 : sink'[s][j].trace = event.trace /\ sink'[s][j].replica = event.replica
            BY <1>0, <1>2, <1>8, <3>4 DEF Told
        <3> QED
            BY <2>4, <3>1, <3>3, <3>5
    <2> QED
        BY <2>2, <2>3, <2>4
<1> QED
    BY <1>10, <1>11, <1>19, <1>20, <1>21, <1>22 DEF Inv

\* The goroutine learns how its publish went, and takes it off the events in flight.
LEMMA CompletePublishStep ==
    ASSUME Inv, NEW r \in Replicas, NEW g \in Goroutines, CompletePublish(r, g)
    PROVE  Inv'
<1>0. PICK w, s : w = work[r][g] /\ s = w.sub
    OBVIOUS
<1>1. /\ Types /\ Local(r) /\ w \in Work /\ w.pc = "complete"
      /\ UNCHANGED <<now, startQ, stopQ, sink, notifications>>
    BY <1>0 DEF Inv, Types, CompletePublish
<1>2. s \in Subscriptions /\ g \in InFlight(r, s) /\ ~Untouched(r, s)
    BY <1>0, <1>1 DEF Local, Shape, InFlight, Untouched
<1>3. PICK v \in Work :
        /\ Goto(r, g, v)
        /\ v.pc \in {"idle", "next", "emit", "failed"}
        /\ IF v.pc \in {"emit", "failed"} THEN v.sub = s ELSE v.sub = None
        /\ v.todo \subseteq w.todo
        /\ v.pc = "emit" => g = "persisted"
        /\ v.pc = "next" => g # "start"
        /\ IF w.sent THEN v.pc # "failed"
           ELSE v.pc = "failed" /\ v.sub = s /\ v.sent = w.sent /\ v.event = w.event
    <2>1. CASE w.sent
        <3>1. Goto(r, g, Resumed(g, w))
            BY <1>0, <2>1 DEF CompletePublish
        <3>2. Resumed(g, w) \in Work
            BY <1>1, ResumedInWork
        <3>3. /\ Resumed(g, w).pc \in {"idle", "emit", "next"}
              /\ IF g = "persisted" THEN Resumed(g, w).pc = "emit" /\ Resumed(g, w).sub = s
                 ELSE Resumed(g, w).pc # "emit" /\ Resumed(g, w).sub = None
              /\ Resumed(g, w).pc = "next" => g # "start"
              /\ Resumed(g, w).todo \subseteq w.todo
            BY <1>0, <1>1, ResumedFacts
        <3> QED
            BY <2>1, <3>1, <3>2, <3>3
    <2>2. CASE ~w.sent
        <3> DEFINE failed == [w EXCEPT !.pc = "failed"]
        <3>1. Goto(r, g, failed)
            BY <1>0, <2>2 DEF CompletePublish
        <3>2. /\ failed \in Work /\ failed.pc = "failed" /\ failed.sub = s
              /\ failed.todo = w.todo /\ failed.sent = w.sent /\ failed.event = w.event
            BY <1>0, <1>1 DEF Work, Pcs
        <3> HIDE DEF failed
        <3> QED
            BY <2>2, <3>1, <3>2
    <2> QED
        BY <2>1, <2>2
<1>4. /\ work' \in [Replicas -> [Goroutines -> Work]]
      /\ work'[r][g] = v
      /\ \A h \in Goroutines \ {g} : work'[r][h] = work[r][h]
      /\ \A q \in Replicas \ {r} : work'[q] = work[q]
    BY <1>1, <1>3, GotoFacts
<1>5. /\ subs' \in [Replicas -> [Subscriptions -> Subscription \union {None}]]
      /\ \A x \in Subscriptions \ {s} : subs'[r][x] = subs[r][x]
      /\ \A q \in Replicas \ {r} : subs'[q] = subs[q]
      /\ subs[r][s] = None => subs'[r][s] = None
      /\ subs[r][s] # None =>
           /\ subs'[r][s].nextSeq = subs[r][s].nextSeq
           /\ subs'[r][s].emitted = subs[r][s].emitted
           /\ subs'[r][s].inFlight = subs[r][s].inFlight - 1
    <2>1. CASE subs[r][s] = None
        BY <1>0, <1>1, <2>1 DEF CompletePublish, Types
    <2>2. CASE subs[r][s] # None
        <3> DEFINE sub == subs[r][s]
                   flight == sub.inFlight - 1
                   completed == Completed(sub, w.event, w.began)
        <3>1. sub \in Subscription
            BY <1>1, <1>2, <2>2 DEF Types
        <3>2. sub.inFlight = Cardinality(InFlight(r, s)) /\ sub.inFlight # 0
            <4>1. IsFiniteSet(InFlight(r, s))
                BY GoroutinesFinite DEF InFlight
            <4> QED
                BY <1>1, <1>2, <2>2, <4>1, FS_EmptySet DEF Local, Counted
        <3>3. flight \in Nat /\ w.began \in Nat
            BY <1>1, <3>1, <3>2 DEF Subscription, Work
        <3>4. completed = [sub EXCEPT !.inFlight = flight, !.lastProgress = w.began]
            BY DEF Completed
        <3>5. SetSub(r, s, completed)
            BY <1>0, <2>2 DEF CompletePublish
        <3> HIDE DEF flight, completed, sub
        <3>6. /\ completed \in Subscription /\ completed.nextSeq = sub.nextSeq
              /\ completed.emitted = sub.emitted /\ completed.inFlight = flight
            BY <3>1, <3>3, <3>4 DEF Subscription
        <3>7. /\ subs' \in [Replicas -> [Subscriptions -> Subscription \union {None}]]
              /\ subs'[r][s] = completed
              /\ \A x \in Subscriptions \ {s} : subs'[r][x] = subs[r][x]
              /\ \A q \in Replicas \ {r} : subs'[q] = subs[q]
            BY <1>1, <1>2, <3>5, <3>6, SetSubFacts
        <3> QED
            BY <2>2, <3>6, <3>7 DEF flight, sub
    <2> QED
        BY <2>1, <2>2
<1>6. /\ client' \in [Subscriptions -> [state : ClientStates, since : 0 .. MaxTime]]
      /\ \A x \in Subscriptions : client'[x].state = "new" => client[x].state = "new"
    <2>1. UNCHANGED client \/ Reply(s, "live")
        BY <1>0 DEF CompletePublish
    <2> QED
        BY <1>1, <1>2, <2>1, ReplyFacts DEF Types, ClientStates
<1>7. Types'
    BY <1>1, <1>4, <1>5, <1>6 DEF Types
<1>8. \A q \in Replicas \ {r} : Local(q)'
    BY <1>1, <1>4, <1>5, <1>6, Elsewhere
<1>9. \A h \in Goroutines : Shape(r, h)'
    BY <1>1, <1>2, <1>3, <1>4, LiveAssumption DEF Shape, Local
<1>10. ASSUME NEW x \in Subscriptions, NEW h \in Goroutines
       PROVE  Sends(r, h, x)' => h # g /\ Sends(r, h, x) /\ work'[r][h] = work[r][h]
    BY <1>3, <1>4 DEF Sends
<1>11. ASSUME NEW x \in Subscriptions PROVE StartedOnce(r, x)'
    <2>1. StartedOnce(r, x) /\ (x = s => ~Untouched(r, x))
        BY <1>1, <1>2 DEF Local
    <2>2. StartedOnce(r, x)'
        <3>1. Untouched(r, x) /\ x # s => Untouched(r, x)'
            <4> SUFFICES ASSUME Untouched(r, x), x # s PROVE Untouched(r, x)'
                OBVIOUS
            <4>1. \A h \in Goroutines : work'[r][h].sub # x /\ x \notin work'[r][h].todo
                BY <1>0, <1>3, <1>4, LiveAssumption DEF Untouched
            <4> QED
                BY <1>1, <1>5, <4>1 DEF Untouched
        <3> QED
            BY <1>1, <1>6, <2>1, <3>1 DEF StartedOnce
    <2> QED
        BY <2>2
<1>12. ASSUME NEW x \in Subscriptions PROVE Counted(r, x)'
    <2>1. Counted(r, x)
        BY <1>1 DEF Local
    <2>2. CASE x = s
        <3>1. InFlight(r, s)' = InFlight(r, s) \ {g}
            BY <1>3, <1>4 DEF InFlight
        <3>2. IsFiniteSet(InFlight(r, s))
            BY GoroutinesFinite DEF InFlight
        <3>3. Cardinality(InFlight(r, s) \ {g}) = Cardinality(InFlight(r, s)) - 1
            BY <1>2, <3>2, FS_RemoveElement
        <3> QED
            BY <1>5, <2>1, <2>2, <3>1, <3>3 DEF Counted
    <2>3. CASE x # s
        <3>1. InFlight(r, x)' = InFlight(r, x)
            BY <1>0, <1>3, <1>4, <2>3 DEF InFlight
        <3> QED
            BY <1>5, <2>1, <2>3, <3>1 DEF Counted
    <2> QED
        BY <2>2, <2>3
<1>13. ASSUME NEW x \in Subscriptions PROVE Numbered(r, x)'
    <2>1. Numbered(r, x)
        BY <1>1 DEF Local
    <2>2. subs'[r][x] # None => subs[r][x] # None /\ subs'[r][x].nextSeq = subs[r][x].nextSeq
        BY <1>5
    <2> QED
        BY <1>1, <1>10, <2>1, <2>2 DEF Numbered
<1>14. ASSUME NEW x \in Subscriptions PROVE Marked(r, x)'
    <2>1. Marked(r, x)
        BY <1>1 DEF Local
    <2>2. subs'[r][x] # None => subs[r][x] # None /\ subs'[r][x].emitted = subs[r][x].emitted
        BY <1>5
    <2>3. \A t \in Traces : Told(r, x, t)' <=> Told(r, x, t)
        BY <1>1 DEF Told
    <2>4. ASSUME NEW t \in Traces, Telling(r, x, t) PROVE Telling(r, x, t)'
        <3>1. CASE g = "persisted"
            BY <1>0, <1>1, <1>3, <1>4, <2>4, <3>1 DEF Telling
        <3>2. CASE g # "persisted"
            BY <1>4, <2>4, <3>2 DEF Telling, Goroutines
        <3> QED
            BY <3>1, <3>2
    <2>5. Sends(r, "persisted", x)' => Sends(r, "persisted", x) /\ work'[r]["persisted"] = work[r]["persisted"]
        BY <1>10 DEF Goroutines
    <2> QED
        BY <2>1, <2>2, <2>3, <2>4, <2>5 DEF Marked
<1>15. Local(r)'
    BY <1>9, <1>11, <1>12, <1>13, <1>14 DEF Local
<1>16. Limited'
    <2> SUFFICES ASSUME NEW q \in Replicas
                 PROVE  IsFiniteSet(Registered(q)') /\ Cardinality(Registered(q)') <= MaxSubscriptions
        BY DEF Limited
    <2>1. Registered(q)' \subseteq Registered(q)
        BY <1>5 DEF Registered
    <2> QED
        BY <2>1, FewerRegistered DEF Inv
<1>17. SeqDeliveredOnce' /\ AddedThenUpdated'
    BY <1>1 DEF Inv, SeqDeliveredOnce, AddedThenUpdated
<1> QED
    BY <1>7, <1>8, <1>15, <1>16, <1>17 DEF Inv

\* Steps of the BFF and of the clock: a start request is made once.
LEMMA Outside ==
    ASSUME Inv, Types', UNCHANGED <<subs, work, sink>>,
           \A r \in Replicas, s \in Subscriptions :
             s \in startQ'[r] => s \in startQ[r] \/ (client[s].state = "new" /\ client'[s].state # "new"),
           \A s \in Subscriptions : client'[s].state = "new" => client[s].state = "new"
    PROVE  Inv'
<1>1. ASSUME NEW r \in Replicas PROVE Local(r)'
    <2>1. Local(r)
        BY DEF Inv
    <2>2. ASSUME NEW s \in Subscriptions PROVE StartedOnce(r, s)'
        BY <2>1 DEF Local, StartedOnce, Untouched
    <2>3. ASSUME NEW s \in Subscriptions PROVE (Counted(r, s) /\ Numbered(r, s) /\ Marked(r, s))'
        <3>1. Counted(r, s)'
            BY <2>1 DEF Local, Counted, InFlight
        <3>2. Numbered(r, s)'
            BY <2>1 DEF Local, Numbered, Sends
        <3>3. Marked(r, s)'
            BY <2>1 DEF Local, Marked, Told, Telling, Sends
        <3> QED
            BY <3>1, <3>2, <3>3
    <2>4. ASSUME NEW g \in Goroutines PROVE Shape(r, g)'
        BY <2>1 DEF Local, Shape
    <2> QED
        BY <2>2, <2>3, <2>4 DEF Local
<1>2. Limited'
    BY DEF Inv, Limited, Registered
<1>3. SeqDeliveredOnce' /\ AddedThenUpdated'
    BY DEF Inv, SeqDeliveredOnce, AddedThenUpdated
<1> QED
    BY <1>1, <1>2, <1>3 DEF Inv

LEMMA ClientSteps ==
    ASSUME Inv, NEW s \in Subscriptions,
           SubscribeLiveTraces(s) \/ StartTimesOut(s) \/ StopLiveTraces(s) \/ LoseStop(s)
    PROVE  Inv'
<1>1. Types
    BY DEF Inv
<1>2. PICK state \in ClientStates \ {"new"} : SetClient(s, state)
    BY DEF SubscribeLiveTraces, StartTimesOut, StopLiveTraces, LoseStop, ClientStates
<1>3. /\ client' \in [Subscriptions -> [state : ClientStates, since : 0 .. MaxTime]]
      /\ \A x \in Subscriptions : client'[x].state = "new" => client[x].state = "new"
      /\ client'[s].state # "new"
    BY <1>1, <1>2 DEF Types, SetClient
<1>4. /\ startQ' \in [Replicas -> SUBSET Subscriptions]
      /\ stopQ' \in [Replicas -> SUBSET Subscriptions]
      /\ \A r \in Replicas, x \in Subscriptions :
           x \in startQ'[r] => x \in startQ[r] \/ (x = s /\ client[s].state = "new")
      /\ UNCHANGED <<now, subs, work, sink, notifications>>
    BY <1>1 DEF Types, SubscribeLiveTraces, StartTimesOut, StopLiveTraces, LoseStop
<1>5. Types'
    BY <1>1, <1>3, <1>4 DEF Types
<1> QED
    BY <1>3, <1>4, <1>5, Outside

LEMMA InvInit ==
    ASSUME Init
    PROVE  Inv
<1>1. Types
    BY IdleFacts, LiveAssumption DEF Init, Types, ClientStates
<1>2. \A r \in Replicas : Registered(r) = {}
    BY DEF Init, Registered
<1>3. Limited
    BY <1>2, FS_EmptySet, LiveAssumption DEF Limited
<1>4. \A r \in Replicas, g \in Goroutines :
        work[r][g].pc = "idle" /\ work[r][g].sub = None /\ work[r][g].todo = {}
    BY IdleFacts, LiveAssumption DEF Init
<1>5. \A s \in Subscriptions : Len(sink[s]) = 0
    BY DEF Init
<1>6. \A r \in Replicas, s \in Subscriptions : subs[r][s] = None /\ s \notin startQ[r]
    BY DEF Init
<1>7. ASSUME NEW r \in Replicas PROVE Local(r)
    <2>1. \A g \in Goroutines : Shape(r, g)
        BY <1>4 DEF Shape
    <2>2. ASSUME NEW s \in Subscriptions PROVE StartedOnce(r, s)
        BY <1>4, <1>5, <1>6, LiveAssumption DEF StartedOnce, Untouched
    <2>3. ASSUME NEW s \in Subscriptions PROVE Counted(r, s) /\ Numbered(r, s) /\ Marked(r, s)
        BY <1>4, <1>5, <1>6 DEF Counted, Numbered, Marked, Sends, Goroutines
    <2> QED
        BY <2>1, <2>2, <2>3 DEF Local
<1>8. SeqDeliveredOnce /\ AddedThenUpdated
    BY <1>5 DEF SeqDeliveredOnce, AddedThenUpdated
<1> QED
    BY <1>1, <1>3, <1>7, <1>8 DEF Inv

LEMMA InvStep ==
    ASSUME Inv, [Next]_vars
    PROVE  Inv'
<1>1. ASSUME NEW r \in Replicas, Registry(r) PROVE Inv'
    BY <1>1, StartStep, StopStep, EmitFirstStep, HandleTracePersistedStep, QueryCandidatesStep,
       EmitTraceStep, EmitHeartbeatsStep, EmitHeartbeatStep, SendStep, CompletePublishStep,
       FailPublishStep DEF Registry
<1>2. CASE Elapse
    <2>1. Types'
        BY <1>2, LiveAssumption DEF Inv, Types, Elapse
    <2> QED
        BY <1>2, <2>1, Outside DEF Elapse
<1>3. CASE UNCHANGED vars
    <2>1. Types'
        BY <1>3 DEF Inv, Types, vars
    <2> QED
        BY <1>3, <2>1, Outside DEF vars
<1> QED
    BY <1>1, <1>2, <1>3, ClientSteps DEF Next

LEMMA InvAlways == Spec => []Inv
<1>1. Init => Inv
    BY InvInit
<1>2. Inv /\ [Next]_vars => Inv'
    BY InvStep
<1> QED
    BY <1>1, <1>2, PTL DEF Spec

\* The registry's state has its types, and never more subscriptions than the limit.
THEOREM TracesTyped == Spec => []TypeOK
<1>1. Inv => TypeOK
    BY DEF Inv, Types, Limited, TypeOK
<1> QED
    BY <1>1, InvAlways, PTL

\* A subscription's counter is the number of its publishes in progress (publish,
\* completePublish): each goroutine takes off what it put on, also when the
\* subscription was removed in between, and a start finds none left over.
THEOREM InFlightExact == Spec => []InFlightCounted
<1>1. Inv => InFlightCounted
    BY DEF Inv, Local, Counted, InFlightCounted, Registered
<1> QED
    BY <1>1, InvAlways, PTL

\* No two events a replica sends to a client have one number, however its goroutines'
\* publishes interleave (publish).
THEOREM NumbersUnique == Spec => []SeqDeliveredOnce
<1>1. Inv => SeqDeliveredOnce
    BY DEF Inv
<1> QED
    BY <1>1, InvAlways, PTL

\* ADDED is the first event of a trace and the only ADDED, also when a publish failed
\* after markEmitted had marked the trace.
THEOREM AddedFirst == Spec => []AddedThenUpdated
<1>1. Inv => AddedThenUpdated
    BY DEF Inv
<1> QED
    BY <1>1, InvAlways, PTL

--------------------------------------------------------------------------------
(* One replica: what is over is released *)

\* A subscription the replica has answered has no start request left, neither in the
\* queue nor in the hands of the goroutine.
Over(r, s) ==
    /\ client[s].state \in {"live", "ended", "abandoned", "refused"} =>
         s \notin startQ[r] /\ work[r]["start"].sub # s
    /\ client[s].state = "refused" => subs[r][s] = None
    /\ client[s].state = "ended" => s \in stopQ[r] \/ subs[r][s] = None

AllOver == \A r \in Replicas, s \in Subscriptions : Over(r, s)

\* Steps that answer nobody and register nothing.
LEMMA OverKept ==
    ASSUME AllOver, UNCHANGED <<client, startQ, stopQ>>,
           \A r \in Replicas : \/ work'[r]["start"].sub = work[r]["start"].sub
                               \/ work'[r]["start"].sub \notin Subscriptions,
           \A r \in Replicas, s \in Subscriptions : subs[r][s] = None => subs'[r][s] = None
    PROVE  AllOver'
    BY DEF AllOver, Over

LEMMA GotoKeeps ==
    ASSUME Types, NEW r \in Replicas, NEW g \in Goroutines, NEW w, Goto(r, g, w)
    PROVE  /\ work'[r][g] = w
           /\ \A h \in Goroutines \ {g} : work'[r][h] = work[r][h]
           /\ \A q \in Replicas \ {r} : work'[q] = work[q]
    BY DEF Types, Goto

LEMMA SetSubKeeps ==
    ASSUME Types, NEW r \in Replicas, NEW s \in Subscriptions, NEW value, SetSub(r, s, value)
    PROVE  /\ subs'[r][s] = value
           /\ \A x \in Subscriptions \ {s} : subs'[r][x] = subs[r][x]
           /\ \A q \in Replicas \ {r} : subs'[q] = subs[q]
    BY DEF Types, SetSub

LEMMA BeginPublishKeeps ==
    ASSUME Types, NEW r \in Replicas, NEW g \in Goroutines, NEW w \in Work, NEW type, NEW trace,
           w.sub \in Subscriptions, BeginPublish(r, g, w, type, trace)
    PROVE  /\ work'[r][g].sub = w.sub
           /\ \A h \in Goroutines \ {g} : work'[r][h] = work[r][h]
           /\ \A q \in Replicas \ {r} : work'[q] = work[q]
           /\ \A q \in Replicas, s \in Subscriptions : subs[q][s] = None => subs'[q][s] = None
<1>1. PICK v : Goto(r, g, v) /\ v.sub = w.sub
    <2>1. /\ [w EXCEPT !.pc = "failed"].sub = w.sub
          /\ \A at, event : [w EXCEPT !.pc = "send", !.began = at, !.event = event].sub = w.sub
        BY DEF Work
    <2> QED
        BY <2>1 DEF BeginPublish
<1>2. \/ UNCHANGED subs
      \/ SetSub(r, w.sub, None)
      \/ subs[r][w.sub] # None /\ \E value : SetSub(r, w.sub, value)
    BY DEF BeginPublish
<1> QED
    BY <1>1, <1>2, GotoKeeps, SetSubKeeps

\* A goroutine publishes or moves on.
LEMMA OverRound ==
    ASSUME Inv, AllOver, NEW r \in Replicas,
           \/ EmitFirst(r) \/ HandleTracePersisted(r) \/ QueryCandidates(r) \/ EmitTrace(r)
           \/ EmitHeartbeats(r) \/ EmitHeartbeat(r) \/ \E g \in Goroutines : Send(r, g)
    PROVE  AllOver'
<1>1. /\ Types /\ \A g \in Goroutines : work[r][g] \in Work
      /\ "start" \in Goroutines /\ "persisted" \in Goroutines /\ "heartbeat" \in Goroutines
    BY DEF Inv, Types, Goroutines
<1>2. \A g \in Goroutines : Shape(r, g)
    BY DEF Inv, Local
<1>3. ASSUME NEW g \in {"persisted", "heartbeat"}, NEW w, Goto(r, g, w),
             UNCHANGED subs \/ \E s \in Subscriptions : SetSub(r, s, None),
             UNCHANGED <<client, startQ, stopQ>>
      PROVE  AllOver'
    <2>1. work'[r]["start"] = work[r]["start"] /\ \A q \in Replicas \ {r} : work'[q] = work[q]
        BY <1>1, <1>3, GotoKeeps
    <2>2. \A q \in Replicas, x \in Subscriptions : subs[q][x] = None => subs'[q][x] = None
        BY <1>1, <1>3, SetSubKeeps
    <2> QED
        BY <1>3, <2>1, <2>2, OverKept
<1>4. ASSUME NEW g \in Goroutines, NEW w \in Work, NEW type, NEW trace,
             w.sub \in Subscriptions, BeginPublish(r, g, w, type, trace),
             g = "start" => w.sub = work[r]["start"].sub,
             UNCHANGED <<client, startQ, stopQ>>
      PROVE  AllOver'
    <2>1. /\ work'[r]["start"].sub = work[r]["start"].sub
          /\ \A q \in Replicas \ {r} : work'[q] = work[q]
          /\ \A q \in Replicas, s \in Subscriptions : subs[q][s] = None => subs'[q][s] = None
        BY <1>1, <1>4, BeginPublishKeeps
    <2> QED
        BY <1>4, <2>1, OverKept
<1>5. CASE EmitFirst(r)
    <2>1. work[r]["start"].sub \in Subscriptions
        BY <1>1, <1>2, <1>5 DEF EmitFirst, Shape
    <2> QED
        BY <1>1, <1>4, <1>5, <2>1 DEF EmitFirst
<1>6. CASE HandleTracePersisted(r) \/ QueryCandidates(r) \/ EmitHeartbeats(r)
    BY <1>3, <1>6 DEF HandleTracePersisted, QueryCandidates, EmitHeartbeats
<1>7. CASE EmitTrace(r)
    <2> DEFINE w == work[r]["persisted"]
    <2>1. w.sub \in Subscriptions /\ w \in Work
        BY <1>1, <1>2, <1>7 DEF EmitTrace, Shape
    <2>2. \A t \in w.items : [w EXCEPT !.items = @ \ {t}] \in Work /\ [w EXCEPT !.items = @ \ {t}].sub = w.sub
        BY <2>1 DEF Work
    <2>3. CASE Goto(r, "persisted", [w EXCEPT !.pc = "next", !.sub = None]) /\ UNCHANGED subs
        BY <1>3, <1>7, <2>3 DEF EmitTrace
    <2>4. CASE \E t \in w.items : \E type : BeginPublish(r, "persisted", [w EXCEPT !.items = @ \ {t}], type, t)
        BY <1>1, <1>4, <1>7, <2>1, <2>2, <2>4 DEF EmitTrace
    <2> QED
        BY <1>7, <2>3, <2>4 DEF EmitTrace
<1>8. CASE EmitHeartbeat(r)
    <2> DEFINE w == work[r]["heartbeat"]
               rest(s) == [w EXCEPT !.todo = @ \ {s}]
               beating(s) == [rest(s) EXCEPT !.sub = s]
    <2>1. \A s \in w.todo : s \in Subscriptions /\ beating(s) \in Work /\ beating(s).sub = s
        BY <1>1 DEF Work
    <2>2. UNCHANGED <<client, startQ, stopQ>>
        BY <1>8 DEF EmitHeartbeat
    <2>3. CASE Goto(r, "heartbeat", Idle(w.at)) /\ UNCHANGED subs
        BY <1>3, <2>2, <2>3
    <2>4. ASSUME NEW s \in w.todo, Goto(r, "heartbeat", rest(s)), UNCHANGED subs \/ SetSub(r, s, None)
          PROVE  AllOver'
        BY <1>3, <2>1, <2>2, <2>4
    <2>5. ASSUME NEW s \in w.todo, BeginPublish(r, "heartbeat", beating(s), "HEARTBEAT", None)
          PROVE  AllOver'
        <3> HIDE DEF beating, rest
        <3> QED
            BY <1>1, <1>4, <2>1, <2>2, <2>5
    <2> QED
        BY <1>8, <2>3, <2>4, <2>5 DEF EmitHeartbeat
<1>9. ASSUME NEW g \in Goroutines, Send(r, g) PROVE AllOver'
    <2>1. PICK w : Goto(r, g, w) /\ w.sub = work[r][g].sub
        <3>1. \A sent : [work[r][g] EXCEPT !.pc = "complete", !.sent = sent].sub = work[r][g].sub
            BY <1>1 DEF Work
        <3> QED
            BY <1>9, <3>1 DEF Send
    <2>2. work'[r]["start"].sub = work[r]["start"].sub /\ \A q \in Replicas \ {r} : work'[q] = work[q]
        BY <1>1, <2>1, GotoKeeps
    <2> QED
        BY <1>9, <2>2, OverKept DEF Send
<1> QED
    BY <1>5, <1>6, <1>7, <1>8, <1>9

\* The steps that answer a start request, or handle a stop request.
LEMMA OverAnswers ==
    ASSUME Inv, AllOver, NEW r, Replicas = {r},
           \/ \E s \in Subscriptions : Start(r, s) \/ Stop(r, s)
           \/ \E g \in Goroutines : CompletePublish(r, g) \/ FailPublish(r, g)
    PROVE  AllOver'
<1>1. Types /\ Local(r) /\ r \in Replicas /\ "start" \in Goroutines /\ \A s \in Subscriptions : Over(r, s)
    BY DEF Inv, AllOver, Goroutines
<1>2. ASSUME NEW s \in Subscriptions, Stop(r, s) PROVE AllOver'
    <2>1. /\ \A x \in Subscriptions : subs[r][x] = None => subs'[r][x] = None
          /\ subs'[r][s] = None
          /\ stopQ'[r] = stopQ[r] \ {s}
        BY <1>1, <1>2, SetSubKeeps DEF Stop, Types
    <2> QED
        BY <1>1, <1>2, <2>1 DEF AllOver, Over, Stop
<1>3. ASSUME NEW s \in Subscriptions, Start(r, s) PROVE AllOver'
    <2>1. s \in startQ[r] /\ Untouched(r, s) /\ startQ'[r] = startQ[r] \ {s} /\ UNCHANGED stopQ
        BY <1>1, <1>3 DEF Start, Local, StartedOnce, Types
    <2>2. CASE AtLimit(r)
        <3>1. UNCHANGED <<subs, work>> /\ Reply(s, "refused")
            BY <1>3, <2>2 DEF Start
        <3>2. /\ \A x \in Subscriptions \ {s} : client'[x] = client[x]
              /\ client'[s].state = "refused" \/ client'[s] = client[s]
            BY <1>1, <3>1 DEF Reply, SetClient, Types
        <3>3. work[r]["start"].sub # s /\ subs[r][s] = None
            BY <1>1, <2>1 DEF Untouched
        <3> QED
            BY <1>1, <2>1, <3>1, <3>2, <3>3 DEF AllOver, Over
    <2>3. CASE ~AtLimit(r)
        <3>1. PICK w, value : /\ Goto(r, "start", w) /\ w.sub = s
                              /\ SetSub(r, s, value) /\ UNCHANGED client
            BY <1>3, <2>3 DEF Start, Idle
        <3>2. /\ work'[r]["start"].sub = s
              /\ \A x \in Subscriptions \ {s} : subs'[r][x] = subs[r][x]
            BY <1>1, <3>1, GotoKeeps, SetSubKeeps
        <3>3. client[s].state \notin {"live", "ended", "abandoned", "refused"}
            BY <1>1, <2>1 DEF Over
        <3> QED
            BY <1>1, <2>1, <3>1, <3>2, <3>3 DEF AllOver, Over
    <2> QED
        BY <2>2, <2>3
<1>4. ASSUME NEW g \in Goroutines, CompletePublish(r, g) \/ FailPublish(r, g) PROVE AllOver'
    <2>1. PICK w, s : w = work[r][g] /\ s = w.sub
        OBVIOUS
    <2>2. /\ s \in Subscriptions /\ w \in Work /\ s \notin startQ[r]
          /\ UNCHANGED <<startQ, stopQ>>
        BY <1>1, <1>4, <2>1 DEF CompletePublish, FailPublish, Local, Shape, Types, StartedOnce, Untouched
    <2>3. PICK v : Goto(r, g, v) /\ (v.sub = s \/ v.sub = None)
                   /\ (g = "start" => v.sub = None \/ UNCHANGED client)
        BY <1>4, <2>1, <2>2, ResumedFacts DEF CompletePublish, FailPublish, Work
    <2>4. /\ work'[r][g] = v
          /\ g # "start" => work'[r]["start"] = work[r]["start"]
        BY <1>1, <2>3, GotoKeeps
    <2>5. \A x \in Subscriptions : subs[r][x] = None => subs'[r][x] = None
        BY <1>1, <1>4, <2>1, <2>2, SetSubKeeps DEF CompletePublish, FailPublish
    <2>6. CASE UNCHANGED client
        <3>1. work'[r]["start"].sub = work[r]["start"].sub \/ work'[r]["start"].sub \notin Subscriptions
            BY <2>1, <2>3, <2>4, LiveAssumption
        <3> QED
            BY <1>1, <2>2, <2>5, <2>6, <3>1, OverKept
    <2>7. CASE client' # client
        <3>1. /\ g = "start"
              /\ Reply(s, "live") \/ (Reply(s, "refused") /\ subs'[r][s] = None)
            BY <1>1, <1>4, <2>1, <2>2, <2>7, SetSubKeeps DEF CompletePublish, FailPublish
        <3>2. /\ \A x \in Subscriptions \ {s} : client'[x] = client[x]
              /\ \/ client'[s].state = "live"
                 \/ client'[s].state = "refused" /\ subs'[r][s] = None
            BY <1>1, <2>2, <2>7, <3>1 DEF Reply, SetClient, Types
        <3>3. \A x \in Subscriptions : work'[r]["start"].sub # x
            BY <2>3, <2>4, <2>7, <3>1, LiveAssumption
        <3> QED
            BY <1>1, <2>2, <2>5, <3>2, <3>3 DEF AllOver, Over
    <2> QED
        BY <2>6, <2>7
<1> QED
    BY <1>2, <1>3, <1>4

\* The BFF ends or gives up a subscription.
LEMMA OverOutside ==
    ASSUME Inv, AllOver,
           \/ \E s \in Subscriptions :
                SubscribeLiveTraces(s) \/ StartTimesOut(s) \/ StopLiveTraces(s) \/ LoseStop(s)
           \/ Elapse \/ UNCHANGED vars
    PROVE  AllOver'
<1>1. Types
    BY DEF Inv
<1>2. ASSUME NEW s \in Subscriptions, SubscribeLiveTraces(s) \/ StartTimesOut(s) PROVE AllOver'
    <2>1. /\ \A x \in Subscriptions \ {s} : client'[x] = client[x]
          /\ client'[s].state \in {"starting", "timedOut"}
        BY <1>1, <1>2 DEF SubscribeLiveTraces, StartTimesOut, SetClient, Types
    <2>2. \A r \in Replicas : startQ'[r] \subseteq startQ[r] \union {s}
        BY <1>2 DEF SubscribeLiveTraces, StartTimesOut
    <2> QED
        BY <1>2, <2>1, <2>2 DEF AllOver, Over, SubscribeLiveTraces, StartTimesOut
<1>3. ASSUME NEW s \in Subscriptions, StopLiveTraces(s) PROVE AllOver'
    <2>1. /\ \A x \in Subscriptions \ {s} : client'[x] = client[x]
          /\ client'[s].state = "ended" /\ client[s].state = "live"
        BY <1>1, <1>3 DEF StopLiveTraces, SetClient, Types
    <2>2. \A r \in Replicas : stopQ'[r] = stopQ[r] \union {s}
        BY <1>3 DEF StopLiveTraces
    <2> QED
        BY <1>3, <2>1, <2>2 DEF AllOver, Over, StopLiveTraces
<1>4. ASSUME NEW s \in Subscriptions, LoseStop(s) PROVE AllOver'
    <2>1. /\ \A x \in Subscriptions \ {s} : client'[x] = client[x]
          /\ client'[s].state = "abandoned" /\ client[s].state = "live"
        BY <1>1, <1>4 DEF LoseStop, SetClient, Types
    <2> QED
        BY <1>4, <2>1 DEF AllOver, Over, LoseStop
<1>5. CASE Elapse \/ UNCHANGED vars
    BY <1>5, OverKept DEF Elapse, vars
<1> QED
    BY <1>2, <1>3, <1>4, <1>5

\* With one replica, a subscription that was refused, or whose stop request the replica
\* has handled, is not registered and never will be again: a start request does not
\* outlive its answer.  (With several replicas it can: the BFF hears the first only.)
THEOREM OneReplicaReleases ==
    ASSUME NEW CONSTANT r, Replicas = {r}
    PROVE  Spec => []ReleasedWhenOver
<1>1. Init => AllOver
    BY DEF Init, AllOver, Over
<1>2. Inv /\ AllOver /\ [Next]_vars => AllOver'
    BY OverRound, OverAnswers, OverOutside DEF Next, Registry
<1>3. AllOver => ReleasedWhenOver
    BY DEF AllOver, Over, ReleasedWhenOver, Registered
<1> QED
    BY <1>1, <1>2, <1>3, InvAlways, PTL DEF Spec

--------------------------------------------------------------------------------
(* The operations of one WebSocket: LiveOperations.                              *)

\* An iterator is returned once its operation was registered.
ReturnedRegistered ==
    \A o \in returned : task[o] \in {"streaming", "finished"}

\* What the client has not sent, the server has not begun.
NewUntouched ==
    \A o \in Operations : wanted[o] = "new" => task[o] = "none"

\* The stop request is sent when the generator leaves its last wait.
StopIsLast ==
    \A o \in Operations : generator[o] \in {"none", "starting", "waiting"} => stopSent[o] = 0

\* A generator runs once its operation is registered.
GeneratorRegistered ==
    \A o \in Operations : task[o] \in {"none", "authenticating"} => generator[o] = "none"

OpsInv ==
    /\ SocketTypeOK /\ NoStaleOperation
    /\ NewUntouched /\ ReturnedRegistered /\ GeneratorRegistered /\ StopIsLast

LEMMA OpsInvInit ==
    ASSUME SocketInit
    PROVE  OpsInv
<1>1. forwarded \in [Operations -> 0 .. MaxEvents]
    BY OperationsAssumption DEF SocketInit
<1>2. SocketTypeOK
    BY <1>1 DEF SocketInit, SocketTypeOK, Tasks, Generators, Sessions
<1> QED
    BY <1>2 DEF SocketInit, OpsInv, StopIsLast, GeneratorRegistered, NewUntouched, ReturnedRegistered, NoStaleOperation

LEMMA OpsInvStep ==
    ASSUME OpsInv, [SocketNext]_(socketVars)
    PROVE  OpsInv'
<1> USE OperationsAssumption DEF OpsInv, SocketTypeOK, StopIsLast, GeneratorRegistered, NewUntouched,
        ReturnedRegistered, NoStaleOperation, Tasks, Generators, Sessions
<1>1. ASSUME NEW o \in Operations, Subscribe(o) PROVE OpsInv'
    BY <1>1 DEF Subscribe
<1>2. ASSUME NEW o \in Operations, Complete(o) PROVE OpsInv'
    BY <1>2 DEF Complete
<1>3. ASSUME NEW o \in Operations, RegisterOperation(o) PROVE OpsInv'
    BY <1>3 DEF RegisterOperation
<1>4. ASSUME NEW o \in Operations, RejectOperation(o) PROVE OpsInv'
    BY <1>4 DEF RejectOperation
<1>5. ASSUME NEW o \in Operations, ForwardPayload(o) PROVE OpsInv'
    BY <1>5 DEF ForwardPayload, StopSession
<1>6. ASSUME NEW o \in Operations, FinishOperation(o) PROVE OpsInv'
    BY <1>6 DEF FinishOperation
<1>7. ASSUME NEW o \in Operations, Generator(o) PROVE OpsInv'
    BY <1>7 DEF Generator, StartAnswered, StartFails, QueueClosed, WatchdogFires, StopAnswered,
       StopSession
<1>8. ASSUME NEW o \in Operations, SessionStarts(o) \/ SessionStops(o) PROVE OpsInv'
    BY <1>8 DEF SessionStarts, SessionStops
<1>9. CASE CloseSocket
    BY <1>9 DEF CloseSocket, CleanupSocketOperations
<1>10. CASE Shutdown
    BY <1>10 DEF Shutdown, CleanupSocketOperations
<1>11. CASE UNCHANGED socketVars
    BY <1>11 DEF socketVars
<1> QED
    BY <1>1, <1>2, <1>3, <1>4, <1>5, <1>6, <1>7, <1>8, <1>9, <1>10, <1>11
       DEF SocketNext, Client, HandleMessage

\* However many operations a socket has had and however they end, its state is
\* well typed and a generator's finally block sends one stop request at most.
THEOREM OperationsTyped == SocketSpec => []SocketTypeOK
<1>0. (SocketInit => OpsInv) /\ (OpsInv /\ [SocketNext]_(socketVars) => OpsInv')
    BY OpsInvInit, OpsInvStep
<1>1. OpsInv => SocketTypeOK
    BY DEF OpsInv
<1> QED
    BY <1>0, <1>1, PTL DEF SocketSpec

\* However its operations end, socket.data.operations holds running ones only.
THEOREM NoneStale == SocketSpec => []NoStaleOperation
<1>0. (SocketInit => OpsInv) /\ (OpsInv /\ [SocketNext]_(socketVars) => OpsInv')
    BY OpsInvInit, OpsInvStep
<1>1. OpsInv => NoStaleOperation
    BY DEF OpsInv
<1> QED
    BY <1>0, <1>1, PTL DEF SocketSpec
================================================================================
