----------------------------- MODULE AlertEvaluator -----------------------------
(***************************************************************************)
(* core/alert-evaluator: evaluateRule over the history of one rule.        *)
(*                                                                         *)
(* An evaluation reads the rule's latest event, its silences and its       *)
(* telemetry, decides the next event, records it in the control plane and  *)
(* then dispatches a notification, with a bridge call for each step and no *)
(* lock or lease.  Rules share nothing but the deadline of a tick, so one  *)
(* rule is modelled.  Whether its condition holds is the choice of the     *)
(* telemetry; the query and condition parsers are abstracted to it.        *)
(*                                                                         *)
(* The bridge ports return coded errors only, which evaluateRule returns   *)
(* without recording anything: the ERROR event it records for other errors *)
(* is not reachable in the service.  A request's own clock, which nothing  *)
(* in the repository sends, is left out: evaluations have distinct times.  *)
(*                                                                         *)
(* requestJSON waits 1.5 seconds and withdraws nothing: the control plane  *)
(* may handle a record request after its evaluation has given it up.       *)
(***************************************************************************)
EXTENDS Integers, Sequences, FiniteSets, SequencesExt

CONSTANTS
    Schedulers,     \* goroutines that call Tick, one or more for each replica
    Handlers,       \* goroutines that answer alert_evaluator.rules.evaluate
    PendingFor, Cooldown,
    Prompt,         \* whether every request given up is handled, or lost, before
                    \* the next evaluation reads; the interval of a tick makes it
                    \* likely, and nothing ensures it
    MaxLate,        \* bound on the requests given up and not handled yet
    MaxTime         \* bound on the clock

Evaluators == Schedulers \union Handlers

ASSUME EvaluatorAssumption ==
    /\ PendingFor \in Nat /\ Cooldown \in Nat /\ MaxTime \in Nat /\ MaxLate \in Nat
    /\ Prompt \in BOOLEAN
    /\ Schedulers \intersect Handlers = {}

Open == {"PENDING", "FIRING", "SILENCED"}
States == Open \union {"OK", "RESOLVED", "ERROR"}
Event == [state : States, startedAt : Nat, createdAt : Nat]

\* What latestEvent returns for a rule without history.
NoEvent == [state |-> "NONE", startedAt |-> 0, createdAt |-> 0]

VARIABLES
    now,
    enabled,        \* the rule's enabled flag
    silence,        \* whether a silence of the rule is in force
    history,        \* the alert_event table, in the order of its writes
    notified,       \* the events handed to the notification dispatcher
    eval,           \* the evaluation of each goroutine
    late            \* events whose record request was given up before it was handled

vars == <<now, enabled, silence, history, notified, eval, late>>

Pcs == {"idle", "latest", "silences", "query", "record", "dispatch"}

\* An evaluation keeps its time when it is over.
Evaluation == [pc : Pcs, at : Nat, enabled : BOOLEAN, latest : Event \union {NoEvent},
               silenced : BOOLEAN, event : Event \union {NoEvent}]

Idle(at) ==
    [pc |-> "idle", at |-> at, enabled |-> FALSE, latest |-> NoEvent, silenced |-> FALSE,
     event |-> NoEvent]

TypeOK ==
    /\ now \in 0 .. MaxTime
    /\ enabled \in BOOLEAN /\ silence \in BOOLEAN
    /\ history \in Seq(Event)
    /\ notified \in Seq(Event)
    /\ eval \in [Evaluators -> Evaluation]
    /\ late \subseteq Event

Init ==
    /\ now = 0
    /\ enabled = TRUE /\ silence = FALSE
    /\ history = <<>> /\ notified = <<>>
    /\ eval = [e \in Evaluators |-> Idle(0)]
    /\ late = {}

--------------------------------------------------------------------------------
(* The decision *)

\* ListAlertEvents orders by createdAt, newest first; ties go by a random id.
Latest ==
    IF history = <<>> THEN {NoEvent}
    ELSE {h \in ToSet(history) : \A g \in ToSet(history) : g.createdAt <= h.createdAt}

\* Mutant: a silence is not resolved.
ClosableForgetsSilence == {"PENDING", "FIRING", "ERROR"}

\* The states an evaluation that finds the condition false resolves.
Closable == Open \union {"ERROR"}

\* Mutant: the cooldown is measured from the start of the incident.
CoolingFromStart(latest, at) == at - latest.startedAt < Cooldown

Cooling(latest, at) == at - latest.createdAt < Cooldown

\* nextState; "suppressed" is its empty state, inside the cooldown.
NextState(latest, active, at) ==
    CASE ~active /\ latest.state \in Closable -> "RESOLVED"
      [] ~active /\ latest.state \notin Closable -> "OK"
      [] active /\ latest.state = "FIRING" ->
           IF Cooling(latest, at) THEN "suppressed" ELSE "FIRING"
      [] active /\ latest.state = "PENDING" ->
           IF at - latest.startedAt >= PendingFor THEN "FIRING" ELSE "PENDING"
      [] OTHER -> IF PendingFor > 0 THEN "PENDING" ELSE "FIRING"

\* Mutant: the empty state is recorded like any other.
NeverSuppressed(state) == FALSE

\* evaluateRule returns the latest event when nextState is empty.
Suppressed(state) == state = "suppressed"

\* Mutant: every event continues the latest one's incident.
StartedAtAlwaysInherited(latest, state, at) ==
    IF latest # NoEvent THEN latest.startedAt ELSE at

\* transitionEvent: an open event takes over the start of the event before it.
StartedAt(latest, state, at) ==
    IF latest # NoEvent /\ state \in Open THEN latest.startedAt ELSE at

TransitionEvent(latest, state, at) ==
    [state |-> state, startedAt |-> StartedAt(latest, state, at), createdAt |-> at]

--------------------------------------------------------------------------------
(* The steps of an evaluation *)

Goto(e, changes) == eval' = [eval EXCEPT ![e] = changes]
Return(e) == Goto(e, Idle(eval[e].at))

Begin(e) ==
    /\ eval[e].pc = "idle"
    /\ \A f \in Evaluators : eval[f].at < now
    /\ Goto(e, [Idle(now) EXCEPT !.pc = "latest", !.enabled = enabled])
    /\ UNCHANGED <<now, enabled, silence, history, notified, late>>

\* Tick lists the enabled rules.
Tick(e) == e \in Schedulers /\ enabled /\ Begin(e)

\* EvaluateRuleRequest loads the rule, enabled or not.
EvaluateRuleRequest(e) == e \in Handlers /\ Begin(e)

\* A disabled rule is OK, whatever its telemetry.
ReadLatest(e) ==
    /\ eval[e].pc = "latest"
    /\ Prompt => late = {}
    /\ \E latest \in Latest :
        Goto(e, IF eval[e].enabled
                  THEN [eval[e] EXCEPT !.pc = "silences", !.latest = latest]
                  ELSE [eval[e] EXCEPT !.pc = "record", !.latest = latest,
                                       !.event = TransitionEvent(latest, "OK", eval[e].at)])
    /\ UNCHANGED <<now, enabled, silence, history, notified, late>>

ReadSilences(e) ==
    /\ eval[e].pc = "silences"
    /\ Goto(e, [eval[e] EXCEPT !.pc = "query", !.silenced = silence])
    /\ UNCHANGED <<now, enabled, silence, history, notified, late>>

\* The telemetry answers whether the condition holds.
EvaluateCondition(e) ==
    /\ eval[e].pc = "query"
    /\ \E active \in BOOLEAN :
        LET latest == eval[e].latest
            state == IF active /\ eval[e].silenced
                       THEN "SILENCED" ELSE NextState(latest, active, eval[e].at)
        IN IF Suppressed(state)
             THEN Return(e)
             ELSE Goto(e, [eval[e] EXCEPT !.pc = "record",
                             !.event = TransitionEvent(latest, state, eval[e].at)])
    /\ UNCHANGED <<now, enabled, silence, history, notified, late>>

\* The control plane writes the event.  A FIRING one is dispatched, unless the
\* reply is lost.
Record(e) ==
    /\ eval[e].pc = "record"
    /\ history' = Append(history, eval[e].event)
    /\ \/ Return(e)
       \/ eval[e].event.state = "FIRING" /\ Goto(e, [eval[e] EXCEPT !.pc = "dispatch"])
    /\ UNCHANGED <<now, enabled, silence, notified, late>>

\* The evaluation returns whatever the result is.
DispatchNotification(e) ==
    /\ eval[e].pc = "dispatch"
    /\ notified' = Append(notified, eval[e].event)
    /\ Return(e)
    /\ UNCHANGED <<now, enabled, silence, history, late>>

\* Mutant: a failure to record the event does not stop the dispatch.
FailDispatches(e) ==
    /\ eval[e].pc # "idle"
    /\ IF eval[e].pc = "record" /\ eval[e].event.state = "FIRING"
         THEN Goto(e, [eval[e] EXCEPT !.pc = "dispatch"])
         ELSE Return(e)
    /\ UNCHANGED <<now, enabled, silence, history, notified, late>>

\* A bridge call fails or the deadline passes, and nothing is recorded: the request
\* is lost, refused, or does not reach the store.
Fail(e) ==
    /\ eval[e].pc # "idle"
    /\ Return(e)
    /\ UNCHANGED <<now, enabled, silence, history, notified, late>>

\* The reply to a record request takes too long, and the request still waits for the
\* control plane.
GiveUp(e) ==
    /\ eval[e].pc = "record"
    /\ Cardinality(late) < MaxLate
    /\ late' = late \union {eval[e].event}
    /\ Return(e)
    /\ UNCHANGED <<now, enabled, silence, history, notified>>

\* The control plane handles a request that nobody waits for; its store may fail.
RecordAlertHistory ==
    /\ \E event \in late :
        /\ late' = late \ {event}
        /\ history' \in {history, Append(history, event)}
    /\ UNCHANGED <<now, enabled, silence, notified, eval>>

\* A project admin changes the rule or a silence starts or ends.
Administer ==
    /\ \/ enabled' = ~enabled /\ UNCHANGED silence
       \/ silence' = ~silence /\ UNCHANGED enabled
    /\ UNCHANGED <<now, history, notified, eval, late>>

Elapse ==
    /\ now < MaxTime
    /\ now' = now + 1
    /\ UNCHANGED <<enabled, silence, history, notified, eval, late>>

Next ==
    \/ \E e \in Evaluators :
         \/ Tick(e) \/ EvaluateRuleRequest(e)
         \/ ReadLatest(e) \/ ReadSilences(e) \/ EvaluateCondition(e)
         \/ Record(e) \/ DispatchNotification(e) \/ Fail(e) \/ GiveUp(e)
    \/ RecordAlertHistory
    \/ Administer
    \/ Elapse

Spec == Init /\ [][Next]_vars

--------------------------------------------------------------------------------
(* Properties *)

\* However evaluations race and fail, a notification is of a FIRING event that
\* is in the history, and no event is notified twice.
NotifiedFromHistory ==
    /\ ToSet(notified) \subseteq {h \in ToSet(history) : h.state = "FIRING"}
    /\ IsInjective(notified)

\* One incident, one record of when it began: an open incident is closed by
\* RESOLVED and nothing else, and all of its events have the same start.
IncidentHistory ==
    \A i \in 1 .. Len(history) - 1 :
        LET a == history[i]  b == history[i + 1] IN
        a.state \in Open => /\ b.state # "OK"
                            /\ b.state \in Open => b.startedAt = a.startedAt

\* A rule that keeps firing is announced again only after its cooldown.
CooldownHeld ==
    \A i \in 1 .. Len(history) - 1 :
        history[i].state = "FIRING" /\ history[i + 1].state = "FIRING" =>
            history[i + 1].createdAt - history[i].createdAt >= Cooldown

\* A rule does not fire within PendingFor of an evaluation that recorded its
\* condition as false.
NoFiringSoonAfterInactive ==
    \A i, j \in 1 .. Len(history) :
        i < j /\ history[i].state \in {"OK", "RESOLVED"} /\ history[j].state = "FIRING" =>
            history[j].createdAt - history[i].createdAt >= PendingFor

\* A rule fires only when every evaluation of the last PendingFor found its
\* condition true, the first of them that long ago.
FiringWasPending ==
    PendingFor > 0 =>
    \A j \in 1 .. Len(history) : history[j].state = "FIRING" =>
        \E i \in 1 .. j - 1 :
            /\ history[j].createdAt - history[i].createdAt >= PendingFor
            /\ \A k \in i .. j : history[k].state \in Open
================================================================================
