-------------------------- MODULE AlertEvaluatorProofs --------------------------
(***************************************************************************)
(* For any number of schedulers and handlers: evaluations stay well typed, *)
(* and a notification is of an event of the history, once.                 *)
(*                                                                         *)
(* The time of an evaluation identifies it: no two in progress share one,  *)
(* and none has the time of an event already notified.                     *)
(*                                                                         *)
(* For one scheduler alone, when a record request it has given up is not   *)
(* handled after its next evaluation has read: the history of a rule reads *)
(* as incidents.  The invariant relates every two events of the history,   *)
(* and the evaluation in progress, or the event given up, to its last one. *)
(***************************************************************************)
EXTENDS AlertEvaluator, TLAPS

Running(e) == eval[e].pc # "idle"

\* An evaluation's event has its time; at dispatch it is a firing one of the history.
EventOfEvaluation ==
    \A e \in Evaluators :
        /\ eval[e].pc \in {"record", "dispatch"} =>
             eval[e].event \in Event /\ eval[e].event.createdAt = eval[e].at
        /\ eval[e].pc = "dispatch" =>
             eval[e].event \in ToSet(history) /\ eval[e].event.state = "FIRING"

DistinctTimes ==
    \A e, f \in Evaluators : e # f /\ Running(e) /\ Running(f) => eval[e].at # eval[f].at

\* Notified events are not later than the latest evaluation of some goroutine,
\* and not of the time of an evaluation in progress.
NotifiedBefore ==
    \A n \in ToSet(notified) :
        /\ \E e \in Evaluators : n.createdAt <= eval[e].at
        /\ \A e \in Evaluators : Running(e) => n.createdAt # eval[e].at

Inv ==
    /\ TypeOK
    /\ EventOfEvaluation
    /\ DistinctTimes
    /\ NotifiedBefore
    /\ NotifiedFromHistory

LEMMA AppendFacts ==
    ASSUME NEW S, NEW s \in Seq(S), NEW x \in S
    PROVE  /\ Append(s, x) \in Seq(S)
           /\ ToSet(Append(s, x)) = ToSet(s) \union {x}
           /\ IsInjective(s) /\ x \notin ToSet(s) => IsInjective(Append(s, x))
<1>1. /\ Append(s, x) \in Seq(S) /\ Len(Append(s, x)) = Len(s) + 1
      /\ DOMAIN s = 1 .. Len(s) /\ DOMAIN Append(s, x) = 1 .. Len(s) + 1
      /\ \A i \in 1 .. Len(s) : Append(s, x)[i] = s[i]
      /\ Append(s, x)[Len(s) + 1] = x
      /\ Len(s) \in Nat
    OBVIOUS
<1>2. ToSet(Append(s, x)) = ToSet(s) \union {x}
    BY <1>1 DEF ToSet
<1>3. IsInjective(s) /\ x \notin ToSet(s) => IsInjective(Append(s, x))
    BY <1>1 DEF ToSet, IsInjective
<1> QED
    BY <1>1, <1>2, <1>3

LEMMA MembersTyped ==
    ASSUME NEW S, NEW s \in Seq(S)
    PROVE  ToSet(s) \subseteq S
    BY DEF ToSet

\* What the decision makes of a stored or an absent event is an event.
LEMMA TransitionTyped ==
    ASSUME NEW latest \in Event \union {NoEvent}, NEW state \in States, NEW at \in Nat
    PROVE  /\ TransitionEvent(latest, state, at) \in Event
           /\ TransitionEvent(latest, state, at).createdAt = at
    BY DEF TransitionEvent, StartedAt, Event, NoEvent

LEMMA NextStateTyped ==
    ASSUME NEW latest \in Event \union {NoEvent}, NEW active \in BOOLEAN, NEW at \in Nat
    PROVE  NextState(latest, active, at) \in States \union {"suppressed"}
    BY DEF NextState, Cooling, States, Open

LEMMA LatestTyped == TypeOK => Latest \subseteq Event \union {NoEvent}
    BY DEF TypeOK, Latest, ToSet

LEMMA IdleTyped ==
    ASSUME NEW at \in Nat
    PROVE  /\ Idle(at) \in Evaluation
           /\ Idle(at).pc = "idle" /\ Idle(at).at = at
    BY DEF Idle, Evaluation, Pcs

LEMMA InitInv == Init => Inv
<1> SUFFICES ASSUME Init PROVE Inv
    OBVIOUS
<1>1. TypeOK
    <2>1. eval \in [Evaluators -> Evaluation]
        BY IdleTyped DEF Init
    <2>2. <<>> \in Seq(Event) /\ 0 \in 0 .. MaxTime
        BY EvaluatorAssumption
    <2> QED
        BY <2>1, <2>2 DEF Init, TypeOK
<1>2. ToSet(notified) = {} /\ IsInjective(notified)
    BY DEF Init, ToSet, IsInjective
<1>3. \A e \in Evaluators : eval[e].pc = "idle"
    BY DEF Init, Idle
<1> QED
    BY <1>1, <1>2, <1>3 DEF Inv, EventOfEvaluation, DistinctTimes, NotifiedBefore,
       NotifiedFromHistory, Running

--------------------------------------------------------------------------------

\* A step of one evaluation that notifies nothing and keeps its time.
LEMMA StepOfEvaluation ==
    ASSUME Inv, NEW e \in Evaluators, NEW w \in Evaluation,
           eval' = [eval EXCEPT ![e] = w],
           UNCHANGED <<now, enabled, silence, notified>>, late' \subseteq Event,
           history' \in Seq(Event), ToSet(history) \subseteq ToSet(history)',
           w.at = eval[e].at,
           w.pc # "idle" => Running(e),
           w.pc \in {"record", "dispatch"} => w.event \in Event /\ w.event.createdAt = w.at,
           w.pc = "dispatch" => w.event \in ToSet(history)' /\ w.event.state = "FIRING"
    PROVE  Inv'
<1>1. TypeOK'
    BY DEF Inv, TypeOK
<1>2. /\ eval'[e] = w
      /\ \A f \in Evaluators : f # e => eval'[f] = eval[f]
      /\ \A f \in Evaluators : eval'[f].at = eval[f].at /\ (Running(f)' => Running(f))
    BY DEF Inv, TypeOK, Running
<1>3. EventOfEvaluation'
    BY <1>2 DEF Inv, EventOfEvaluation
<1>4. DistinctTimes'
    BY <1>2 DEF Inv, DistinctTimes
<1>5. NotifiedBefore'
    BY <1>2 DEF Inv, NotifiedBefore
<1>6. NotifiedFromHistory'
    BY DEF Inv, NotifiedFromHistory
<1> QED
    BY <1>1, <1>3, <1>4, <1>5, <1>6 DEF Inv

LEMMA BeginInv ==
    ASSUME Inv, NEW e \in Evaluators, Begin(e)
    PROVE  Inv'
<1> DEFINE w == [Idle(now) EXCEPT !.pc = "latest", !.enabled = enabled]
<1>1. now \in Nat /\ \A f \in Evaluators : eval[f] \in Evaluation /\ eval[f].at \in Nat /\ eval[f].at < now
    BY EvaluatorAssumption DEF Inv, TypeOK, Begin, Evaluation
<1>2. w \in Evaluation /\ w.pc = "latest" /\ w.at = now
    BY <1>1, IdleTyped DEF Idle, Evaluation, Pcs, Inv, TypeOK
<1>3. /\ eval'[e] = w
      /\ \A f \in Evaluators : f # e => eval'[f] = eval[f]
      /\ UNCHANGED <<now, enabled, silence, history, notified, late>>
    BY DEF Begin, Goto, Inv, TypeOK
<1>4. TypeOK'
    BY <1>2 DEF Begin, Goto, Inv, TypeOK
<1>5. EventOfEvaluation'
    BY <1>2, <1>3 DEF Inv, EventOfEvaluation
<1>6. DistinctTimes'
    <2> SUFFICES ASSUME NEW f \in Evaluators, NEW g \in Evaluators, f # g,
                        Running(f)', Running(g)'
                 PROVE  eval'[f].at # eval'[g].at
        BY DEF DistinctTimes
    <2>1. CASE f # e /\ g # e
        BY <2>1, <1>3 DEF Inv, DistinctTimes, Running
    <2>2. CASE f = e
        BY <2>2, <1>1, <1>2, <1>3
    <2>3. CASE g = e
        BY <2>3, <1>1, <1>2, <1>3
    <2> QED
        BY <2>1, <2>2, <2>3
<1>7. NotifiedBefore'
    <2> SUFFICES ASSUME NEW n \in ToSet(notified)
                 PROVE  /\ \E f \in Evaluators : n.createdAt <= eval'[f].at
                        /\ \A f \in Evaluators : Running(f)' => n.createdAt # eval'[f].at
        BY <1>3 DEF NotifiedBefore
    <2>1. n \in Event /\ n.createdAt \in Nat
        BY MembersTyped DEF Inv, TypeOK, Event
    <2>2. PICK g \in Evaluators : n.createdAt <= eval[g].at
        BY DEF Inv, NotifiedBefore
    <2>3. n.createdAt < now
        BY <1>1, <2>1, <2>2
    <2>4. n.createdAt <= eval'[e].at
        BY <1>1, <1>2, <1>3, <2>1, <2>3
    <2>5. \A f \in Evaluators : Running(f)' => n.createdAt # eval'[f].at
        <3> SUFFICES ASSUME NEW f \in Evaluators, Running(f)'
                     PROVE  n.createdAt # eval'[f].at
            OBVIOUS
        <3>1. CASE f = e
            BY <3>1, <1>1, <1>2, <1>3, <2>1, <2>3
        <3>2. CASE f # e
            <4>1. eval'[f] = eval[f] /\ Running(f)
                BY <3>2, <1>3 DEF Running
            <4> QED
                BY <4>1 DEF Inv, NotifiedBefore
        <3> QED
            BY <3>1, <3>2
    <2> QED
        BY <2>4, <2>5
<1>8. NotifiedFromHistory'
    BY <1>3 DEF Inv, NotifiedFromHistory
<1> QED
    BY <1>4, <1>5, <1>6, <1>7, <1>8 DEF Inv

LEMMA DispatchInv ==
    ASSUME Inv, NEW e \in Evaluators, DispatchNotification(e)
    PROVE  Inv'
<1> DEFINE n == eval[e].event
<1>1. /\ eval[e].pc = "dispatch" /\ notified' = Append(notified, n)
      /\ UNCHANGED <<now, enabled, silence, history, late>>
    BY DEF DispatchNotification
<1>2. n \in Event /\ n.createdAt = eval[e].at /\ n \in ToSet(history) /\ n.state = "FIRING"
    BY <1>1 DEF Inv, EventOfEvaluation
<1>3. eval[e].at \in Nat
    BY DEF Inv, TypeOK, Evaluation
<1>4. PICK w \in Evaluation :
        w.pc = "idle" /\ w.at = eval[e].at /\ eval' = [eval EXCEPT ![e] = w]
    BY <1>3, IdleTyped DEF DispatchNotification, Return, Goto
<1>5. /\ eval'[e] = w
      /\ \A f \in Evaluators : f # e => eval'[f] = eval[f]
      /\ \A f \in Evaluators : eval'[f].at = eval[f].at /\ (Running(f)' => Running(f) /\ f # e)
    BY <1>4 DEF Inv, TypeOK, Running
<1>6. n \notin ToSet(notified)
    BY <1>1, <1>2 DEF Inv, NotifiedBefore, Running
<1>7. /\ notified' \in Seq(Event)
      /\ ToSet(notified)' = ToSet(notified) \union {n}
      /\ IsInjective(notified')
    BY <1>1, <1>2, <1>6, AppendFacts DEF Inv, TypeOK, NotifiedFromHistory
<1>8. TypeOK'
    BY <1>1, <1>4, <1>7 DEF Inv, TypeOK
<1>9. EventOfEvaluation'
    BY <1>1, <1>4, <1>5 DEF Inv, EventOfEvaluation
<1>10. DistinctTimes'
    BY <1>5 DEF Inv, DistinctTimes
<1>11. NotifiedBefore'
    <2>1. /\ \E f \in Evaluators : n.createdAt <= eval'[f].at
          /\ \A f \in Evaluators : Running(f)' => n.createdAt # eval'[f].at
        BY <1>1, <1>2, <1>3, <1>5 DEF Inv, DistinctTimes, Running
    <2> QED
        BY <1>5, <1>7, <2>1 DEF Inv, NotifiedBefore
<1>12. NotifiedFromHistory'
    BY <1>1, <1>2, <1>7 DEF Inv, NotifiedFromHistory
<1> QED
    BY <1>8, <1>9, <1>10, <1>11, <1>12 DEF Inv

--------------------------------------------------------------------------------
(* The steps before the dispatch, each by StepOfEvaluation *)

LEMMA Typed ==
    ASSUME Inv, NEW e \in Evaluators
    PROVE  /\ eval[e] \in Evaluation /\ eval[e].at \in Nat
           /\ eval[e].latest \in Event \union {NoEvent}
           /\ eval[e].enabled \in BOOLEAN
    BY DEF Inv, TypeOK, Evaluation

LEMMA ReturnInv ==
    ASSUME Inv, NEW e \in Evaluators, Return(e),
           UNCHANGED <<now, enabled, silence, notified>>, late' \subseteq Event,
           history' \in Seq(Event), ToSet(history) \subseteq ToSet(history)'
    PROVE  Inv'
<1>1. eval[e].at \in Nat
    BY Typed
<1> DEFINE w == Idle(eval[e].at)
<1>2. w \in Evaluation /\ w.pc = "idle" /\ w.at = eval[e].at
    BY <1>1, IdleTyped
<1>3. eval' = [eval EXCEPT ![e] = w]
    BY DEF Return, Goto
<1> HIDE DEF w
<1> QED
    BY <1>2, <1>3, StepOfEvaluation

LEMMA ReadLatestInv ==
    ASSUME Inv, NEW e \in Evaluators, ReadLatest(e)
    PROVE  Inv'
<1>1. PICK latest \in Event \union {NoEvent} :
        Goto(e, IF eval[e].enabled
                  THEN [eval[e] EXCEPT !.pc = "silences", !.latest = latest]
                  ELSE [eval[e] EXCEPT !.pc = "record", !.latest = latest,
                                       !.event = TransitionEvent(latest, "OK", eval[e].at)])
    BY LatestTyped DEF ReadLatest, Inv
<1>2. /\ eval[e].pc = "latest" /\ Running(e)
      /\ UNCHANGED <<now, enabled, silence, history, notified, late>>
    BY DEF ReadLatest, Running
<1>3. history' \in Seq(Event) /\ ToSet(history)' = ToSet(history) /\ late' \subseteq Event
    BY <1>2 DEF Inv, TypeOK
<1>4. CASE eval[e].enabled
    <2> DEFINE w == [eval[e] EXCEPT !.pc = "silences", !.latest = latest]
    <2>1. w \in Evaluation /\ w.pc = "silences" /\ w.at = eval[e].at
        BY Typed DEF Evaluation, Pcs
    <2>2. eval' = [eval EXCEPT ![e] = w]
        BY <1>1, <1>4 DEF Goto
    <2> HIDE DEF w
    <2> QED
        BY <1>2, <1>3, <2>1, <2>2, StepOfEvaluation
<1>5. CASE ~eval[e].enabled
    <2> DEFINE ok == TransitionEvent(latest, "OK", eval[e].at)
               w == [eval[e] EXCEPT !.pc = "record", !.latest = latest, !.event = ok]
    <2>1. ok \in Event /\ ok.createdAt = eval[e].at
        BY Typed, TransitionTyped DEF States
    <2> HIDE DEF ok
    <2>2. w \in Evaluation /\ w.pc = "record" /\ w.at = eval[e].at /\ w.event = ok
        BY <2>1, Typed DEF Evaluation, Pcs
    <2>3. eval' = [eval EXCEPT ![e] = w]
        BY <1>1, <1>5 DEF Goto, ok
    <2> HIDE DEF w
    <2> QED
        BY <1>2, <1>3, <2>1, <2>2, <2>3, StepOfEvaluation
<1> QED
    BY <1>4, <1>5

LEMMA ReadSilencesInv ==
    ASSUME Inv, NEW e \in Evaluators, ReadSilences(e)
    PROVE  Inv'
<1> DEFINE w == [eval[e] EXCEPT !.pc = "query", !.silenced = silence]
<1>1. w \in Evaluation /\ w.pc = "query" /\ w.at = eval[e].at
    BY Typed DEF Evaluation, Pcs, Inv, TypeOK
<1>2. /\ eval' = [eval EXCEPT ![e] = w] /\ Running(e)
      /\ UNCHANGED <<now, enabled, silence, history, notified, late>>
    BY DEF ReadSilences, Goto, Running
<1>3. history' \in Seq(Event) /\ ToSet(history)' = ToSet(history) /\ late' \subseteq Event
    BY <1>2 DEF Inv, TypeOK
<1> HIDE DEF w
<1> QED
    BY <1>1, <1>2, <1>3, StepOfEvaluation

LEMMA EvaluateConditionInv ==
    ASSUME Inv, NEW e \in Evaluators, EvaluateCondition(e)
    PROVE  Inv'
<1>1. /\ eval[e].pc = "query" /\ Running(e)
      /\ UNCHANGED <<now, enabled, silence, history, notified, late>>
    BY DEF EvaluateCondition, Running
<1>2. history' \in Seq(Event) /\ ToSet(history)' = ToSet(history) /\ late' \subseteq Event
    BY <1>1 DEF Inv, TypeOK
<1>3. PICK active \in BOOLEAN :
        LET state == IF active /\ eval[e].silenced
                       THEN "SILENCED" ELSE NextState(eval[e].latest, active, eval[e].at)
        IN IF Suppressed(state)
             THEN Return(e)
             ELSE Goto(e, [eval[e] EXCEPT !.pc = "record",
                             !.event = TransitionEvent(eval[e].latest, state, eval[e].at)])
    BY DEF EvaluateCondition
<1> DEFINE state == IF active /\ eval[e].silenced
                      THEN "SILENCED" ELSE NextState(eval[e].latest, active, eval[e].at)
<1>4. state \in States \union {"suppressed"}
    BY Typed, NextStateTyped DEF States, Open
<1>5. CASE state = "suppressed"
    BY <1>1, <1>2, <1>3, <1>5, ReturnInv DEF Suppressed
<1>6. CASE state # "suppressed"
    <2> DEFINE event == TransitionEvent(eval[e].latest, state, eval[e].at)
               w == [eval[e] EXCEPT !.pc = "record", !.event = event]
    <2>1. eval' = [eval EXCEPT ![e] = w]
        BY <1>3, <1>6 DEF Suppressed, Goto
    <2>2. event \in Event /\ event.createdAt = eval[e].at
        BY <1>4, <1>6, Typed, TransitionTyped
    <2> HIDE DEF event
    <2>3. w \in Evaluation /\ w.pc = "record" /\ w.at = eval[e].at /\ w.event = event
        BY <2>2, Typed DEF Evaluation, Pcs
    <2> HIDE DEF w
    <2> QED
        BY <1>1, <1>2, <2>1, <2>2, <2>3, StepOfEvaluation
<1> QED
    BY <1>5, <1>6

LEMMA RecordInv ==
    ASSUME Inv, NEW e \in Evaluators, Record(e)
    PROVE  Inv'
<1>1. /\ eval[e].pc = "record" /\ Running(e) /\ history' = Append(history, eval[e].event)
      /\ UNCHANGED <<now, enabled, silence, notified, late>>
    BY DEF Record, Running
<1>2. eval[e].event \in Event /\ eval[e].event.createdAt = eval[e].at
    BY <1>1 DEF Inv, EventOfEvaluation
<1>3. /\ history' \in Seq(Event) /\ late' \subseteq Event
      /\ ToSet(history)' = ToSet(history) \union {eval[e].event}
    BY <1>1, <1>2, AppendFacts DEF Inv, TypeOK
<1>4. CASE Return(e)
    BY <1>1, <1>3, <1>4, ReturnInv
<1>5. CASE eval[e].event.state = "FIRING" /\ Goto(e, [eval[e] EXCEPT !.pc = "dispatch"])
    <2> DEFINE w == [eval[e] EXCEPT !.pc = "dispatch"]
    <2>1. /\ w \in Evaluation /\ w.pc = "dispatch" /\ w.at = eval[e].at
          /\ w.event = eval[e].event
        BY Typed DEF Evaluation, Pcs
    <2>2. eval' = [eval EXCEPT ![e] = w]
        BY <1>5 DEF Goto
    <2> HIDE DEF w
    <2>3. w.event \in ToSet(history)' /\ w.event.state = "FIRING"
        BY <1>3, <1>5, <2>1
    <2> QED
        BY <1>1, <1>2, <1>3, <2>1, <2>2, <2>3, StepOfEvaluation
<1> QED
    BY <1>4, <1>5 DEF Record

LEMMA GiveUpInv ==
    ASSUME Inv, NEW e \in Evaluators, GiveUp(e)
    PROVE  Inv'
<1>1. /\ eval[e].pc = "record" /\ late' = late \union {eval[e].event} /\ Return(e)
      /\ UNCHANGED <<now, enabled, silence, history, notified>>
    BY DEF GiveUp
<1>2. late' \subseteq Event
    BY <1>1 DEF Inv, TypeOK, EventOfEvaluation
<1>3. history' \in Seq(Event) /\ ToSet(history)' = ToSet(history)
    BY <1>1 DEF Inv, TypeOK
<1> QED
    BY <1>1, <1>2, <1>3, ReturnInv

\* A request that nobody waits for adds to the history and to nothing else.
LEMMA RecordAlertHistoryInv ==
    ASSUME Inv, RecordAlertHistory
    PROVE  Inv'
<1>1. PICK event \in late :
        late' = late \ {event} /\ history' \in {history, Append(history, event)}
    BY DEF RecordAlertHistory
<1>2. UNCHANGED <<now, enabled, silence, notified, eval>>
    BY DEF RecordAlertHistory
<1>3. event \in Event /\ late' \subseteq Event
    BY <1>1 DEF Inv, TypeOK
<1>4. history' \in Seq(Event) /\ ToSet(history) \subseteq ToSet(history)'
    <2>1. history \in Seq(Event)
        BY DEF Inv, TypeOK
    <2>2. CASE history' = history
        BY <2>1, <2>2
    <2>3. CASE history' = Append(history, event)
        BY <1>3, <2>1, <2>3, AppendFacts
    <2> QED
        BY <1>1, <2>2, <2>3
<1>5. TypeOK'
    BY <1>2, <1>3, <1>4 DEF Inv, TypeOK
<1>6. EventOfEvaluation'
    BY <1>2, <1>4 DEF Inv, EventOfEvaluation
<1>7. DistinctTimes' /\ NotifiedBefore'
    BY <1>2 DEF Inv, DistinctTimes, NotifiedBefore, Running
<1>8. NotifiedFromHistory'
    BY <1>2, <1>4 DEF Inv, NotifiedFromHistory
<1> QED
    BY <1>5, <1>6, <1>7, <1>8 DEF Inv

--------------------------------------------------------------------------------

LEMMA StepInv == Inv /\ [Next]_vars => Inv'
<1> SUFFICES ASSUME Inv, [Next]_vars PROVE Inv'
    OBVIOUS
<1>1. ASSUME NEW e \in Evaluators, Tick(e) \/ EvaluateRuleRequest(e) PROVE Inv'
    BY <1>1, BeginInv DEF Tick, EvaluateRuleRequest
<1>2. ASSUME NEW e \in Evaluators,
             \/ ReadLatest(e) \/ ReadSilences(e) \/ EvaluateCondition(e)
             \/ Record(e) \/ GiveUp(e)
      PROVE  Inv'
    BY <1>2, ReadLatestInv, ReadSilencesInv, EvaluateConditionInv, RecordInv, GiveUpInv
<1>3. ASSUME NEW e \in Evaluators, DispatchNotification(e) PROVE Inv'
    BY <1>3, DispatchInv
<1>4. ASSUME NEW e \in Evaluators, Fail(e) PROVE Inv'
    <2>1. history' \in Seq(Event) /\ ToSet(history)' = ToSet(history) /\ late' \subseteq Event
        BY <1>4 DEF Fail, Inv, TypeOK
    <2> QED
        BY <1>4, <2>1, ReturnInv DEF Fail
<1>5. CASE Administer \/ Elapse \/ UNCHANGED vars
    <2>1. UNCHANGED <<history, notified, eval, late>>
        BY <1>5 DEF Administer, Elapse, vars
    <2>2. now' \in 0 .. MaxTime
        BY <1>5, EvaluatorAssumption DEF Administer, Elapse, vars, Inv, TypeOK
    <2>3. enabled' \in BOOLEAN /\ silence' \in BOOLEAN
        BY <1>5 DEF Administer, Elapse, vars, Inv, TypeOK
    <2>4. TypeOK'
        BY <2>1, <2>2, <2>3 DEF Inv, TypeOK
    <2> QED
        BY <2>1, <2>4 DEF Inv, EventOfEvaluation, DistinctTimes, NotifiedBefore,
           NotifiedFromHistory, Running
<1> QED
    BY <1>1, <1>2, <1>3, <1>4, <1>5, RecordAlertHistoryInv DEF Next

\* Every evaluation, event and notification stays within its type, whatever
\* evaluations overlap and fail in evaluateRule.
THEOREM EvaluationsTyped == Spec => []TypeOK
<1>1. Inv => TypeOK
    BY DEF Inv
<1> QED
    BY <1>1, InitInv, StepInv, PTL DEF Spec

\* evaluateRule dispatches after RecordAlertHistory: what is notified is a
\* firing event of the history, and none is notified twice.
THEOREM Notified == Spec => []NotifiedFromHistory
<1>1. Inv => NotifiedFromHistory
    BY DEF Inv
<1> QED
    BY <1>1, InitInv, StepInv, PTL DEF Spec

--------------------------------------------------------------------------------
(* One scheduler and no handler *)

Closed == {"OK", "RESOLVED"}

\* b may come right after a in the history of a rule.
Follows(a, b) ==
    /\ a.state \in Open => /\ b.state # "OK"
                           /\ b.state \in Open => b.startedAt = a.startedAt
    /\ a.state = "FIRING" /\ b.state = "FIRING" => b.createdAt - a.createdAt >= Cooldown

\* b may come somewhere after a: it begins after a closed event, and fires PendingFor
\* after it.
Later(a, b) ==
    /\ a.createdAt < b.createdAt
    /\ a.state \in Closed => a.createdAt <= b.startedAt
    /\ a.state \in Closed /\ b.state = "FIRING" => b.createdAt - a.createdAt >= PendingFor

\* A closed event is an incident of its own.
StartsItself(a) == a.state \in Closed => a.startedAt = a.createdAt

Fits(b) ==
    /\ StartsItself(b)
    /\ \A i \in 1 .. Len(history) : Later(history[i], b)
    /\ history # <<>> => Follows(history[Len(history)], b)

WellOrdered ==
    /\ \A i \in 1 .. Len(history) : StartsItself(history[i])
    /\ \A i, j \in 1 .. Len(history) : i < j => Later(history[i], history[j])
    /\ \A i \in 1 .. Len(history) - 1 : Follows(history[i], history[i + 1])

Newest == IF history = <<>> THEN NoEvent ELSE history[Len(history)]

\* The evaluation of s in progress is later than the whole history, decides from its
\* last event, and records what fits.
Deciding(s) ==
    /\ \A i \in 1 .. Len(history) :
        /\ history[i].createdAt <= eval[s].at
        /\ eval[s].pc \in {"latest", "silences", "query", "record"} =>
             history[i].createdAt < eval[s].at
    /\ Running(s) => eval[s].enabled
    /\ eval[s].pc \in {"silences", "query"} => eval[s].latest = Newest
    /\ eval[s].pc = "record" => Fits(eval[s].event)

\* An event given up is the only one, still fits, and is older than an evaluation that
\* has begun and not read yet; there is none once it has read.
Overdue(s) ==
    /\ \A b \in late : /\ late = {b} /\ Fits(b)
                       /\ b.createdAt <= eval[s].at
                       /\ eval[s].pc = "latest" => b.createdAt < eval[s].at
    /\ late # {} => eval[s].pc \in {"idle", "latest"}

OneInv(s) == Inv /\ WellOrdered /\ Deciding(s) /\ Overdue(s)

LEMMA HistoryFacts ==
    ASSUME TypeOK
    PROVE  /\ Len(history) \in Nat
           /\ history = <<>> <=> Len(history) = 0
           /\ \A i \in 1 .. Len(history) : history[i] \in Event
           /\ history # <<>> => Len(history) \in 1 .. Len(history)
           /\ Newest \in Event \union {NoEvent}
           /\ history # <<>> => Newest = history[Len(history)] /\ Newest \in Event /\ Newest # NoEvent
           /\ history = <<>> => Newest = NoEvent
<1>1. history \in Seq(Event)
    BY DEF TypeOK
<1>2. /\ Len(history) \in Nat
      /\ history = <<>> <=> Len(history) = 0
      /\ \A i \in 1 .. Len(history) : history[i] \in Event
    BY <1>1
<1>3. NoEvent \notin Event
    BY DEF NoEvent, Event, States, Open
<1> QED
    BY <1>2, <1>3 DEF Newest

\* Distinct and growing times leave one candidate for the latest event.
LEMMA LatestIsNewest ==
    ASSUME TypeOK, WellOrdered
    PROVE  Latest = {Newest}
<1>1. CASE history = <<>>
    BY <1>1 DEF Latest, Newest
<1>2. CASE history # <<>>
    <2> DEFINE n == Len(history)
    <2>1. n \in 1 .. n /\ Newest = history[n] /\ \A i \in 1 .. n : history[i] \in Event
        BY <1>2, HistoryFacts
    <2>2. ToSet(history) = {history[i] : i \in 1 .. n}
        BY <2>1 DEF ToSet, TypeOK
    <2>3. \A i \in 1 .. n : i # n => history[i].createdAt < history[n].createdAt
        BY <2>1 DEF WellOrdered, Later
    <2>4. \A i \in 1 .. n : history[i].createdAt \in Nat
        BY <2>1 DEF Event
    <2>5. \A g \in ToSet(history) : g.createdAt <= history[n].createdAt
        BY <2>1, <2>2, <2>3, <2>4
    <2>6. \A i \in 1 .. n :
            (\A g \in ToSet(history) : g.createdAt <= history[i].createdAt) => history[i] = history[n]
        BY <2>1, <2>2, <2>3, <2>4
    <2> QED
        BY <1>2, <2>1, <2>2, <2>5, <2>6 DEF Latest
<1> QED
    BY <1>1, <1>2

\* What nextState decides from the last event of a well ordered history fits it.
LEMMA DecisionFits ==
    ASSUME TypeOK, WellOrdered, NEW at \in Nat, NEW active \in BOOLEAN, NEW state \in States,
           \A i \in 1 .. Len(history) : history[i].createdAt < at,
           state = "SILENCED" \/ state = NextState(Newest, active, at)
    PROVE  Fits(TransitionEvent(Newest, state, at))
<1> DEFINE b == TransitionEvent(Newest, state, at)
           n == Len(history)
<1>1. /\ b.state = state /\ b.createdAt = at /\ b.startedAt = StartedAt(Newest, state, at)
      /\ Cooldown \in Nat /\ PendingFor \in Nat
    BY EvaluatorAssumption DEF TransitionEvent
<1>2. StartsItself(b)
    BY <1>1 DEF StartsItself, StartedAt, Closed, Open
<1>3. CASE history = <<>>
    BY <1>2, <1>3, HistoryFacts DEF Fits
<1>4. CASE history # <<>>
    <2>1. /\ n \in 1 .. n /\ Newest = history[n] /\ Newest \in Event /\ Newest # NoEvent
          /\ \A i \in 1 .. n : history[i] \in Event
        BY <1>4, HistoryFacts
    <2>2. /\ Newest.createdAt \in Nat /\ Newest.startedAt \in Nat /\ Newest.state \in States
          /\ Newest.createdAt < at
        BY <2>1 DEF Event
    <2>3. b.startedAt = IF state \in Open THEN Newest.startedAt ELSE at
        BY <1>1, <2>1 DEF StartedAt
    <2>4. Follows(Newest, b)
        <3>1. Newest.state \in Open => state # "OK"
            BY <2>2 DEF NextState, Closable, Cooling, Open
        <3>2. Newest.state = "FIRING" /\ state = "FIRING" => at - Newest.createdAt >= Cooldown
            BY <1>1, <2>2 DEF NextState, Closable, Cooling, Open, States
        <3> QED
            BY <1>1, <2>3, <3>1, <3>2 DEF Follows
    <2>5. ASSUME NEW i \in 1 .. n PROVE Later(history[i], b)
        <3>1. history[i] \in Event /\ history[i].createdAt \in Nat /\ history[i].createdAt < at
            BY <2>1 DEF Event
        <3>2. history[i].state \in Closed => history[i].createdAt <= Newest.startedAt
            <4>1. CASE i = n
                BY <2>1, <3>1, <4>1 DEF WellOrdered, StartsItself
            <4>2. CASE i # n
                BY <2>1, <4>2 DEF WellOrdered, Later
            <4> QED
                BY <4>1, <4>2
        <3>3. history[i].state \in Closed => history[i].createdAt <= b.startedAt
            BY <2>3, <3>1, <3>2
        <3>4. ASSUME history[i].state \in Closed, state = "FIRING"
              PROVE  at - history[i].createdAt >= PendingFor
            <4>1. CASE Newest.state = "FIRING"
                <5>1. i # n
                    BY <2>1, <3>4, <4>1 DEF Closed
                <5>2. Newest.createdAt - history[i].createdAt >= PendingFor
                    BY <2>1, <3>4, <4>1, <5>1 DEF WellOrdered, Later
                <5> QED
                    BY <1>1, <2>2, <3>1, <5>2
            <4>2. CASE Newest.state = "PENDING"
                <5>1. at - Newest.startedAt >= PendingFor
                    BY <2>2, <3>4, <4>2 DEF NextState, Closable, Open
                <5> QED
                    BY <1>1, <2>2, <3>1, <3>2, <3>4, <5>1
            <4>3. CASE Newest.state \notin {"FIRING", "PENDING"}
                <5>1. PendingFor = 0
                    BY <1>1, <2>2, <3>4, <4>3 DEF NextState, Closable, Open
                <5> QED
                    BY <3>1, <5>1
            <4> QED
                BY <4>1, <4>2, <4>3
        <3> QED
            BY <1>1, <3>1, <3>3, <3>4 DEF Later
    <2> QED
        BY <1>2, <2>1, <2>4, <2>5 DEF Fits
<1> QED
    BY <1>3, <1>4

\* The history grows by an event that fits.
LEMMA AppendOrdered ==
    ASSUME TypeOK, WellOrdered, NEW b \in Event, Fits(b), history' = Append(history, b)
    PROVE  WellOrdered'
<1> DEFINE n == Len(history)
<1>1. /\ n \in Nat /\ Len(history') = n + 1 /\ history'[n + 1] = b
      /\ \A i \in 1 .. n : history'[i] = history[i]
      /\ history # <<>> <=> n # 0
    BY DEF TypeOK
<1>2. ASSUME NEW i \in 1 .. Len(history') PROVE StartsItself(history'[i])
    <2>1. CASE i \in 1 .. n
        BY <1>1, <2>1 DEF WellOrdered
    <2>2. CASE i = n + 1
        BY <1>1, <2>2 DEF Fits
    <2> QED
        BY <1>1, <2>1, <2>2
<1>3. ASSUME NEW i \in 1 .. Len(history'), NEW j \in 1 .. Len(history'), i < j
      PROVE  Later(history'[i], history'[j])
    <2>1. CASE j \in 1 .. n
        BY <1>1, <1>3, <2>1 DEF WellOrdered
    <2>2. CASE j = n + 1
        BY <1>1, <1>3, <2>2 DEF Fits
    <2> QED
        BY <1>1, <2>1, <2>2
<1>4. ASSUME NEW i \in 1 .. Len(history') - 1 PROVE Follows(history'[i], history'[i + 1])
    <2>1. CASE i < n
        BY <1>1, <1>4, <2>1 DEF WellOrdered
    <2>2. CASE i = n
        BY <1>1, <1>4, <2>2 DEF Fits
    <2> QED
        BY <1>1, <1>4, <2>1, <2>2
<1> QED
    BY <1>2, <1>3, <1>4 DEF WellOrdered, StartsItself, Later, Follows

\* A step of s that keeps the history, the events given up and the time of its evaluation.
LEMMA StepDeciding ==
    ASSUME NEW s, s \in Evaluators, TypeOK, Deciding(s), Overdue(s), NEW w,
           eval' = [eval EXCEPT ![s] = w], UNCHANGED <<history, late>>,
           w.at = eval[s].at,
           w.pc # "idle" => w.enabled,
           w.pc \in {"latest", "silences", "query", "record"} =>
             eval[s].pc \in {"latest", "silences", "query", "record"},
           w.pc \in {"silences", "query"} => w.latest = Newest,
           w.pc = "record" => Fits(w.event),
           late # {} => w.pc = "idle"
    PROVE  Deciding(s)' /\ Overdue(s)'
<1>1. eval'[s] = w /\ Newest' = Newest
    BY DEF TypeOK, Newest
<1>2. Deciding(s)'
    BY <1>1 DEF Deciding, Running, Fits
<1>3. Overdue(s)'
    BY <1>1 DEF Overdue, Fits
<1> QED
    BY <1>2, <1>3

LEMMA OneStep ==
    ASSUME NEW s, Schedulers = {s}, Handlers = {}, Prompt
    PROVE  OneInv(s) /\ [Next]_vars => OneInv(s)'
<1> SUFFICES ASSUME OneInv(s), [Next]_vars PROVE OneInv(s)'
    OBVIOUS
<1>1. /\ Inv /\ TypeOK /\ WellOrdered /\ Deciding(s) /\ Overdue(s) /\ Inv'
      /\ Evaluators = {s} /\ s \in Evaluators
    BY StepInv DEF OneInv, Inv, Evaluators
<1>2. /\ eval[s] \in Evaluation /\ eval[s].at \in Nat
      /\ eval \in [Evaluators -> Evaluation]
      /\ \A x : [eval EXCEPT ![s] = x][s] = x
    BY <1>1, Typed DEF TypeOK
<1>3. CASE Tick(s)
    <2> DEFINE w == [Idle(now) EXCEPT !.pc = "latest", !.enabled = enabled]
    <2>1. /\ enabled /\ eval' = [eval EXCEPT ![s] = w] /\ UNCHANGED <<history, late>>
          /\ eval[s].at < now
        BY <1>1, <1>3 DEF Tick, Begin, Goto
    <2>2. w.pc = "latest" /\ w.at = now /\ w.enabled = enabled
        BY DEF Idle
    <2> HIDE DEF w
    <2>3. eval'[s] = w
        BY <1>2, <2>1
    <2>4. \A i \in 1 .. Len(history) : history[i].createdAt < now /\ history[i].createdAt <= now
        <3>1. now \in Nat
            BY <1>1, EvaluatorAssumption DEF TypeOK
        <3>2. \A i \in 1 .. Len(history) : history[i].createdAt \in Nat
            BY <1>1, HistoryFacts DEF Event
        <3> QED
            BY <1>1, <1>2, <2>1, <3>1, <3>2 DEF Deciding
    <2>5. Deciding(s)'
        BY <2>1, <2>2, <2>3, <2>4 DEF Deciding, Running
    <2>6. WellOrdered'
        BY <1>1, <2>1 DEF WellOrdered
    <2>7. Overdue(s)'
        <3>1. now \in Nat /\ \A b \in late : b.createdAt \in Nat
            BY <1>1, EvaluatorAssumption DEF TypeOK, Event
        <3>2. \A b \in late : b.createdAt <= now /\ b.createdAt < now
            BY <1>1, <1>2, <2>1, <3>1 DEF Overdue
        <3> QED
            BY <1>1, <2>1, <2>2, <2>3, <3>2 DEF Overdue, Fits
    <2> QED
        BY <1>1, <2>5, <2>6, <2>7 DEF OneInv
<1>4. ASSUME Return(s), UNCHANGED <<history, late>> PROVE OneInv(s)'
    <2>1. /\ eval' = [eval EXCEPT ![s] = Idle(eval[s].at)]
          /\ Idle(eval[s].at).pc = "idle" /\ Idle(eval[s].at).at = eval[s].at
        BY <1>2, <1>4, IdleTyped DEF Return, Goto
    <2>2. Deciding(s)' /\ Overdue(s)'
        BY <1>1, <1>4, <2>1, StepDeciding
    <2>3. WellOrdered'
        BY <1>1, <1>4 DEF WellOrdered
    <2> QED
        BY <1>1, <2>2, <2>3 DEF OneInv
<1>5. CASE ReadLatest(s)
    <2>1. eval[s].pc = "latest" /\ eval[s].enabled /\ UNCHANGED <<history, late>> /\ late = {}
        BY <1>1, <1>5 DEF ReadLatest, Deciding, Running
    <2> DEFINE w == [eval[s] EXCEPT !.pc = "silences", !.latest = Newest]
    <2>2. eval' = [eval EXCEPT ![s] = w]
        BY <1>1, <1>5, <2>1, LatestIsNewest DEF ReadLatest, Goto
    <2>3. w.pc = "silences" /\ w.latest = Newest /\ w.at = eval[s].at /\ w.enabled = eval[s].enabled
        BY <1>2 DEF Evaluation
    <2> HIDE DEF w
    <2>4. Deciding(s)' /\ Overdue(s)'
        BY <1>1, <2>1, <2>2, <2>3, StepDeciding
    <2>5. WellOrdered'
        BY <1>1, <2>1 DEF WellOrdered
    <2> QED
        BY <1>1, <2>4, <2>5 DEF OneInv
<1>6. CASE ReadSilences(s)
    <2> DEFINE w == [eval[s] EXCEPT !.pc = "query", !.silenced = silence]
    <2>1. /\ eval[s].pc = "silences" /\ eval[s].enabled /\ eval[s].latest = Newest
          /\ eval' = [eval EXCEPT ![s] = w] /\ UNCHANGED <<history, late>> /\ late = {}
        BY <1>1, <1>6 DEF ReadSilences, Goto, Deciding, Running, Overdue
    <2>2. w.pc = "query" /\ w.latest = eval[s].latest /\ w.at = eval[s].at /\ w.enabled = eval[s].enabled
        BY <1>2 DEF Evaluation
    <2> HIDE DEF w
    <2>3. Deciding(s)' /\ Overdue(s)'
        BY <1>1, <2>1, <2>2, StepDeciding
    <2>4. WellOrdered'
        BY <1>1, <2>1 DEF WellOrdered
    <2> QED
        BY <1>1, <2>3, <2>4 DEF OneInv
<1>7. CASE EvaluateCondition(s)
    <2>1. /\ eval[s].pc = "query" /\ eval[s].enabled /\ eval[s].latest = Newest
          /\ UNCHANGED <<history, late>> /\ late = {}
          /\ \A i \in 1 .. Len(history) : history[i].createdAt < eval[s].at
        BY <1>1, <1>7 DEF EvaluateCondition, Deciding, Running, Overdue
    <2>2. PICK active \in BOOLEAN :
            LET state == IF active /\ eval[s].silenced
                           THEN "SILENCED" ELSE NextState(Newest, active, eval[s].at)
            IN IF Suppressed(state)
                 THEN Return(s)
                 ELSE Goto(s, [eval[s] EXCEPT !.pc = "record",
                                 !.event = TransitionEvent(Newest, state, eval[s].at)])
        BY <1>7, <2>1 DEF EvaluateCondition
    <2> DEFINE state == IF active /\ eval[s].silenced
                          THEN "SILENCED" ELSE NextState(Newest, active, eval[s].at)
    <2>3. state \in States \union {"suppressed"}
        BY <1>1, <1>2, HistoryFacts, NextStateTyped DEF States, Open
    <2>4. CASE state = "suppressed"
        BY <1>4, <2>1, <2>2, <2>4 DEF Suppressed
    <2>5. CASE state # "suppressed"
        <3> DEFINE event == TransitionEvent(Newest, state, eval[s].at)
                   w == [eval[s] EXCEPT !.pc = "record", !.event = event]
        <3>1. eval' = [eval EXCEPT ![s] = w]
            BY <2>2, <2>5 DEF Suppressed, Goto
        <3>2. Fits(event)
            <4>1. state = "SILENCED" \/ state = NextState(Newest, active, eval[s].at)
                OBVIOUS
            <4>2. state \in States
                BY <2>3, <2>5
            <4> HIDE DEF state
            <4> QED
                BY <1>1, <1>2, <2>1, <4>1, <4>2, DecisionFits
        <3> HIDE DEF event
        <3>3. w.pc = "record" /\ w.event = event /\ w.at = eval[s].at /\ w.enabled = eval[s].enabled
            BY <1>2 DEF Evaluation
        <3> HIDE DEF w
        <3>4. Deciding(s)' /\ Overdue(s)'
            BY <1>1, <2>1, <3>1, <3>2, <3>3, StepDeciding
        <3>5. WellOrdered'
            BY <1>1, <2>1 DEF WellOrdered
        <3> QED
            BY <1>1, <3>4, <3>5 DEF OneInv
    <2> QED
        BY <2>4, <2>5
<1>8. CASE Record(s)
    <2> DEFINE b == eval[s].event
               n == Len(history)
    <2>1. /\ eval[s].pc = "record" /\ eval[s].enabled /\ history' = Append(history, b) /\ Fits(b)
          /\ b \in Event /\ b.createdAt = eval[s].at /\ UNCHANGED late /\ late = {}
        BY <1>1, <1>8 DEF Record, Deciding, Running, Inv, EventOfEvaluation, Overdue
    <2>2. WellOrdered'
        BY <1>1, <2>1, AppendOrdered
    <2>3. PICK w : /\ eval' = [eval EXCEPT ![s] = w] /\ w.at = eval[s].at
                   /\ w.pc \in {"idle", "dispatch"} /\ (w.pc = "dispatch" => w.enabled)
        <3>1. CASE Return(s)
            BY <1>2, <3>1, IdleTyped DEF Return, Goto
        <3>2. CASE Goto(s, [eval[s] EXCEPT !.pc = "dispatch"])
            <4> DEFINE v == [eval[s] EXCEPT !.pc = "dispatch"]
            <4>1. v.at = eval[s].at /\ v.pc = "dispatch" /\ v.enabled = eval[s].enabled
                BY <1>2 DEF Evaluation
            <4>2. eval' = [eval EXCEPT ![s] = v]
                BY <3>2 DEF Goto
            <4> HIDE DEF v
            <4> QED
                BY <2>1, <4>1, <4>2
        <3> QED
            BY <1>8, <3>1, <3>2 DEF Record
    <2>4. eval'[s] = w
        BY <1>2, <2>3
    <2>5. \A i \in 1 .. Len(history') : history'[i].createdAt <= eval[s].at
        <3>1. /\ n \in Nat /\ Len(history') = n + 1 /\ history'[n + 1] = b
              /\ \A i \in 1 .. n : history'[i] = history[i]
            BY <1>1, <2>1 DEF TypeOK
        <3>2. \A i \in 1 .. n : history[i].createdAt <= eval[s].at
            BY <1>1 DEF Deciding
        <3> QED
            BY <1>2, <2>1, <3>1, <3>2
    <2>6. Deciding(s)'
        BY <2>3, <2>4, <2>5 DEF Deciding, Running
    <2>7. Overdue(s)'
        BY <2>1 DEF Overdue
    <2> QED
        BY <1>1, <2>2, <2>6, <2>7 DEF OneInv
<1>9. CASE DispatchNotification(s) \/ Fail(s)
    BY <1>4, <1>9 DEF DispatchNotification, Fail
<1>10. CASE Administer \/ Elapse \/ UNCHANGED vars
    <2>1. UNCHANGED <<history, eval, late>>
        BY <1>10 DEF Administer, Elapse, vars
    <2>2. WellOrdered' /\ Deciding(s)' /\ Overdue(s)'
        BY <1>1, <2>1 DEF WellOrdered, Deciding, Overdue, Running, Fits, Newest
    <2> QED
        BY <1>1, <2>2 DEF OneInv
<1>11. ~EvaluateRuleRequest(s)
    BY DEF EvaluateRuleRequest
<1>12. CASE GiveUp(s)
    <2> DEFINE b == eval[s].event
               w == Idle(eval[s].at)
    <2>1. /\ late = {} /\ Fits(b) /\ b.createdAt = eval[s].at
          /\ eval' = [eval EXCEPT ![s] = w] /\ late' = {b} /\ UNCHANGED history
        BY <1>1, <1>12 DEF GiveUp, Return, Goto, Deciding, Overdue, Inv, EventOfEvaluation
    <2>2. w.pc = "idle" /\ w.at = eval[s].at
        BY <1>2, IdleTyped
    <2> HIDE DEF w
    <2>3. eval'[s] = w
        BY <1>2, <2>1
    <2>4. Deciding(s)'
        BY <1>1, <2>1, <2>2, <2>3 DEF Deciding, Running
    <2>5. \A c \in late' : c = b /\ Fits(c)' /\ c.createdAt <= eval[s].at
        BY <1>2, <2>1 DEF Fits
    <2>6. Overdue(s)'
        BY <2>1, <2>2, <2>3, <2>5 DEF Overdue
    <2>7. WellOrdered'
        BY <1>1, <2>1 DEF WellOrdered
    <2> QED
        BY <1>1, <2>4, <2>6, <2>7 DEF OneInv
<1>13. CASE RecordAlertHistory
    <2>1. PICK b \in late :
            late' = late \ {b} /\ history' \in {history, Append(history, b)}
        BY <1>13 DEF RecordAlertHistory
    <2>2. /\ late' = {} /\ UNCHANGED eval /\ b \in Event /\ Fits(b)
          /\ b.createdAt <= eval[s].at
          /\ eval[s].pc \in {"idle", "latest"}
          /\ eval[s].pc = "latest" => b.createdAt < eval[s].at
        BY <1>1, <1>13, <2>1 DEF RecordAlertHistory, Overdue, TypeOK
    <2>3. Overdue(s)'
        BY <2>2 DEF Overdue
    <2>4. CASE history' = history
        <3>1. WellOrdered' /\ Deciding(s)'
            BY <1>1, <2>2, <2>4 DEF WellOrdered, Deciding, Running, Fits, Newest
        <3> QED
            BY <1>1, <2>3, <3>1 DEF OneInv
    <2>5. CASE history' = Append(history, b)
        <3> DEFINE n == Len(history)
        <3>1. WellOrdered'
            BY <1>1, <2>2, <2>5, AppendOrdered
        <3>2. /\ n \in Nat /\ Len(history') = n + 1 /\ history'[n + 1] = b
              /\ \A i \in 1 .. n : history'[i] = history[i]
            BY <1>1, <2>5 DEF TypeOK
        <3>3. \A i \in 1 .. n : /\ history[i].createdAt <= eval[s].at
                                /\ eval[s].pc = "latest" => history[i].createdAt < eval[s].at
            BY <1>1 DEF Deciding
        <3>4. ASSUME NEW i \in 1 .. Len(history')
              PROVE  /\ history'[i].createdAt <= eval[s].at
                     /\ eval[s].pc = "latest" => history'[i].createdAt < eval[s].at
            <4>1. CASE i \in 1 .. n
                BY <3>2, <3>3, <4>1
            <4>2. CASE i = n + 1
                BY <2>2, <3>2, <4>2
            <4> QED
                BY <3>2, <4>1, <4>2
        <3>5. Deciding(s)'
            BY <1>1, <2>2, <3>4 DEF Deciding, Running
        <3> QED
            BY <1>1, <2>3, <3>1, <3>5 DEF OneInv
    <2> QED
        BY <2>1, <2>4, <2>5
<1> QED
    BY <1>1, <1>3, <1>5, <1>6, <1>7, <1>8, <1>9, <1>10, <1>11, <1>12, <1>13 DEF Next

LEMMA OneInit ==
    ASSUME NEW s, Schedulers = {s}, Handlers = {}, Prompt
    PROVE  Init => OneInv(s)
<1> SUFFICES ASSUME Init PROVE OneInv(s)
    OBVIOUS
<1>1. Inv /\ history = <<>> /\ late = {} /\ eval[s].pc = "idle"
    BY InitInv DEF Init, Idle, Evaluators
<1> QED
    BY <1>1 DEF OneInv, WellOrdered, Deciding, Overdue, Running

LEMMA OneAlways ==
    ASSUME NEW s, Schedulers = {s}, Handlers = {}, Prompt
    PROVE  Spec => []WellOrdered
<1>1. Init => OneInv(s)
    BY OneInit
<1>2. OneInv(s) /\ [Next]_vars => OneInv(s)'
    BY OneStep
<1>3. OneInv(s) => WellOrdered
    BY DEF OneInv
<1> QED
    BY <1>1, <1>2, <1>3, PTL DEF Spec

\* With one scheduler and no request, whatever steps fail, as long as no record request
\* is handled after the evaluation that follows it has read: evaluateRule closes an open
\* incident by RESOLVED and nothing else, and its events keep the time it began.
THEOREM IncidentsOfOne ==
    ASSUME NEW s, Schedulers = {s}, Handlers = {}, Prompt
    PROVE  Spec => []IncidentHistory
<1>1. WellOrdered => IncidentHistory
    BY DEF WellOrdered, Follows, IncidentHistory
<1> QED
    BY <1>1, OneAlways, PTL

\* Under the same conditions, a rule that keeps firing is announced again only after
\* Cooldown, however long that is.
THEOREM CooldownOfOne ==
    ASSUME NEW s, Schedulers = {s}, Handlers = {}, Prompt
    PROVE  Spec => []CooldownHeld
<1>1. WellOrdered => CooldownHeld
    BY DEF WellOrdered, Follows, CooldownHeld
<1> QED
    BY <1>1, OneAlways, PTL

\* Under the same conditions, nextState lets a rule fire no sooner than PendingFor after
\* an evaluation recorded its condition as false.
THEOREM FiringOfOne ==
    ASSUME NEW s, Schedulers = {s}, Handlers = {}, Prompt
    PROVE  Spec => []NoFiringSoonAfterInactive
<1>1. WellOrdered => NoFiringSoonAfterInactive
    BY DEF WellOrdered, Later, Closed, NoFiringSoonAfterInactive
<1> QED
    BY <1>1, OneAlways, PTL
================================================================================
