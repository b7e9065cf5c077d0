-------------------------- MODULE AiChatRunsProofs --------------------------
(***************************************************************************)
(* For any set of requests and any number of faults: the state stays well  *)
(* typed, the conversation never has two active runs, the end of a run is  *)
(* final, messages are stored once and in the order of a dialogue, a key   *)
(* gets one run, what the browser is told is what is stored, and no status *)
(* stays behind.                                                           *)
(*                                                                         *)
(* OneActiveRun is not inductive by itself: a create handler that stands   *)
(* before its put has looked at the runs in an earlier step.  PutIsFree    *)
(* says that what it saw still holds, because only that handler starts     *)
(* runs and the subject has one handler; PutFresh says it of the key.      *)
(*                                                                         *)
(* The end of a run is final, though FinalizeAiChatRun does not compare    *)
(* the status it replaces.  EndsInv says why: the calls that may still be  *)
(* handled form a line, in the order the request sent them, and what       *)
(* stands in it is bounded by where the request is.  OrderInv says the     *)
(* same of the appends and the messages that are already stored.           *)
(*                                                                         *)
(* ReportInv follows an answer back to the put it stands for.  Without     *)
(* faults the request of every unanswered call waits for it (Waiting), so  *)
(* that a status a handler puts back from its copy is that of a run that   *)
(* is active or whose end is under way (Unstuck).                          *)
(***************************************************************************)
EXTENDS AiChatRuns, FiniteSetTheorems, TLAPS

AtMostOneActive == \A q, r \in ActiveRuns : q = r
PutIsFree == At("create", "putRun") => ActiveRuns = {}

Inv == TypeOK /\ AtMostOneActive /\ PutIsFree

LEMMA QueueFacts ==
    ASSUME NEW S, NEW s \in Seq(S), s # <<>>
    PROVE  s[1] \in S /\ RemoveAt(s, 1) \in Seq(S)
<1>1. Len(s) \in Nat /\ Len(s) >= 1
    OBVIOUS
<1>2. s[1] \in S
    BY <1>1
<1>3. SubSeq(s, 1, 1 - 1) = <<>> /\ SubSeq(s, 1 + 1, Len(s)) \in Seq(S)
    BY <1>1
<1>4. RemoveAt(s, 1) \in Seq(S)
    BY <1>3 DEF RemoveAt
<1> QED
    BY <1>2, <1>4

\* The part of TypeOK that calls and replies change.
TypeControl ==
  /\ pc \in [Requests -> Ops \cup {"idle", "starting", "streaming", "over"}]
  /\ reply \in [Requests -> {"none", "ok", "error"}]
  /\ DOMAIN inbox = Subjects
  /\ \A s \in Subjects : inbox[s] \in Seq(CallsOf(s))
  /\ handler \in [Subjects -> [pc: Labels, call: Calls \cup {NoCall},
                               copy: Conversations]]
  /\ \A s \in Subjects : At(s, "idle") \/ handler[s].call \in CallsOf(s)
  /\ answered \subseteq OwnerCalls

LEMMA SubjectsOfOps ==
    /\ \A op \in Ops : SubjectOf(op) \in Subjects
    /\ \A what \in OwnerCalls : SubjectOf(what) = what /\ what \in Subjects
    BY OwnerAssumption DEF Ops, SubjectOf, Subjects, Appends, Terminal

LEMMA CallTyped ==
    ASSUME TypeControl, NEW q \in Requests, NEW op \in Ops, Call(q, op),
           UNCHANGED <<handler, answered>>
    PROVE  TypeControl'
<1>1. SubjectOf(op) \in Subjects
    BY SubjectsOfOps
<1>2. <<q, op>> \in CallsOf(SubjectOf(op))
    BY DEF CallsOf, Calls
<1>3. DOMAIN inbox' = Subjects /\ \A s \in Subjects : inbox'[s] \in Seq(CallsOf(s))
    BY <1>1, <1>2 DEF Call, TypeControl
<1> QED
    BY <1>3 DEF Call, TypeControl, At, CallsOf

LEMMA GotoTyped ==
    ASSUME TypeControl, NEW q \in Requests,
           NEW at \in Ops \cup {"idle", "starting", "streaming", "over"}, Goto(q, at),
           UNCHANGED <<handler, answered>>
    PROVE  TypeControl'
    BY DEF Goto, TypeControl, At, CallsOf

LEMMA ReplyToTyped ==
    ASSUME TypeControl, NEW s \in Subjects, NEW call \in CallsOf(s),
           NEW outcome \in {"ok", "error"}, ReplyTo(call, outcome)
    PROVE  /\ reply' \in [Requests -> {"none", "ok", "error"}]
           /\ answered' \subseteq OwnerCalls
<1>1. call \in (Requests \X Ops) \cup ({"owner"} \X OwnerCalls)
    BY DEF CallsOf, Calls
<1>2. CASE call[1] = "owner"
    BY <1>1, <1>2, OwnerAssumption DEF ReplyTo, TypeControl
<1>3. CASE call[1] # "owner"
    BY <1>1, <1>3 DEF ReplyTo, TypeControl
<1> QED
    BY <1>2, <1>3

LEMMA TakesTyped ==
    ASSUME TypeControl, NEW s \in Subjects, Takes(s)
    PROVE  /\ Oldest(s) \in CallsOf(s)
           /\ DOMAIN inbox' = Subjects
           /\ \A t \in Subjects : inbox'[t] \in Seq(CallsOf(t))
<1>1. inbox[s] \in Seq(CallsOf(s)) /\ inbox[s] # <<>>
    BY DEF TypeControl, Takes
<1>2. Oldest(s) \in CallsOf(s) /\ RemoveAt(inbox[s], FirstInLine(s)) \in Seq(CallsOf(s))
    BY <1>1, QueueFacts DEF Oldest, FirstInLine
<1> QED
    BY <1>2 DEF TypeControl, Takes

\* Every statement of a handler keeps the types and touches that handler only.
HandlerFacts(s) ==
  /\ TypeControl'
  /\ \A t \in Subjects : t # s => handler'[t] = handler[t]

LEMMA AcceptFacts ==
    ASSUME TypeControl, conv \in Conversations, NEW s \in Subjects, NEW at \in Labels,
           Takes(s), Accept(s, at), UNCHANGED pc
    PROVE  HandlerFacts(s) /\ handler'[s].pc = at
<1>1. /\ Oldest(s) \in CallsOf(s)
      /\ DOMAIN inbox' = Subjects
      /\ \A t \in Subjects : inbox'[t] \in Seq(CallsOf(t))
    BY TakesTyped
<1>2. Oldest(s) \in Calls
    BY <1>1 DEF CallsOf
<1>3. handler' \in [Subjects -> [pc: Labels, call: Calls \cup {NoCall},
                                 copy: Conversations]]
    BY <1>2 DEF Accept, TypeControl
<1>4. \A t \in Subjects : handler'[t] = IF t = s
        THEN [pc |-> at, call |-> Oldest(s), copy |-> conv] ELSE handler[t]
    BY DEF Accept, TypeControl
<1>5. ASSUME NEW t \in Subjects
      PROVE  handler'[t].pc = "idle" \/ handler'[t].call \in CallsOf(t)
    <2>1. CASE t = s
        BY <1>1, <1>4, <2>1
    <2>2. CASE t # s
        BY <1>4, <2>2 DEF TypeControl, At
    <2> QED
        BY <2>1, <2>2
<1>6. \A t \in Subjects : CallsOf(t)' = CallsOf(t)
    BY DEF CallsOf
<1> QED
    BY <1>1, <1>3, <1>4, <1>5, <1>6 DEF HandlerFacts, TypeControl, Accept, At

LEMMA RefuseFacts ==
    ASSUME TypeControl, NEW s \in Subjects, Takes(s), Refuse(s), UNCHANGED pc
    PROVE  HandlerFacts(s) /\ handler' = handler
<1>1. /\ Oldest(s) \in CallsOf(s)
      /\ DOMAIN inbox' = Subjects
      /\ \A t \in Subjects : inbox'[t] \in Seq(CallsOf(t))
    BY TakesTyped
<1>2. reply' \in [Requests -> {"none", "ok", "error"}] /\ answered' \subseteq OwnerCalls
    BY <1>1, ReplyToTyped DEF Refuse
<1> QED
    BY <1>1, <1>2 DEF HandlerFacts, TypeControl, Refuse, At, CallsOf

LEMMA ProceedFacts ==
    ASSUME TypeControl, conv \in Conversations, NEW s \in Subjects, NEW at \in Labels,
           ~At(s, "idle"), Proceed(s, at) \/ ProceedWithCopy(s, at), UNCHANGED pc
    PROVE  HandlerFacts(s) /\ handler'[s].pc = at
<1> DEFINE Record == [pc: Labels, call: Calls \cup {NoCall}, copy: Conversations]
<1>0. handler \in [Subjects -> Record] /\ handler[s] \in Record
    BY DEF TypeControl
<1>a. [handler[s] EXCEPT !.pc = at] \in Record
    BY <1>0
<1>b. [handler[s] EXCEPT !.pc = at, !.copy = conv] \in Record
    BY <1>0
<1>1. handler' \in [Subjects -> Record]
    BY <1>0, <1>a, <1>b DEF Proceed, ProceedWithCopy
<1>2. /\ \A t \in Subjects : t # s => handler'[t] = handler[t]
      /\ handler'[s].pc = at /\ handler'[s].call = handler[s].call
    BY DEF Proceed, ProceedWithCopy, TypeControl
<1>3. \A t \in Subjects : At(t, "idle")' \/ handler'[t].call \in CallsOf(t)
    BY <1>2 DEF TypeControl, At
<1> QED
    BY <1>1, <1>2, <1>3 DEF HandlerFacts, TypeControl, Proceed, ProceedWithCopy, At, CallsOf

LEMMA ReplyFacts ==
    ASSUME TypeControl, NEW s \in Subjects, NEW outcome \in {"ok", "error"},
           ~At(s, "idle"), Reply(s, outcome), UNCHANGED pc
    PROVE  HandlerFacts(s) /\ handler'[s].pc = "idle"
<1>1. handler[s].call \in CallsOf(s)
    BY DEF TypeControl
<1>2. reply' \in [Requests -> {"none", "ok", "error"}] /\ answered' \subseteq OwnerCalls
    BY <1>1, ReplyToTyped DEF Reply
<1>3. Idle \in [pc: Labels, call: Calls \cup {NoCall}, copy: Conversations]
    BY DEF Idle, Labels, Conversations, NoConversation
<1>4. handler' \in [Subjects -> [pc: Labels, call: Calls \cup {NoCall},
                                 copy: Conversations]]
    BY <1>3 DEF Reply, TypeControl
<1>5. \A t \in Subjects : handler'[t] = IF t = s THEN Idle ELSE handler[t]
    BY DEF Reply, TypeControl
<1>6. Idle.pc = "idle"
    BY DEF Idle
<1>7. \A t \in Subjects : At(t, "idle")' \/ handler'[t].call \in CallsOf(t)
    BY <1>5, <1>6 DEF TypeControl, At
<1> QED
    BY <1>2, <1>4, <1>5, <1>6, <1>7 DEF HandlerFacts, TypeControl, Reply, At, CallsOf

-----------------------------------------------------------------------------

\* The rest of TypeOK.
TypeData ==
  /\ conv \in Conversations
  /\ run \in [Requests -> {"none", "streaming"} \cup Terminal]
  /\ messages \in Seq([request: Requests \cup {"owner"}, kind: Appends,
                       text: Texts \cup {FirstText}])
  /\ input \in [Requests -> [key: Keys, text: Texts, append: BOOLEAN]]
  /\ parts \in [Requests -> BOOLEAN]
  /\ aborted \in [Requests -> BOOLEAN]
  /\ emitted \in [Requests -> {"none", "completed", "failed"}]
  /\ asked \subseteq OwnerCalls
  /\ faults \in 0..MaxDisturbed

LEMMA TypeParts == TypeOK <=> TypeControl /\ TypeData
    BY DEF TypeOK, TypeControl, TypeData

LEMMA TypePartsNext ==
    /\ TypeControl' /\ TypeData' => TypeOK'
    /\ TypeOK' => TypeControl'
    BY DEF TypeOK, TypeControl, TypeData

\* A step of a request makes a call or moves on, and leaves the store and the
\* handlers alone.
LEMMA RequestSteps ==
    ASSUME TypeOK, NEW q \in Requests, RequestStep(q) \/ Abort(q)
    PROVE  TypeOK' /\ UNCHANGED <<run, handler>>
<1> DEFINE Places == {"idle", "starting", "streaming", "over"}
           Moves == \/ \E op \in Ops : Call(q, op)
                    \/ \E at \in Ops \cup Places : Goto(q, at)
                    \/ UNCHANGED <<pc, reply, inbox>>
<1>0. TypeControl /\ TypeData
    BY TypeParts
<1>1. Moves /\ UNCHANGED <<conv, run, messages, handler, asked, answered, faults>>
    <2> USE DEF store, owner, control, Ops, Appends, Terminal
    <2>1. CASE BeginRequest(q)
        BY <2>1 DEF BeginRequest
    <2>2. CASE RunCreated(q)
        BY <2>2 DEF RunCreated
    <2>3. CASE UserAppended(q)
        BY <2>3 DEF UserAppended
    <2>4. CASE EmitStarted(q)
        BY <2>4 DEF EmitStarted, Catch
    <2>5. CASE HarnessEvent(q)
        BY <2>5 DEF HarnessEvent, Catch
    <2>6. CASE HarnessFails(q)
        BY <2>6 DEF HarnessFails, Catch
    <2>7. CASE HarnessEnds(q)
        BY <2>7 DEF HarnessEnds
    <2>8. CASE AnswerAppended(q)
        BY <2>8 DEF AnswerAppended, Catch
    <2>9. CASE RunCompleted(q)
        BY <2>9 DEF RunCompleted, Catch
    <2>10. CASE NoteAppended(q)
        BY <2>10 DEF NoteAppended
    <2>11. CASE RunEnded(q)
        BY <2>11 DEF RunEnded
    <2>12. CASE Abort(q)
        BY <2>12 DEF Abort
    <2> QED
        BY <2>1, <2>2, <2>3, <2>4, <2>5, <2>6, <2>7, <2>8, <2>9, <2>10, <2>11, <2>12
           DEF RequestStep
<1>2. TypeControl'
    <2>1. CASE \E op \in Ops : Call(q, op)
        BY <1>0, <1>1, <2>1, CallTyped
    <2>2. CASE \E at \in Ops \cup Places : Goto(q, at)
        BY <1>0, <1>1, <2>2, GotoTyped
    <2>3. CASE UNCHANGED <<pc, reply, inbox>>
        BY <1>0, <1>1, <2>3 DEF TypeControl, At, CallsOf
    <2> QED
        BY <1>1, <2>1, <2>2, <2>3
<1>3. /\ input' \in [Requests -> [key: Keys, text: Texts, append: BOOLEAN]]
      /\ parts' \in [Requests -> BOOLEAN]
      /\ aborted' \in [Requests -> BOOLEAN]
      /\ emitted' \in [Requests -> {"none", "completed", "failed"}]
    <2> USE <1>0 DEF TypeData
    <2>1. CASE BeginRequest(q)
        BY <2>1 DEF BeginRequest
    <2>2. CASE RunCreated(q) \/ UserAppended(q) \/ EmitStarted(q) \/ HarnessFails(q)
               \/ HarnessEnds(q) \/ AnswerAppended(q) \/ NoteAppended(q)
        BY <2>2 DEF RunCreated, UserAppended, EmitStarted, HarnessFails, HarnessEnds,
                    AnswerAppended, NoteAppended
    <2>3. CASE HarnessEvent(q)
        BY <2>3 DEF HarnessEvent
    <2>4. CASE RunCompleted(q)
        BY <2>4 DEF RunCompleted
    <2>5. CASE RunEnded(q)
        BY <2>5 DEF RunEnded
    <2>6. CASE Abort(q)
        BY <2>6 DEF Abort
    <2> QED
        BY <2>1, <2>2, <2>3, <2>4, <2>5, <2>6 DEF RequestStep
<1>4. TypeData'
    BY <1>0, <1>1, <1>3 DEF TypeData
<1> QED
    BY <1>1, <1>2, <1>4, TypePartsNext

-----------------------------------------------------------------------------

LEMMA CallerTyped ==
    ASSUME TypeControl, NEW s \in {"create", "append", "finalize"}, ~At(s, "idle")
    PROVE  /\ Caller(s) \in Requests
           /\ s = "append" => Op(s) \in Appends
           /\ s = "finalize" => Op(s) \in Terminal
<1>1. handler[s].call \in CallsOf(s)
    BY DEF TypeControl, Subjects
<1>2. /\ handler[s].call \in (Requests \X Ops) \cup ({"owner"} \X OwnerCalls)
      /\ SubjectOf(handler[s].call[2]) = s
    BY <1>1 DEF CallsOf, Calls
<1>3. handler[s].call \in Requests \X Ops
    BY <1>2, SubjectsOfOps, OwnerAssumption
<1> QED
    BY <1>2, <1>3 DEF Caller, Op, SubjectOf, Ops, Appends, Terminal

LEMMA CopyTyped ==
    ASSUME TypeControl, NEW s \in Subjects
    PROVE  handler[s].copy \in Conversations
    BY DEF TypeControl

\* The steps of the create handler.
LEMMA CreateSteps ==
    ASSUME Inv, CreateReads \/ CreateChecks \/ CreatePutsRun \/ CreatePutsConversation
    PROVE  Inv'
<1>0. TypeControl /\ TypeData /\ "create" \in Subjects
    BY TypeParts DEF Inv, Subjects
<1> USE <1>0
<1>1. CASE CreateReads
    <2>1. HandlerFacts("create") /\ (handler'["create"].pc = "check" \/ handler' = handler)
        BY <1>1, AcceptFacts, RefuseFacts DEF CreateReads, keepsBff, TypeData, Labels
    <2>2. TypeData' /\ UNCHANGED run
        BY <1>1 DEF CreateReads, keepsBff, store, TypeData
    <2> QED
        BY <2>1, <2>2, TypePartsNext
           DEF Inv, HandlerFacts, AtMostOneActive, PutIsFree, ActiveRuns, At
<1>2. CASE CreateChecks
    <2>1. /\ HandlerFacts("create")
          /\ handler'["create"].pc = "putRun" => ActiveRuns = {}
        BY <1>2, ProceedFacts, ReplyFacts DEF CreateChecks, keepsBff, TypeData, Labels, At
    <2>2. TypeData' /\ UNCHANGED run
        BY <1>2 DEF CreateChecks, keepsBff, store, TypeData
    <2> QED
        BY <2>1, <2>2, TypePartsNext
           DEF Inv, HandlerFacts, AtMostOneActive, PutIsFree, ActiveRuns, At
<1>3. CASE CreatePutsRun
    <2>1. HandlerFacts("create") /\ handler'["create"].pc = "putConversation"
        BY <1>3, ProceedFacts DEF CreatePutsRun, keepsBff, TypeData, Labels, At
    <2>2. Caller("create") \in Requests /\ ActiveRuns = {}
        BY <1>3, CallerTyped DEF CreatePutsRun, At, Inv, PutIsFree
    <2>3. TypeData'
        BY <1>3, <2>2 DEF CreatePutsRun, keepsBff, TypeData
    <2>4. ActiveRuns' = {Caller("create")}
        BY <1>3, <2>2 DEF CreatePutsRun, TypeData, ActiveRuns
    <2> QED
        BY <2>1, <2>3, <2>4, TypePartsNext DEF Inv, HandlerFacts, AtMostOneActive, PutIsFree, At
<1>4. CASE CreatePutsConversation
    <2>1. HandlerFacts("create") /\ handler'["create"].pc = "idle"
        BY <1>4, ReplyFacts DEF CreatePutsConversation, keepsBff, At
    <2>2. TypeData' /\ UNCHANGED run
        BY <1>4, CopyTyped DEF CreatePutsConversation, keepsBff, TypeData, Conversations
    <2> QED
        BY <2>1, <2>2, TypePartsNext
           DEF Inv, HandlerFacts, AtMostOneActive, PutIsFree, ActiveRuns, At
<1> QED
    BY <1>1, <1>2, <1>3, <1>4

\* The steps of the other handlers: runs end or are deleted.
LEMMA OtherSteps ==
    ASSUME Inv, NEW s \in Subjects \ {"create"}, HandlerFacts(s), TypeData',
           \A q \in Requests : run'[q] = "streaming" => run[q] = "streaming"
    PROVE  Inv'
<1>1. handler'["create"] = handler["create"] /\ TypeOK'
    BY TypePartsNext DEF HandlerFacts, Subjects
<1>2. ActiveRuns' \subseteq ActiveRuns
    BY DEF ActiveRuns
<1> QED
    BY <1>1, <1>2 DEF Inv, AtMostOneActive, PutIsFree, At

LEMMA AppendSteps ==
    ASSUME Inv,
           AppendReads \/ AppendReadsRun \/ AppendPutsMessage \/ AppendPutsConversation
    PROVE  Inv'
<1>0. TypeControl /\ TypeData /\ "append" \in Subjects \ {"create"}
    BY TypeParts DEF Inv, Subjects
<1> USE <1>0
<1>1. CASE AppendReads
    <2>1. HandlerFacts("append")
        BY <1>1, AcceptFacts, RefuseFacts DEF AppendReads, keepsBff, TypeData, Labels
    <2> QED
        BY <1>1, <2>1, OtherSteps DEF AppendReads, keepsBff, store, TypeData
<1>2. CASE AppendReadsRun
    <2>1. HandlerFacts("append")
        BY <1>2, ProceedFacts, ReplyFacts DEF AppendReadsRun, keepsBff, TypeData, Labels, At
    <2> QED
        BY <1>2, <2>1, OtherSteps DEF AppendReadsRun, keepsBff, store, TypeData
<1>3. CASE AppendPutsMessage
    <2>1. HandlerFacts("append")
        BY <1>3, ProceedFacts DEF AppendPutsMessage, keepsBff, TypeData, Labels, At
    <2>2. Caller("append") \in Requests /\ Op("append") \in Appends
        BY <1>3, CallerTyped DEF AppendPutsMessage, At
    <2>3. Message(Caller("append"), Op("append")) \in
            [request: Requests \cup {"owner"}, kind: Appends, text: Texts \cup {FirstText}]
        BY <2>2 DEF Message, TypeData
    <2>4. TypeData'
        BY <1>3, <2>3 DEF AppendPutsMessage, keepsBff, TypeData
    <2> QED
        BY <1>3, <2>1, <2>4, OtherSteps DEF AppendPutsMessage
<1>4. CASE AppendPutsConversation
    <2>1. HandlerFacts("append")
        BY <1>4, ReplyFacts DEF AppendPutsConversation, keepsBff, At
    <2>2. TypeData'
        BY <1>4, CopyTyped DEF AppendPutsConversation, keepsBff, TypeData
    <2> QED
        BY <1>4, <2>1, <2>2, OtherSteps DEF AppendPutsConversation
<1> QED
    BY <1>1, <1>2, <1>3, <1>4

LEMMA FinalizeSteps ==
    ASSUME Inv, \/ FinalizeReads \/ FinalizePutsRun
                \/ FinalizeReadsConversation \/ FinalizePutsConversation
    PROVE  Inv'
<1>0. TypeControl /\ TypeData /\ "finalize" \in Subjects \ {"create"}
    BY TypeParts DEF Inv, Subjects
<1> USE <1>0
<1>1. CASE FinalizeReads
    <2>1. HandlerFacts("finalize")
        BY <1>1, AcceptFacts, RefuseFacts DEF FinalizeReads, keepsBff, TypeData, Labels
    <2> QED
        BY <1>1, <2>1, OtherSteps DEF FinalizeReads, keepsBff, store, TypeData
<1>2. CASE FinalizePutsRun
    <2>1. HandlerFacts("finalize")
        BY <1>2, ProceedFacts DEF FinalizePutsRun, keepsBff, TypeData, Labels, At
    <2>2. Caller("finalize") \in Requests /\ Op("finalize") \in Terminal
        BY <1>2, CallerTyped DEF FinalizePutsRun, At
    <2>3. TypeData' /\ \A q \in Requests : run'[q] = "streaming" => run[q] = "streaming"
        BY <1>2, <2>2 DEF FinalizePutsRun, keepsBff, TypeData, Terminal
    <2> QED
        BY <2>1, <2>3, OtherSteps
<1>3. CASE FinalizeReadsConversation
    <2>1. HandlerFacts("finalize")
        BY <1>3, ProceedFacts, ReplyFacts
           DEF FinalizeReadsConversation, keepsBff, TypeData, Labels, At
    <2> QED
        BY <1>3, <2>1, OtherSteps DEF FinalizeReadsConversation, keepsBff, store, TypeData
<1>4. CASE FinalizePutsConversation
    <2>1. HandlerFacts("finalize")
        BY <1>4, ReplyFacts DEF FinalizePutsConversation, keepsBff, At
    <2>2. TypeData'
        BY <1>4, CopyTyped
           DEF FinalizePutsConversation, keepsBff, TypeData, Conversations, FinalStatus
    <2> QED
        BY <1>4, <2>1, <2>2, OtherSteps DEF FinalizePutsConversation
<1> QED
    BY <1>1, <1>2, <1>3, <1>4

LEMMA ArchivedTyped ==
    ASSUME NEW c \in Conversations
    PROVE  [c EXCEPT !.status = "archived", !.version = c.version + 1] \in Conversations
<1>1. c.version + 1 \in Nat
    BY DEF Conversations
<1>2. [c EXCEPT !.status = "archived"] \in Conversations
    BY DEF Conversations
<1>3. ASSUME NEW d \in Conversations, NEW n \in Nat
      PROVE  [d EXCEPT !.version = n] \in Conversations
    BY <1>3 DEF Conversations
<1> QED
    BY <1>1, <1>2, <1>3

LEMMA OwnerSteps ==
    ASSUME Inv, \/ ArchiveReads \/ ArchivePuts \/ DeleteReads
                \/ DeleteMessages \/ DeleteRuns \/ DeleteConversation
    PROVE  Inv'
<1>0. TypeControl /\ TypeData /\ {"archive", "delete"} \subseteq Subjects \ {"create"}
    BY TypeParts DEF Inv, Subjects
<1> USE <1>0
<1>1. CASE ArchiveReads
    <2>1. HandlerFacts("archive")
        BY <1>1, AcceptFacts, RefuseFacts DEF ArchiveReads, keepsBff, TypeData, Labels
    <2> QED
        BY <1>1, <2>1, OtherSteps DEF ArchiveReads, keepsBff, store, TypeData
<1>2. CASE ArchivePuts
    <2>1. HandlerFacts("archive")
        BY <1>2, ReplyFacts DEF ArchivePuts, keepsBff, At
    <2>2. handler["archive"].copy \in Conversations
        BY CopyTyped
    <2>3. conv' = [handler["archive"].copy EXCEPT !.status = "archived",
                     !.version = handler["archive"].copy.version + 1]
        BY <1>2 DEF ArchivePuts
    <2>4. conv' \in Conversations
        BY <2>2, <2>3, ArchivedTyped
    <2>5. TypeData'
        BY <1>2, <2>4 DEF ArchivePuts, keepsBff, TypeData
    <2> QED
        BY <1>2, <2>1, <2>5, OtherSteps DEF ArchivePuts
<1>3. CASE DeleteReads
    <2>1. HandlerFacts("delete")
        BY <1>3, AcceptFacts, RefuseFacts DEF DeleteReads, keepsBff, TypeData, Labels
    <2> QED
        BY <1>3, <2>1, OtherSteps DEF DeleteReads, keepsBff, store, TypeData
<1>4. CASE DeleteMessages
    <2>1. HandlerFacts("delete")
        BY <1>4, ProceedFacts DEF DeleteMessages, keepsBff, TypeData, Labels, At
    <2> QED
        BY <1>4, <2>1, OtherSteps DEF DeleteMessages, keepsBff, TypeData
<1>5. CASE DeleteRuns
    <2>1. HandlerFacts("delete")
        BY <1>5, ProceedFacts DEF DeleteRuns, keepsBff, TypeData, Labels, At
    <2> QED
        BY <1>5, <2>1, OtherSteps DEF DeleteRuns, keepsBff, TypeData
<1>6. CASE DeleteConversation
    <2>1. HandlerFacts("delete")
        BY <1>6, ReplyFacts DEF DeleteConversation, keepsBff, At
    <2> QED
        BY <1>6, <2>1, OtherSteps
           DEF DeleteConversation, keepsBff, TypeData, NoConversation, Conversations
<1> QED
    BY <1>1, <1>2, <1>3, <1>4, <1>5, <1>6

-----------------------------------------------------------------------------

LEMMA AskSteps ==
    ASSUME Inv, NEW what \in OwnerCalls, Ask(what)
    PROVE  Inv'
<1>1. TypeControl /\ TypeData
    BY TypeParts DEF Inv
<1>2. <<"owner", what>> \in CallsOf(what) /\ what \in Subjects
    BY SubjectsOfOps DEF CallsOf, Calls
<1>3. DOMAIN inbox' = Subjects /\ \A s \in Subjects : inbox'[s] \in Seq(CallsOf(s))
    BY <1>1, <1>2 DEF Ask, TypeControl
<1>4. TypeControl' /\ TypeData'
    BY <1>1, <1>3 DEF Ask, TypeControl, TypeData, At, CallsOf, bff, store
<1> QED
    BY <1>4, TypePartsNext DEF Ask, store, Inv, AtMostOneActive, PutIsFree, ActiveRuns, At

LEMMA FaultySteps ==
    ASSUME Inv, Faulty
    PROVE  Inv'
<1>0. TypeControl /\ TypeData
    BY TypeParts DEF Inv
<1>1. faults' \in 0..MaxDisturbed /\ UNCHANGED <<store, input, parts, aborted, emitted, asked>>
    <2>1. Fault /\ UNCHANGED <<store, input, parts, aborted, emitted, asked>>
        BY DEF Faulty, CallTimesOut, StoreFails, ControlPlaneRestarts, BffRestarts,
               keepsBff, owner
    <2>2. faults' = faults + 1 /\ faults + Cardinality(asked) < MaxDisturbed
        BY <2>1 DEF Fault, MayDisturb
    <2>3. Cardinality(asked) \in Nat
        <3>1. IsFiniteSet({"archive", "delete"})
            <4>1. IsFiniteSet({"archive"}) /\ IsFiniteSet({"delete"})
                BY FS_Singleton
            <4>2. {"archive", "delete"} = {"archive"} \cup {"delete"}
                OBVIOUS
            <4> QED
                BY <4>1, <4>2, FS_Union
        <3>2. IsFiniteSet(asked)
            BY <1>0, <3>1, OwnerAssumption, FS_Subset DEF TypeData
        <3> QED
            BY <3>2, FS_CardinalityType
    <2> QED
        BY <1>0, <2>1, <2>2, <2>3, DisturbedAssumption DEF TypeData
<1>2. TypeData'
    BY <1>0, <1>1 DEF TypeData, store
<1>3. TypeControl' /\ (UNCHANGED handler \/ handler'["create"].pc = "idle"
                       \/ handler'["create"] = handler["create"])
    <2>1. ASSUME NEW q \in Requests, CallTimesOut(q)
          PROVE  TypeControl' /\ UNCHANGED handler
        BY <1>0, <2>1 DEF CallTimesOut, TypeControl, keepsBff, control, owner, At, CallsOf
    <2>2. ASSUME NEW s \in Subjects, StoreFails(s)
          PROVE  TypeControl' /\ (UNCHANGED handler \/ handler'["create"].pc = "idle"
                                  \/ handler'["create"] = handler["create"])
        BY <1>0, <2>2, RefuseFacts, ReplyFacts
           DEF StoreFails, keepsBff, HandlerFacts, Subjects
    <2>3. ASSUME ControlPlaneRestarts
          PROVE  TypeControl' /\ handler'["create"].pc = "idle"
        <3>1. Idle \in [pc: Labels, call: Calls \cup {NoCall}, copy: Conversations]
            BY DEF Idle, Labels, Conversations, NoConversation
        <3>2. \A s \in Subjects : handler'[s] = Idle /\ inbox'[s] = <<>>
            BY <2>3 DEF ControlPlaneRestarts
        <3>3. Idle.pc = "idle" /\ "create" \in Subjects
            BY DEF Idle, Subjects
        <3> QED
            BY <1>0, <2>3, <3>1, <3>2, <3>3
               DEF ControlPlaneRestarts, TypeControl, keepsBff, owner, At, CallsOf
    <2>4. ASSUME BffRestarts
          PROVE  TypeControl' /\ UNCHANGED handler
        BY <1>0, <2>4 DEF BffRestarts, TypeControl, control, owner, At, CallsOf
    <2> QED
        BY <2>1, <2>2, <2>3, <2>4 DEF Faulty
<1> QED
    BY <1>1, <1>2, <1>3, TypePartsNext
       DEF store, Inv, AtMostOneActive, PutIsFree, ActiveRuns, At

LEMMA Initially == Init => Inv
<1> SUFFICES ASSUME Init PROVE Inv
    OBVIOUS
<1>1. Idle \in [pc: Labels, call: Calls \cup {NoCall}, copy: Conversations]
    BY DEF Idle, Labels, Conversations, NoConversation
<1>2. Idle.pc = "idle" /\ "create" \in Subjects
    BY DEF Idle, Subjects
<1>3. TypeControl
    BY <1>1, <1>2 DEF Init, TypeControl, At
<1>4. messages \in Seq([request: Requests \cup {"owner"}, kind: Appends,
                        text: Texts \cup {FirstText}])
    BY DEF Init, Appends
<1>5. input \in [Requests -> [key: Keys, text: Texts, append: BOOLEAN]]
    BY DEF Init
<1>6. TypeData
    BY <1>4, <1>5, DisturbedAssumption DEF Init, TypeData, Conversations
<1>7. ActiveRuns = {}
    BY DEF Init, ActiveRuns
<1> QED
    BY <1>3, <1>6, <1>7, TypeParts DEF Inv, AtMostOneActive, PutIsFree

LEMMA InvStep == Inv /\ [Next]_vars => Inv'
<1> SUFFICES ASSUME Inv, [Next]_vars PROVE Inv'
    OBVIOUS
<1>1. ASSUME NEW q \in Requests, RequestStep(q) \/ Abort(q)
      PROVE  Inv'
    BY <1>1, RequestSteps DEF Inv, AtMostOneActive, PutIsFree, ActiveRuns, At
<1>2. ASSUME NEW what \in OwnerCalls, Ask(what)
      PROVE  Inv'
    BY <1>2, AskSteps
<1>3. CASE HandlerStep
    BY <1>3, CreateSteps, AppendSteps, FinalizeSteps, OwnerSteps DEF HandlerStep
<1>4. CASE Faulty
    BY <1>4, FaultySteps
<1>5. CASE UNCHANGED vars
    <2>1. TypeOK'
        BY <1>5 DEF Inv, TypeOK, vars, store, bff, control, owner, At, CallsOf
    <2> QED
        BY <1>5, <2>1
           DEF Inv, vars, store, control, AtMostOneActive, PutIsFree, ActiveRuns, At
<1> QED
    BY <1>1, <1>2, <1>3, <1>4, <1>5 DEF Next

\* The inductive invariant: a run is created in a step that follows its check,
\* and in between nothing starts a run.
THEOREM InvariantHolds == Spec => []Inv
    BY Initially, InvStep, PTL DEF Spec

\* Conversations, runs, messages, calls and handlers stay in their domains.
THEOREM TypeCorrect == Spec => []TypeOK
<1>1. Inv => TypeOK
    BY DEF Inv
<1> QED
    BY InvariantHolds, <1>1, PTL

\* A conversation never has two active runs, whatever requests are made at the
\* same time and whatever fails.
THEOREM OneActiveRunAlways == Spec => []OneActiveRun
<1>1. Inv => OneActiveRun
    <2> SUFFICES ASSUME AtMostOneActive PROVE OneActiveRun
        BY DEF Inv
    <2>1. CASE ActiveRuns = {}
        BY <2>1, FS_EmptySet DEF OneActiveRun
    <2>2. CASE ActiveRuns # {}
        <3>1. PICK q \in ActiveRuns : ActiveRuns = {q}
            BY <2>2 DEF AtMostOneActive
        <3> QED
            BY <3>1, FS_Singleton DEF OneActiveRun
    <2> QED
        BY <2>1, <2>2
<1> QED
    BY InvariantHolds, <1>1, PTL

-----------------------------------------------------------------------------
(* The order of a run's ends *)

\* The calls of a subject that have not yet put a run or a message: those in its inbox,
\* after the one its handler checks or is about to put.
Unput == {"check", "putRun", "readRun", "putMessage"}
Pending(s) == handler[s].pc \in Unput
Line(s) == IF Pending(s) THEN <<handler[s].call>> \o inbox[s] ELSE inbox[s]

Creates == Line("create")
Ends == Line("finalize")

Unsuccessful == {"failed", "cancelled"}
BeforeEnd == {"idle", "create", "user", "starting", "streaming", "answer"}
BeforeCatch == {"completed", "cancelNote", "errorNote"}

\* A request has one create call; while it waits there is no run to end.
CreatedOnce ==
  /\ \A i, j \in DOMAIN Creates :
       Creates[i] = Creates[j] => i = j
  /\ \A i \in DOMAIN Creates : LET q == Creates[i][1] IN
       /\ run[q] = "none"
       /\ pc[q] \in {"create", "over"}
       /\ pc[q] = "create" => reply[q] # "ok"
       /\ \A j \in DOMAIN Ends : Ends[j][1] # q
  /\ At("create", "putConversation") =>
       /\ pc[Caller("create")] # "idle"
       /\ \A i \in DOMAIN Creates : Creates[i] # handler["create"].call

\* What may wait for the subject and be stored, by the place the request is at.
EndsOfPlace ==
  \A q \in Requests :
    /\ pc[q] = "idle" => run[q] = "none"
    /\ pc[q] \in BeforeEnd =>
         /\ run[q] \in {"none", "streaming"}
         /\ \A j \in DOMAIN Ends : Ends[j][1] # q
    /\ pc[q] \in BeforeCatch =>
         /\ run[q] \notin Unsuccessful
         /\ \A j \in DOMAIN Ends :
              Ends[j][1] = q => Ends[j][2] = "completed"
    /\ pc[q] \in Unsuccessful =>
         /\ run[q] \in {"none", "streaming", "completed", pc[q]}
         /\ \A j \in DOMAIN Ends :
              Ends[j][1] = q => Ends[j][2] \in {"completed", pc[q]}

\* An unsuccessful end is the last one of its run.
UnsuccessfulIsLast ==
  /\ \A i, j \in DOMAIN Ends :
       /\ i < j
       /\ Ends[i][1] = Ends[j][1]
       /\ Ends[i][2] \in Unsuccessful
       => Ends[j][2] = Ends[i][2]
  /\ \A j \in DOMAIN Ends :
       run[Ends[j][1]] \in Unsuccessful =>
         Ends[j][2] = run[Ends[j][1]]

EndsInv == CreatedOnce /\ EndsOfPlace /\ UnsuccessfulIsLast

LEMMA ConsFacts ==
    ASSUME NEW S, NEW x \in S, NEW s \in Seq(S)
    PROVE  /\ <<x>> \o s \in Seq(S)
           /\ Len(<<x>> \o s) = Len(s) + 1
           /\ (<<x>> \o s)[1] = x
           /\ \A i \in 1 .. Len(s) : (<<x>> \o s)[i + 1] = s[i]
<1>1. <<x>> \in Seq(S) /\ Len(<<x>>) = 1 /\ <<x>>[1] = x
    OBVIOUS
<1> QED
    BY <1>1

LEMMA QueueRest ==
    ASSUME NEW S, NEW s \in Seq(S), s # <<>>
    PROVE  /\ Len(s) \in Nat /\ Len(s) >= 1
           /\ Len(RemoveAt(s, 1)) = Len(s) - 1
           /\ \A i \in 1 .. Len(s) - 1 : RemoveAt(s, 1)[i] = s[i + 1]
<1>1. Len(s) \in Nat /\ Len(s) >= 1
    OBVIOUS
<1> DEFINE rest == SubSeq(s, 2, Len(s))
<1>2. rest \in Seq(S) /\ Len(rest) = Len(s) - 1 /\ \A i \in 1 .. Len(s) - 1 : rest[i] = s[i + 1]
    <2>1. rest = [i \in 1 .. Len(s) - 1 |-> s[i + 1]]
        BY <1>1
    <2>2. \A i \in 1 .. Len(s) - 1 : s[i + 1] \in S
        BY <1>1
    <2>3. Len(s) - 1 \in Nat
        BY <1>1
    <2> HIDE DEF rest
    <2> QED
        BY <2>1, <2>2, <2>3
<1>3. SubSeq(s, 1, 1 - 1) = <<>> /\ SubSeq(s, 1 + 1, Len(s)) = rest
    BY <1>1
<1> HIDE DEF rest
<1>4. RemoveAt(s, 1) = rest
    BY <1>2, <1>3 DEF RemoveAt
<1> QED
    BY <1>1, <1>2, <1>4

LEMMA LineFacts ==
    ASSUME TypeControl, NEW s \in Subjects
    PROVE  /\ Line(s) \in Seq(CallsOf(s))
           /\ ~Pending(s) => Line(s) = inbox[s]
           /\ Pending(s) =>
                /\ Len(Line(s)) = Len(inbox[s]) + 1
                /\ Line(s)[1] = handler[s].call
                /\ \A i \in 1 .. Len(inbox[s]) : Line(s)[i + 1] = inbox[s][i]
<1>1. inbox[s] \in Seq(CallsOf(s)) /\ (Pending(s) => handler[s].call \in CallsOf(s))
    BY DEF TypeControl, Pending, Unput, At
<1> QED
    BY <1>1, ConsFacts DEF Line

\* What is left of a line of calls when some of the oldest are gone.
Suffix(t, s) ==
  \E k \in 0 .. Len(s) :
    /\ DOMAIN t = 1 .. Len(s) - k
    /\ \A i \in DOMAIN t : t[i] = s[i + k]

LEMMA LineShrinks ==
    ASSUME TypeControl, TypeControl', NEW s \in Subjects,
           \/ /\ inbox'[s] = inbox[s]
              /\ Pending(s)' => Pending(s) /\ handler'[s].call = handler[s].call
           \/ Takes(s) /\ (Pending(s)' => handler'[s].call = Oldest(s))
           \/ inbox'[s] = <<>> /\ ~Pending(s)'
    PROVE  Suffix(Line(s)', Line(s))
<1>1. /\ Line(s) \in Seq(CallsOf(s)) /\ Len(Line(s)) \in Nat
      /\ inbox[s] \in Seq(CallsOf(s)) /\ Len(inbox[s]) \in Nat
      /\ ~Pending(s) => Line(s) = inbox[s]
      /\ Pending(s) =>
           /\ Len(Line(s)) = Len(inbox[s]) + 1
           /\ Line(s)[1] = handler[s].call
           /\ \A i \in 1 .. Len(inbox[s]) : Line(s)[i + 1] = inbox[s][i]
    BY LineFacts DEF TypeControl
<1>2. inbox'[s] \in Seq(CallsOf(s)) /\ (Pending(s)' => handler'[s].call \in CallsOf(s))
    BY DEF TypeControl, Pending, Unput, At, CallsOf
<1>3. /\ Line(s)' \in Seq(CallsOf(s)) /\ DOMAIN Line(s)' = 1 .. Len(Line(s)')
      /\ ~Pending(s)' => Line(s)' = inbox'[s]
      /\ Pending(s)' =>
           /\ Len(Line(s)') = Len(inbox'[s]) + 1
           /\ Line(s)'[1] = handler'[s].call
           /\ \A i \in 1 .. Len(inbox'[s]) : Line(s)'[i + 1] = inbox'[s][i]
    <2>1. Line(s)' = IF Pending(s)' THEN <<handler'[s].call>> \o inbox'[s] ELSE inbox'[s]
        BY DEF Line
    <2> QED
        BY <1>2, <2>1, ConsFacts
<1> DEFINE Gone(k) == /\ k \in 0 .. Len(Line(s)) /\ DOMAIN Line(s)' = 1 .. Len(Line(s)) - k
                      /\ \A i \in DOMAIN Line(s)' : Line(s)'[i] = Line(s)[i + k]
<1>4. CASE /\ inbox'[s] = inbox[s]
           /\ Pending(s)' => Pending(s) /\ handler'[s].call = handler[s].call
    <2>1. CASE Pending(s)' \/ ~Pending(s)
        <3>1. Len(Line(s)') = Len(Line(s)) /\ \A i \in 1 .. Len(Line(s)) : Line(s)'[i] = Line(s)[i]
            <4>1. CASE ~Pending(s)
                BY <1>1, <1>3, <1>4, <4>1
            <4>2. CASE Pending(s)
                <5>1. Len(Line(s)') = Len(Line(s)) /\ Line(s)'[1] = Line(s)[1]
                    BY <1>1, <1>3, <1>4, <2>1, <4>2
                <5>2. ASSUME NEW i \in 1 .. Len(Line(s)), i # 1 PROVE Line(s)'[i] = Line(s)[i]
                    <6>1. i - 1 \in 1 .. Len(inbox[s]) /\ (i - 1) + 1 = i
                        BY <1>1, <4>2, <5>2
                    <6> QED
                        BY <1>1, <1>3, <1>4, <2>1, <4>2, <6>1
                <5> QED
                    BY <5>1, <5>2
            <4> QED
                BY <4>1, <4>2
        <3>2. Gone(0)
            BY <1>1, <3>1
        <3> QED
            BY <3>2 DEF Suffix
    <2>2. CASE Pending(s) /\ ~Pending(s)'
        <3>1. DOMAIN Line(s)' = 1 .. Len(inbox[s]) /\ Len(inbox[s]) = Len(Line(s)) - 1
            <4>1. Line(s)' = inbox[s]
                BY <1>3, <1>4, <2>2
            <4>2. DOMAIN inbox[s] = 1 .. Len(inbox[s])
                BY <1>1
            <4>3. Len(Line(s)) = Len(inbox[s]) + 1
                BY <1>1, <2>2
            <4> QED
                BY <1>1, <4>1, <4>2, <4>3
        <3>2. \A i \in DOMAIN Line(s)' : Line(s)'[i] = Line(s)[i + 1]
            BY <1>1, <1>3, <1>4, <2>2, <3>1
        <3>3. Gone(1)
            BY <1>1, <3>1, <3>2
        <3> QED
            BY <3>3 DEF Suffix
    <2> QED
        BY <2>1, <2>2
<1>5. CASE Takes(s) /\ (Pending(s)' => handler'[s].call = Oldest(s))
    <2>1. /\ ~Pending(s) /\ inbox[s] # <<>> /\ Oldest(s) = inbox[s][1]
          /\ inbox'[s] = RemoveAt(inbox[s], 1)
        BY <1>5 DEF Takes, Pending, Unput, At, FirstInLine, Oldest, TypeControl
    <2>2. /\ Len(inbox[s]) >= 1 /\ Len(inbox'[s]) = Len(inbox[s]) - 1
          /\ \A i \in 1 .. Len(inbox[s]) - 1 : inbox'[s][i] = inbox[s][i + 1]
        BY <1>1, <2>1, QueueRest
    <2>3. CASE Pending(s)'
        <3>1. Len(Line(s)') = Len(Line(s)) /\ Line(s)'[1] = Line(s)[1]
            BY <1>1, <1>3, <1>5, <2>1, <2>2, <2>3
        <3>2. ASSUME NEW i \in 1 .. Len(Line(s)), i # 1 PROVE Line(s)'[i] = Line(s)[i]
            <4>1. i - 1 \in 1 .. Len(inbox'[s]) /\ (i - 1) + 1 = i
                BY <1>1, <2>1, <2>2, <3>2
            <4>2. Line(s)'[i] = inbox'[s][i - 1]
                BY <1>3, <2>3, <4>1
            <4>3. inbox'[s][i - 1] = inbox[s][i]
                BY <1>1, <2>2, <4>1
            <4> QED
                BY <1>1, <2>1, <4>2, <4>3
        <3>3. Gone(0)
            BY <1>1, <3>1, <3>2
        <3> QED
            BY <3>3 DEF Suffix
    <2>4. CASE ~Pending(s)'
        <3>1. Gone(1)
            BY <1>1, <1>3, <2>1, <2>2, <2>4
        <3> QED
            BY <3>1 DEF Suffix
    <2> QED
        BY <2>3, <2>4
<1>6. CASE inbox'[s] = <<>> /\ ~Pending(s)'
    <2>1. Gone(Len(Line(s)))
        BY <1>1, <1>3, <1>6
    <2> QED
        BY <2>1 DEF Suffix
<1> QED
    BY <1>4, <1>5, <1>6

LEMMA LinesTyped ==
    ASSUME TypeControl
    PROVE  /\ Creates \in Seq(Requests \X {"create"}) /\ Ends \in Seq(Requests \X Terminal)
           /\ Len(Creates) \in Nat /\ DOMAIN Creates = 1 .. Len(Creates)
           /\ Len(Ends) \in Nat /\ DOMAIN Ends = 1 .. Len(Ends)
           /\ \A i \in DOMAIN Creates : /\ Creates[i][1] \in Requests
                                        /\ Creates[i] = <<Creates[i][1], "create">>
           /\ \A j \in DOMAIN Ends : Ends[j][1] \in Requests /\ Ends[j][2] \in Terminal
<1>1. /\ "create" \in Subjects /\ "finalize" \in Subjects
      /\ \A what \in OwnerCalls : SubjectOf(what) = what /\ what \notin {"create", "finalize"}
    BY SubjectsOfOps, OwnerAssumption DEF Subjects
<1>2. CallsOf("create") \subseteq Requests \X {"create"}
    BY <1>1 DEF CallsOf, Calls, SubjectOf, Ops, Appends, Terminal
<1>3. CallsOf("finalize") \subseteq Requests \X Terminal
    BY <1>1 DEF CallsOf, Calls, SubjectOf, Ops, Appends, Terminal
<1>4. Creates \in Seq(CallsOf("create")) /\ Ends \in Seq(CallsOf("finalize"))
    BY <1>1, LineFacts DEF Creates, Ends
<1>5. Creates \in Seq(Requests \X {"create"}) /\ Ends \in Seq(Requests \X Terminal)
    BY <1>2, <1>3, <1>4
<1> QED
    BY <1>5

\* Calls that are handled, refused or lost, requests that are over, runs that are
\* deleted and calls that are given up leave the order as it is.
LEMMA Shrinking ==
    ASSUME TypeControl, EndsInv,
           Suffix(Creates', Creates), Suffix(Ends', Ends),
           \A q \in Requests : /\ pc'[q] = pc[q] \/ pc'[q] = "over"
                               /\ run'[q] = run[q] \/ run'[q] = "none"
                               /\ pc[q] = "create" /\ reply'[q] = "ok" => reply[q] = "ok",
           At("create", "putConversation")' =>
             At("create", "putConversation") /\ UNCHANGED handler["create"].call
    PROVE  EndsInv'
<1> USE LinesTyped
<1>1. PICK k \in 0 .. Len(Creates) :
        /\ DOMAIN Creates' = 1 .. Len(Creates) - k
        /\ \A i \in DOMAIN Creates' : Creates'[i] = Creates[i + k]
    BY DEF Suffix
<1>2. PICK n \in 0 .. Len(Ends) :
        /\ DOMAIN Ends' = 1 .. Len(Ends) - n
        /\ \A j \in DOMAIN Ends' : Ends'[j] = Ends[j + n]
    BY DEF Suffix
<1>3. \A i \in DOMAIN Creates' : i + k \in DOMAIN Creates /\ Creates'[i] = Creates[i + k]
    BY <1>1
<1>4. \A j \in DOMAIN Ends' : j + n \in DOMAIN Ends /\ Ends'[j] = Ends[j + n]
    BY <1>2
<1>5. CreatedOnce'
    <2>1. \A i, j \in DOMAIN Creates' : Creates'[i] = Creates'[j] => i = j
        BY <1>1, <1>3 DEF EndsInv, CreatedOnce
    <2>2. ASSUME NEW i \in DOMAIN Creates'
          PROVE  LET q == Creates'[i][1] IN
                 /\ run'[q] = "none"
                 /\ pc'[q] \in {"create", "over"}
                 /\ pc'[q] = "create" => reply'[q] # "ok"
                 /\ \A j \in DOMAIN Ends' : Ends'[j][1] # q
        <3>1. /\ Creates[i + k][1] \in Requests
              /\ run[Creates[i + k][1]] = "none"
              /\ pc[Creates[i + k][1]] \in {"create", "over"}
              /\ pc[Creates[i + k][1]] = "create" => reply[Creates[i + k][1]] # "ok"
              /\ \A j \in DOMAIN Ends : Ends[j][1] # Creates[i + k][1]
            BY <1>3 DEF EndsInv, CreatedOnce
        <3> QED
            BY <1>3, <1>4, <3>1
    <2>3. At("create", "putConversation")' =>
            /\ pc'[Caller("create")'] # "idle"
            /\ \A i \in DOMAIN Creates' : Creates'[i] # handler'["create"].call
        <3> SUFFICES ASSUME At("create", "putConversation")'
                     PROVE  /\ pc'[Caller("create")'] # "idle"
                            /\ \A i \in DOMAIN Creates' : Creates'[i] # handler'["create"].call
            OBVIOUS
        <3>1. /\ Caller("create")' = Caller("create") /\ Caller("create") \in Requests
              /\ handler'["create"].call = handler["create"].call
            BY CallerTyped DEF At, Caller
        <3> QED
            BY <1>3, <3>1 DEF EndsInv, CreatedOnce
    <2> QED
        BY <2>1, <2>2, <2>3 DEF CreatedOnce, Creates, Ends, Line, Pending, Unput, Caller
<1>6. EndsOfPlace'
    <2> SUFFICES ASSUME NEW q \in Requests
                 PROVE  /\ pc'[q] = "idle" => run'[q] = "none"
                        /\ pc'[q] \in BeforeEnd =>
                             /\ run'[q] \in {"none", "streaming"}
                             /\ \A j \in DOMAIN Ends' : Ends'[j][1] # q
                        /\ pc'[q] \in BeforeCatch =>
                             /\ run'[q] \notin Unsuccessful
                             /\ \A j \in DOMAIN Ends' : Ends'[j][1] = q => Ends'[j][2] = "completed"
                        /\ pc'[q] \in Unsuccessful =>
                             /\ run'[q] \in {"none", "streaming", "completed", pc'[q]}
                             /\ \A j \in DOMAIN Ends' :
                                  Ends'[j][1] = q => Ends'[j][2] \in {"completed", pc'[q]}
        BY DEF EndsOfPlace
    <2>1. CASE pc'[q] = "over"
        BY <2>1 DEF BeforeEnd, BeforeCatch, Unsuccessful
    <2>2. CASE pc'[q] = pc[q]
        BY <1>4, <2>2 DEF EndsInv, EndsOfPlace, Unsuccessful
    <2> QED
        BY <2>1, <2>2
<1>7. UnsuccessfulIsLast'
    <2>1. \A i, j \in DOMAIN Ends' :
            i < j /\ Ends'[i][1] = Ends'[j][1] /\ Ends'[i][2] \in Unsuccessful
            => Ends'[j][2] = Ends'[i][2]
        <3> SUFFICES ASSUME NEW i \in DOMAIN Ends', NEW j \in DOMAIN Ends', i < j,
                            Ends'[i][1] = Ends'[j][1], Ends'[i][2] \in Unsuccessful
                     PROVE  Ends'[j][2] = Ends'[i][2]
            OBVIOUS
        <3>1. i + n < j + n
            BY <1>2
        <3> QED
            BY <1>4, <3>1 DEF EndsInv, UnsuccessfulIsLast
    <2>2. ASSUME NEW j \in DOMAIN Ends', run'[Ends'[j][1]] \in Unsuccessful
          PROVE  Ends'[j][2] = run'[Ends'[j][1]]
        <3>1. j + n \in DOMAIN Ends /\ Ends'[j] = Ends[j + n] /\ Ends[j + n][1] \in Requests
            BY <1>4
        <3>2. run'[Ends[j + n][1]] = run[Ends[j + n][1]]
            BY <2>2, <3>1 DEF Unsuccessful
        <3> QED
            BY <2>2, <3>1, <3>2 DEF EndsInv, UnsuccessfulIsLast
    <2> QED
        BY <2>1, <2>2 DEF UnsuccessfulIsLast, Unsuccessful
<1> QED
    BY <1>5, <1>6, <1>7 DEF EndsInv

\* A call joins the end of its line.
LEMMA LineGrows ==
    ASSUME TypeControl, NEW s \in Subjects, NEW call \in CallsOf(s),
           inbox'[s] = Append(inbox[s], call), handler'[s] = handler[s]
    PROVE  /\ Len(Line(s)') = Len(Line(s)) + 1 /\ DOMAIN Line(s)' = 1 .. Len(Line(s)) + 1
           /\ \A i \in 1 .. Len(Line(s)) : Line(s)'[i] = Line(s)[i]
           /\ Line(s)'[Len(Line(s)) + 1] = call
<1>1. /\ inbox[s] \in Seq(CallsOf(s)) /\ Line(s) \in Seq(CallsOf(s))
      /\ Pending(s) => handler[s].call \in CallsOf(s)
    BY LineFacts DEF TypeControl, Pending, Unput, At
<1>2. Line(s)' = IF Pending(s) THEN <<handler[s].call>> \o Append(inbox[s], call)
                               ELSE Append(inbox[s], call)
    BY DEF Line, Pending, Unput
<1>3. CASE Pending(s)
    <2> DEFINE x == handler[s].call
    <2>1. Line(s) = <<x>> \o inbox[s] /\ Line(s)' = <<x>> \o Append(inbox[s], call) /\ x \in CallsOf(s)
        BY <1>1, <1>2, <1>3 DEF Line
    <2> HIDE DEF x
    <2>2. <<x>> \o Append(inbox[s], call) = Append(<<x>> \o inbox[s], call)
        BY <1>1, <2>1
    <2> QED
        BY <1>1, <2>1, <2>2
<1>4. CASE ~Pending(s)
    BY <1>1, <1>2, <1>4 DEF Line
<1> QED
    BY <1>3, <1>4

LEMMA CallsOfLines ==
    ASSUME NEW q \in Requests
    PROVE  /\ <<q, "create">> \in CallsOf("create")
           /\ \A op \in Terminal : <<q, op>> \in CallsOf("finalize")
           /\ "create" \in Subjects /\ "finalize" \in Subjects
    BY DEF CallsOf, Calls, SubjectOf, Subjects, Ops, Appends, Terminal

\* The lines stand still while a request goes on between its calls.
LEMMA LinesKept ==
    ASSUME UNCHANGED handler, inbox'["create"] = inbox["create"],
           inbox'["finalize"] = inbox["finalize"]
    PROVE  Creates' = Creates /\ Ends' = Ends
    BY DEF Creates, Ends, Line, Pending, Unput

LEMMA Advance ==
    ASSUME TypeControl, EndsInv, NEW q \in Requests,
           UNCHANGED <<run, handler, Creates, Ends>>,
           pc[q] \in (BeforeEnd \cup BeforeCatch) \ {"idle"},
           pc[q] = "create" => reply[q] = "ok",
           NEW at, pc' = [pc EXCEPT ![q] = at],
           at \in BeforeCatch \/ (pc[q] \in BeforeEnd /\ at \in BeforeEnd \ {"idle", "create"}),
           reply' = [reply EXCEPT ![q] = "none"]
    PROVE  EndsInv'
<1> USE LinesTyped
<1>1. /\ \A r \in Requests : r # q => pc'[r] = pc[r] /\ reply'[r] = reply[r]
      /\ pc'[q] = at
    BY DEF TypeControl
<1>2. CreatedOnce'
    <2>1. \A i \in DOMAIN Creates : Creates[i][1] # q
        BY DEF EndsInv, CreatedOnce, BeforeEnd, BeforeCatch
    <2>2. At("create", "putConversation") => Caller("create") \in Requests
        BY CallerTyped DEF At
    <2> QED
        BY <1>1, <2>1, <2>2 DEF EndsInv, CreatedOnce, At, Caller, BeforeEnd, BeforeCatch
<1>3. EndsOfPlace'
    <2>1. ASSUME pc[q] \in BeforeEnd
          PROVE  run[q] \in {"none", "streaming"} /\ \A j \in DOMAIN Ends : Ends[j][1] # q
        BY <2>1 DEF EndsInv, EndsOfPlace
    <2>2. ASSUME pc[q] \in BeforeCatch
          PROVE  /\ run[q] \notin Unsuccessful
                 /\ \A j \in DOMAIN Ends : Ends[j][1] = q => Ends[j][2] = "completed"
        BY <2>2 DEF EndsInv, EndsOfPlace
    <2> QED
        BY <1>1, <2>1, <2>2 DEF EndsInv, EndsOfPlace, BeforeEnd, BeforeCatch, Unsuccessful
<1>4. UnsuccessfulIsLast'
    BY DEF EndsInv, UnsuccessfulIsLast
<1> QED
    BY <1>2, <1>3, <1>4 DEF EndsInv

LEMMA Creating ==
    ASSUME TypeControl, EndsInv, NEW q \in Requests, pc[q] = "idle", Call(q, "create"),
           UNCHANGED <<run, handler>>
    PROVE  EndsInv'
<1> USE LinesTyped
<1> DEFINE n == Len(Creates)
<1>1. /\ inbox'["create"] = Append(inbox["create"], <<q, "create">>)
      /\ inbox'["finalize"] = inbox["finalize"]
      /\ pc' = [pc EXCEPT ![q] = "create"] /\ reply' = [reply EXCEPT ![q] = "none"]
    BY CallsOfLines DEF Call, SubjectOf, Appends, Terminal, TypeControl
<1>2. Ends' = Ends
    BY <1>1 DEF Ends, Line, Pending, Unput
<1>3. /\ DOMAIN Creates' = 1 .. n + 1
      /\ \A i \in 1 .. n : Creates'[i] = Creates[i]
      /\ Creates'[n + 1] = <<q, "create">>
    BY <1>1, CallsOfLines, LineGrows DEF Creates
<1>4. /\ \A r \in Requests : r # q => pc'[r] = pc[r] /\ reply'[r] = reply[r]
      /\ pc'[q] = "create" /\ reply'[q] = "none"
    BY <1>1 DEF TypeControl
<1>5. /\ \A i \in 1 .. n : Creates[i][1] # q /\ Creates[i] # <<q, "create">>
      /\ run[q] = "none" /\ \A j \in DOMAIN Ends : Ends[j][1] # q
    <2>1. ASSUME NEW i \in 1 .. n PROVE Creates[i][1] # q
        BY DEF EndsInv, CreatedOnce
    <2>2. \A i \in 1 .. n : Creates[i] # <<q, "create">>
        BY <2>1
    <2>3. run[q] = "none" /\ \A j \in DOMAIN Ends : Ends[j][1] # q
        BY DEF EndsInv, EndsOfPlace, BeforeEnd
    <2> QED
        BY <2>1, <2>2, <2>3
<1>6. CreatedOnce'
    <2>1. \A i, j \in DOMAIN Creates' : Creates'[i] = Creates'[j] => i = j
        BY <1>3, <1>5 DEF EndsInv, CreatedOnce
    <2>2. ASSUME NEW i \in DOMAIN Creates'
          PROVE  LET r == Creates'[i][1] IN
                 /\ run[r] = "none"
                 /\ pc'[r] \in {"create", "over"}
                 /\ pc'[r] = "create" => reply'[r] # "ok"
                 /\ \A j \in DOMAIN Ends : Ends[j][1] # r
        <3>1. CASE i = n + 1
            BY <1>3, <1>4, <1>5, <3>1
        <3>2. CASE i \in 1 .. n
            BY <1>3, <1>4, <1>5, <3>2 DEF EndsInv, CreatedOnce
        <3> QED
            BY <1>3, <3>1, <3>2
    <2>3. At("create", "putConversation") =>
            /\ pc'[Caller("create")] # "idle"
            /\ \A i \in DOMAIN Creates' : Creates'[i] # handler["create"].call
        <3> SUFFICES ASSUME At("create", "putConversation")
                     PROVE  /\ pc'[Caller("create")] # "idle"
                            /\ \A i \in DOMAIN Creates' : Creates'[i] # handler["create"].call
            OBVIOUS
        <3>1. /\ Caller("create") \in Requests /\ pc[Caller("create")] # "idle"
              /\ \A i \in 1 .. n : Creates[i] # handler["create"].call
            BY CallerTyped DEF At, EndsInv, CreatedOnce
        <3>2. handler["create"].call # <<q, "create">>
            BY <3>1 DEF Caller
        <3> QED
            BY <1>3, <1>4, <3>1, <3>2
    <2> QED
        BY <1>2, <2>1, <2>2, <2>3 DEF CreatedOnce, At, Caller
<1>7. EndsOfPlace'
    BY <1>2, <1>4, <1>5 DEF EndsInv, EndsOfPlace, BeforeEnd, BeforeCatch, Unsuccessful
<1>8. UnsuccessfulIsLast'
    BY <1>2 DEF EndsInv, UnsuccessfulIsLast
<1> QED
    BY <1>6, <1>7, <1>8 DEF EndsInv

\* The request asks for an end: completed first, after it and for good a failed or
\* cancelled one.
LEMMA Ending ==
    ASSUME TypeControl, TypeData, EndsInv, NEW q \in Requests, NEW op \in Terminal, Call(q, op),
           UNCHANGED <<run, handler>>,
           \/ op = "completed" /\ pc[q] \in {"streaming", "answer"}
           \/ op \in Unsuccessful /\ pc[q] \in BeforeCatch
    PROVE  EndsInv'
<1> USE LinesTyped
<1> DEFINE n == Len(Ends)
<1>1. /\ inbox'["finalize"] = Append(inbox["finalize"], <<q, op>>)
      /\ inbox'["create"] = inbox["create"]
      /\ pc' = [pc EXCEPT ![q] = op] /\ reply' = [reply EXCEPT ![q] = "none"]
    BY CallsOfLines DEF Call, SubjectOf, Appends, Terminal, TypeControl
<1>2. Creates' = Creates
    BY <1>1 DEF Creates, Line, Pending, Unput
<1>3. /\ DOMAIN Ends' = 1 .. n + 1
      /\ \A i \in 1 .. n : Ends'[i] = Ends[i]
      /\ Ends'[n + 1] = <<q, op>>
    BY <1>1, CallsOfLines, LineGrows DEF Ends
<1>4. /\ \A r \in Requests : r # q => pc'[r] = pc[r] /\ reply'[r] = reply[r]
      /\ pc'[q] = op /\ reply'[q] = "none"
    BY <1>1 DEF TypeControl
<1>5. /\ \A i \in DOMAIN Creates : Creates[i][1] # q
      /\ run[q] \notin Unsuccessful
      /\ \A j \in 1 .. n : Ends[j][1] = q => op \in Unsuccessful /\ Ends[j][2] = "completed"
    <2>1. ASSUME NEW i \in DOMAIN Creates PROVE Creates[i][1] # q
        BY DEF EndsInv, CreatedOnce, BeforeCatch
    <2>2. CASE op = "completed" /\ pc[q] \in {"streaming", "answer"}
        BY <2>1, <2>2 DEF EndsInv, EndsOfPlace, BeforeEnd, Unsuccessful
    <2>3. CASE op \in Unsuccessful /\ pc[q] \in BeforeCatch
        BY <2>1, <2>3 DEF EndsInv, EndsOfPlace
    <2> QED
        BY <2>1, <2>2, <2>3
<1>6. CreatedOnce'
    <2>1. ASSUME NEW i \in DOMAIN Creates
          PROVE  LET r == Creates[i][1] IN
                 /\ run[r] = "none"
                 /\ pc'[r] \in {"create", "over"}
                 /\ pc'[r] = "create" => reply'[r] # "ok"
                 /\ \A j \in DOMAIN Ends' : Ends'[j][1] # r
        <3> DEFINE r == Creates[i][1]
        <3>1. r \in Requests /\ r # q
            BY <1>5
        <3>2. /\ run[r] = "none" /\ pc[r] \in {"create", "over"}
              /\ pc[r] = "create" => reply[r] # "ok"
              /\ \A j \in DOMAIN Ends : Ends[j][1] # r
            BY DEF EndsInv, CreatedOnce
        <3> HIDE DEF r
        <3>3. \A j \in 1 .. n + 1 : Ends'[j][1] # r
            BY <1>3, <3>1, <3>2
        <3> QED
            BY <1>3, <1>4, <3>1, <3>2, <3>3 DEF r
    <2>2. At("create", "putConversation") => pc'[Caller("create")] # "idle"
        <3>1. At("create", "putConversation") => Caller("create") \in Requests
            BY CallerTyped DEF At
        <3> QED
            BY <1>4, <3>1 DEF EndsInv, CreatedOnce, Terminal
    <2> QED
        BY <1>2, <2>1, <2>2 DEF EndsInv, CreatedOnce, At, Caller
<1>7. EndsOfPlace'
    <2> SUFFICES ASSUME NEW r \in Requests
                 PROVE  /\ pc'[r] = "idle" => run[r] = "none"
                        /\ pc'[r] \in BeforeEnd =>
                             /\ run[r] \in {"none", "streaming"}
                             /\ \A j \in DOMAIN Ends' : Ends'[j][1] # r
                        /\ pc'[r] \in BeforeCatch =>
                             /\ run[r] \notin Unsuccessful
                             /\ \A j \in DOMAIN Ends' : Ends'[j][1] = r => Ends'[j][2] = "completed"
                        /\ pc'[r] \in Unsuccessful =>
                             /\ run[r] \in {"none", "streaming", "completed", pc'[r]}
                             /\ \A j \in DOMAIN Ends' :
                                  Ends'[j][1] = r => Ends'[j][2] \in {"completed", pc'[r]}
        BY DEF EndsOfPlace
    <2>1. CASE r # q
        <3>1. pc'[r] = pc[r]
            BY <1>4, <2>1
        <3>2. \A j \in DOMAIN Ends' : Ends'[j][1] = r => j \in DOMAIN Ends /\ Ends'[j] = Ends[j]
            BY <1>3, <2>1
        <3> QED
            BY <3>1, <3>2 DEF EndsInv, EndsOfPlace
    <2>2. CASE r = q
        <3>1. run[q] \in {"none", "streaming", "completed"}
            BY <1>5 DEF TypeData, Terminal, Unsuccessful
        <3>2. \A j \in DOMAIN Ends' : Ends'[j][1] = q => Ends'[j][2] \in {"completed", op}
            BY <1>3, <1>5
        <3>3. op = "completed" => \A j \in DOMAIN Ends' : Ends'[j][1] = q => Ends'[j][2] = "completed"
            BY <3>2
        <3> QED
            BY <1>4, <2>2, <3>1, <3>2, <3>3 DEF BeforeEnd, BeforeCatch, Unsuccessful, Terminal
    <2> QED
        BY <2>1, <2>2
<1>8. UnsuccessfulIsLast'
    <2>1. ASSUME NEW i \in DOMAIN Ends', NEW j \in DOMAIN Ends', i < j,
                 Ends'[i][1] = Ends'[j][1], Ends'[i][2] \in Unsuccessful
          PROVE  Ends'[j][2] = Ends'[i][2]
        <3>1. i \in 1 .. n
            BY <1>3, <2>1
        <3>2. CASE j \in 1 .. n
            BY <1>3, <2>1, <3>1, <3>2 DEF EndsInv, UnsuccessfulIsLast
        <3>3. CASE j = n + 1
            <4>1. Ends[i][1] = q /\ Ends[i][2] \in Unsuccessful
                BY <1>3, <2>1, <3>1, <3>3
            <4> QED
                BY <1>5, <3>1, <4>1 DEF Unsuccessful
        <3> QED
            BY <1>3, <3>2, <3>3
    <2>2. ASSUME NEW j \in DOMAIN Ends', run[Ends'[j][1]] \in Unsuccessful
          PROVE  Ends'[j][2] = run[Ends'[j][1]]
        BY <1>3, <1>5, <2>2 DEF EndsInv, UnsuccessfulIsLast
    <2> QED
        BY <2>1, <2>2 DEF UnsuccessfulIsLast
<1> QED
    BY <1>6, <1>7, <1>8 DEF EndsInv

\* What a step of a request is to the order of its ends.
Moves(q) ==
  \/ Goto(q, "over")
  \/ pc[q] = "idle" /\ Call(q, "create")
  \/ /\ pc[q] \in BeforeEnd \ {"idle"}
     /\ pc[q] = "create" => reply[q] = "ok"
     /\ \E at \in {"user", "starting", "streaming", "answer"} : Call(q, at) \/ Goto(q, at)
  \/ /\ pc[q] \in {"starting", "streaming", "answer", "completed"}
     /\ \E at \in {"cancelNote", "errorNote"} : Call(q, at)
  \/ \E op \in Terminal :
       /\ \/ op = "completed" /\ pc[q] \in {"streaming", "answer"}
          \/ op \in Unsuccessful /\ pc[q] \in BeforeCatch
       /\ Call(q, op)

LEMMA RequestMoves ==
    ASSUME NEW q \in Requests, RequestStep(q)
    PROVE  Moves(q) /\ UNCHANGED <<run, handler>>
<1>1. CASE BeginRequest(q)
    BY <1>1 DEF BeginRequest, Moves, store
<1>2. CASE RunCreated(q) \/ UserAppended(q)
    BY <1>2 DEF RunCreated, UserAppended, Answered, Moves, store, BeforeEnd
<1>3. CASE EmitStarted(q) \/ HarnessEvent(q) \/ HarnessFails(q)
    <2>1. Catch(q) => \E at \in {"cancelNote", "errorNote"} : Call(q, at)
        BY DEF Catch
    <2> QED
        BY <1>3, <2>1 DEF EmitStarted, HarnessEvent, HarnessFails, Moves, store, BeforeEnd
<1>4. CASE HarnessEnds(q)
    BY <1>4 DEF HarnessEnds, Moves, store, BeforeEnd, Terminal
<1>5. CASE AnswerAppended(q) \/ RunCompleted(q)
    <2>1. Catch(q) => \E at \in {"cancelNote", "errorNote"} : Call(q, at)
        BY DEF Catch
    <2> QED
        BY <1>5, <2>1 DEF AnswerAppended, RunCompleted, Answered, Moves, store, Terminal
<1>6. CASE NoteAppended(q) \/ RunEnded(q)
    BY <1>6 DEF NoteAppended, RunEnded, Answered, Moves, store, Terminal, Unsuccessful, BeforeCatch
<1> QED
    BY <1>1, <1>2, <1>3, <1>4, <1>5, <1>6 DEF RequestStep

LEMMA SuffixOfItself ==
    ASSUME NEW S, NEW s \in Seq(S)
    PROVE  Suffix(s, s)
<1>1. 0 \in 0 .. Len(s) /\ DOMAIN s = 1 .. Len(s) - 0 /\ \A i \in DOMAIN s : s[i] = s[i + 0]
    OBVIOUS
<1> QED
    BY <1>1 DEF Suffix

LEMMA RequestEnds ==
    ASSUME TypeControl, TypeData, EndsInv, NEW q \in Requests, RequestStep(q)
    PROVE  EndsInv'
<1>0. Moves(q) /\ UNCHANGED <<run, handler>>
    BY RequestMoves
<1> USE LinesTyped
<1>1. CASE Goto(q, "over")
    <2>1. Creates' = Creates /\ Ends' = Ends
        BY <1>0, <1>1, LinesKept DEF Goto
    <2>2. Suffix(Creates', Creates) /\ Suffix(Ends', Ends)
        BY <2>1, SuffixOfItself
    <2>3. \A r \in Requests : /\ pc'[r] = pc[r] \/ pc'[r] = "over"
                              /\ reply'[r] \in {reply[r], "none"}
        BY <1>1 DEF Goto, TypeControl
    <2> QED
        BY <1>0, <2>1, <2>2, <2>3, Shrinking DEF At
<1>2. CASE pc[q] = "idle" /\ Call(q, "create")
    BY <1>0, <1>2, Creating
<1>3. ASSUME NEW at \in {"user", "starting", "streaming", "answer", "cancelNote", "errorNote"},
             Call(q, at) \/ Goto(q, at),
             \/ /\ pc[q] \in BeforeEnd \ {"idle"}
                /\ pc[q] = "create" => reply[q] = "ok"
                /\ at \in {"user", "starting", "streaming", "answer"}
             \/ /\ pc[q] \in {"starting", "streaming", "answer", "completed"}
                /\ at \in {"cancelNote", "errorNote"}
      PROVE  EndsInv'
    <2>1. /\ pc' = [pc EXCEPT ![q] = at] /\ reply' = [reply EXCEPT ![q] = "none"]
          /\ inbox'["create"] = inbox["create"] /\ inbox'["finalize"] = inbox["finalize"]
        <3>1. SubjectOf(at) # "create" /\ SubjectOf(at) # "finalize"
            BY <1>3 DEF SubjectOf, Appends, Terminal
        <3>2. CASE Goto(q, at)
            BY <3>2 DEF Goto
        <3>3. CASE Call(q, at)
            <4>1. "create" \in DOMAIN inbox /\ "finalize" \in DOMAIN inbox
                BY DEF TypeControl, Subjects
            <4> QED
                BY <3>1, <3>3, <4>1 DEF Call
        <3> QED
            BY <1>3, <3>2, <3>3
    <2>2. Creates' = Creates /\ Ends' = Ends
        BY <1>0, <2>1, LinesKept
    <2>3. /\ pc[q] \in (BeforeEnd \cup BeforeCatch) \ {"idle"}
          /\ pc[q] = "create" => reply[q] = "ok"
          /\ at \in BeforeCatch \/ (pc[q] \in BeforeEnd /\ at \in BeforeEnd \ {"idle", "create"})
        BY <1>3 DEF BeforeEnd, BeforeCatch
    <2> QED
        BY <1>0, <2>1, <2>2, <2>3, Advance
<1>4. ASSUME NEW op \in Terminal, Call(q, op),
             \/ op = "completed" /\ pc[q] \in {"streaming", "answer"}
             \/ op \in Unsuccessful /\ pc[q] \in BeforeCatch
      PROVE  EndsInv'
    BY <1>0, <1>4, Ending
<1> QED
    BY <1>0, <1>1, <1>2, <1>3, <1>4 DEF Moves

\* A statement of a handler that starts no run and puts no end, and answers no create
\* call with success.
LEMMA HandlerShrinks ==
    ASSUME TypeControl, TypeControl', EndsInv, NEW s \in Subjects, UNCHANGED pc,
           \A t \in Subjects \ {s} : inbox'[t] = inbox[t] /\ handler'[t] = handler[t],
           \/ /\ inbox'[s] = inbox[s]
              /\ Pending(s)' => Pending(s) /\ handler'[s].call = handler[s].call
           \/ Takes(s) /\ (Pending(s)' => handler'[s].call = Oldest(s))
           \/ inbox'[s] = <<>> /\ ~Pending(s)',
           \A q \in Requests : /\ run'[q] = run[q] \/ run'[q] = "none"
                               /\ pc[q] = "create" /\ reply'[q] = "ok" => reply[q] = "ok",
           s = "create" => ~At("create", "putConversation")'
    PROVE  EndsInv'
<1>1. "create" \in Subjects /\ "finalize" \in Subjects
    BY DEF Subjects
<1>2. ASSUME NEW t \in Subjects PROVE Suffix(Line(t)', Line(t))
    <2>1. CASE t = s
        BY <2>1, LineShrinks
    <2>2. CASE t # s
        BY <2>2, LineShrinks DEF Pending, Unput
    <2> QED
        BY <2>1, <2>2
<1>3. Suffix(Creates', Creates) /\ Suffix(Ends', Ends)
    BY <1>1, <1>2 DEF Creates, Ends
<1> QED
    BY <1>1, <1>3, Shrinking DEF At

\* No other reply than that of the create handler tells a request that its run is
\* created.
LEMMA ReplyKeepsCreate ==
    ASSUME TypeControl, NEW s \in Subjects, NEW call \in CallsOf(s), NEW outcome,
           ReplyTo(call, outcome), s = "create" => outcome = "error"
    PROVE  \A q \in Requests : pc[q] = "create" /\ reply'[q] = "ok" => reply[q] = "ok"
<1>1. /\ call[1] # "owner" => call[1] \in Requests
      /\ call[1] # "owner" /\ s # "create" => call[2] # "create"
    BY DEF CallsOf, Calls, SubjectOf, Appends, Terminal
<1> QED
    BY <1>1 DEF ReplyTo, TypeControl

\* A handler's statement that puts no run and answers no create call with success.
LEMMA StatementEnds ==
    ASSUME TypeControl, TypeControl', EndsInv, NEW s \in Subjects, UNCHANGED pc, NEW at, NEW outcome,
           \A q \in Requests : run'[q] = run[q] \/ run'[q] = "none",
           s = "create" => at # "putConversation" /\ outcome = "error",
           \/ Takes(s) /\ (Accept(s, at) \/ Refuse(s))
           \/ /\ ~At(s, "idle")
              /\ \/ Reply(s, outcome)
                 \/ /\ Proceed(s, at) \/ ProceedWithCopy(s, at)
                    /\ at \in Unput => Pending(s)
    PROVE  EndsInv'
<1>1. handler \in [Subjects -> [pc: Labels, call: Calls \cup {NoCall}, copy: Conversations]]
    BY DEF TypeControl
<1>2. DOMAIN inbox = Subjects
    BY DEF TypeControl
<1>3. CASE Takes(s) /\ Accept(s, at)
    <2>1. /\ \A t \in Subjects \ {s} : inbox'[t] = inbox[t] /\ handler'[t] = handler[t]
          /\ handler'[s].pc = at /\ handler'[s].call = Oldest(s) /\ UNCHANGED reply
        BY <1>1, <1>2, <1>3 DEF Takes, Accept
    <2> QED
        BY <1>3, <2>1, HandlerShrinks DEF At
<1>4. CASE Takes(s) /\ Refuse(s)
    <2>1. /\ \A t \in Subjects \ {s} : inbox'[t] = inbox[t] /\ handler'[t] = handler[t]
          /\ handler'[s].pc = "idle" /\ ~Pending(s)'
        BY <1>1, <1>2, <1>4 DEF Takes, Refuse, At, Pending, Unput
    <2>2. \A q \in Requests : pc[q] = "create" /\ reply'[q] = "ok" => reply[q] = "ok"
        BY <1>4, TakesTyped, ReplyKeepsCreate DEF Refuse
    <2> QED
        BY <1>4, <2>1, <2>2, HandlerShrinks DEF At
<1>5. CASE ~At(s, "idle") /\ Reply(s, outcome)
    <2>1. /\ UNCHANGED inbox /\ \A t \in Subjects \ {s} : handler'[t] = handler[t]
          /\ handler'[s].pc = "idle" /\ ~Pending(s)'
        BY <1>1, <1>5 DEF Reply, Idle, Pending, Unput
    <2>2. handler[s].call \in CallsOf(s)
        BY <1>5 DEF TypeControl
    <2>3. \A q \in Requests : pc[q] = "create" /\ reply'[q] = "ok" => reply[q] = "ok"
        BY <1>5, <2>2, ReplyKeepsCreate DEF Reply
    <2> QED
        BY <2>1, <2>3, HandlerShrinks DEF At
<1>6. CASE /\ Proceed(s, at) \/ ProceedWithCopy(s, at)
           /\ at \in Unput => Pending(s)
    <2>1. /\ UNCHANGED <<inbox, reply>> /\ \A t \in Subjects \ {s} : handler'[t] = handler[t]
          /\ handler'[s].pc = at /\ handler'[s].call = handler[s].call
        BY <1>1, <1>6 DEF Proceed, ProceedWithCopy
    <2>2. Pending(s)' => Pending(s)
        BY <1>6, <2>1 DEF Pending, Unput
    <2> QED
        BY <2>1, <2>2, HandlerShrinks DEF At
<1> QED
    BY <1>3, <1>4, <1>5, <1>6

\* The statements of all handlers but the two that put a run and the one that answers a
\* create call.
LEMMA PlainStatements ==
    ASSUME TypeControl, TypeControl', TypeData, EndsInv,
           \/ CreateReads \/ CreateChecks
           \/ AppendReads \/ AppendReadsRun \/ AppendPutsMessage \/ AppendPutsConversation
           \/ FinalizeReads \/ FinalizeReadsConversation \/ FinalizePutsConversation
           \/ ArchiveReads \/ ArchivePuts
           \/ DeleteReads \/ DeleteMessages \/ DeleteRuns \/ DeleteConversation
    PROVE  EndsInv'
<1>1. {"create", "append", "finalize", "archive", "delete"} = Subjects
    BY DEF Subjects
<1>2. CASE CreateReads
    BY <1>1, <1>2, StatementEnds DEF CreateReads, keepsBff, store
<1>3. CASE CreateChecks
    BY <1>1, <1>3, StatementEnds DEF CreateChecks, keepsBff, store, Pending, Unput, At
<1>4. CASE AppendReads
    BY <1>1, <1>4, StatementEnds DEF AppendReads, keepsBff, store
<1>5. CASE AppendReadsRun
    BY <1>1, <1>5, StatementEnds DEF AppendReadsRun, keepsBff, store, At, Pending, Unput
<1>6. CASE AppendPutsMessage \/ AppendPutsConversation
    BY <1>1, <1>6, StatementEnds DEF AppendPutsMessage, AppendPutsConversation, keepsBff, At, Unput
<1>7. CASE FinalizeReads
    BY <1>1, <1>7, StatementEnds DEF FinalizeReads, keepsBff, store
<1>8. CASE FinalizeReadsConversation
    BY <1>1, <1>8, StatementEnds DEF FinalizeReadsConversation, keepsBff, store, At, Unput
<1>13. CASE FinalizePutsConversation
    BY <1>1, <1>13, StatementEnds DEF FinalizePutsConversation, keepsBff, store, At, Unput
<1>9. CASE ArchiveReads \/ ArchivePuts
    BY <1>1, <1>9, StatementEnds DEF ArchiveReads, ArchivePuts, keepsBff, store, At
<1>10. CASE DeleteReads
    BY <1>1, <1>10, StatementEnds DEF DeleteReads, keepsBff, store
<1>11. CASE DeleteMessages \/ DeleteConversation
    BY <1>1, <1>11, StatementEnds DEF DeleteMessages, DeleteConversation, keepsBff, At, Unput
<1>12. CASE DeleteRuns
    <2>1. \A q \in Requests : run'[q] = "none"
        BY <1>12 DEF DeleteRuns
    <2> QED
        BY <1>1, <1>12, <2>1, StatementEnds DEF DeleteRuns, keepsBff, At, Unput
<1> QED
    BY <1>2, <1>3, <1>4, <1>5, <1>6, <1>7, <1>8, <1>9, <1>10, <1>11, <1>12, <1>13

\* The statement that puts takes its call off the line.
LEMMA PutPopsLine ==
    ASSUME TypeControl, TypeControl', NEW s \in {"create", "finalize"}, At(s, "putRun"),
           NEW at, at \notin Unput, Proceed(s, at)
    PROVE  /\ Len(Line(s)) >= 1 /\ Line(s)[1] = handler[s].call
           /\ DOMAIN Line(s)' = 1 .. Len(Line(s)) - 1
           /\ \A i \in DOMAIN Line(s)' : Line(s)'[i] = Line(s)[i + 1]
           /\ handler'[s].pc = at /\ handler'[s].call = handler[s].call
           /\ \A t \in Subjects \ {s} : Line(t)' = Line(t) /\ handler'[t] = handler[t]
<1>1. s \in Subjects /\ inbox[s] \in Seq(CallsOf(s)) /\ Pending(s)
    BY DEF Subjects, TypeControl, At, Pending, Unput
<1>2. /\ Len(Line(s)) = Len(inbox[s]) + 1 /\ Line(s)[1] = handler[s].call
      /\ \A i \in 1 .. Len(inbox[s]) : Line(s)[i + 1] = inbox[s][i]
    BY <1>1, LineFacts
<1>3. /\ handler'[s].pc = at /\ handler'[s].call = handler[s].call /\ UNCHANGED inbox
      /\ \A t \in Subjects \ {s} : handler'[t] = handler[t]
    BY <1>1 DEF Proceed, TypeControl
<1>4. Line(s)' = inbox[s]
    BY <1>3 DEF Line, Pending, Unput
<1>5. DOMAIN inbox[s] = 1 .. Len(inbox[s]) /\ Len(inbox[s]) \in Nat
    BY <1>1
<1>6. \A t \in Subjects \ {s} : Line(t)' = Line(t)
    BY <1>3 DEF Line, Pending, Unput
<1> QED
    BY <1>2, <1>3, <1>4, <1>5, <1>6

LEMMA CreatePutEnds ==
    ASSUME TypeControl, TypeControl', TypeData, EndsInv, CreatePutsRun
    PROVE  EndsInv'
<1> USE LinesTyped
<1> DEFINE q == Caller("create")
<1>1. /\ At("create", "putRun") /\ Proceed("create", "putConversation")
      /\ run' = [run EXCEPT ![q] = "streaming"] /\ UNCHANGED <<pc, reply>>
    BY DEF CreatePutsRun, keepsBff, Proceed
<1>2. /\ Len(Creates) >= 1 /\ Creates[1] = handler["create"].call
      /\ DOMAIN Creates' = 1 .. Len(Creates) - 1
      /\ \A i \in DOMAIN Creates' : Creates'[i] = Creates[i + 1]
      /\ handler'["create"].pc = "putConversation"
      /\ handler'["create"].call = handler["create"].call
      /\ Ends' = Ends
    <2>1. "finalize" \in Subjects \ {"create"}
        BY DEF Subjects
    <2> QED
        BY <1>1, <2>1, PutPopsLine DEF Creates, Ends, Unput
<1>3. 1 \in DOMAIN Creates /\ Creates[1] = <<q, "create">> /\ q \in Requests
    BY <1>2 DEF Caller
<1>4. pc[q] \in {"create", "over"} /\ \A j \in DOMAIN Ends : Ends[j][1] # q
    BY <1>3 DEF EndsInv, CreatedOnce
<1>5. \A i \in DOMAIN Creates' :
        /\ i + 1 \in DOMAIN Creates /\ Creates'[i] = Creates[i + 1]
        /\ Creates[i + 1] # Creates[1] /\ Creates[i + 1][1] # q
    <2>1. \A i \in DOMAIN Creates' : i + 1 \in DOMAIN Creates /\ i + 1 # 1
        BY <1>2
    <2>2. \A i \in DOMAIN Creates' : Creates[i + 1] # Creates[1]
        BY <1>3, <2>1 DEF EndsInv, CreatedOnce
    <2> QED
        BY <1>2, <1>3, <2>1, <2>2
<1>6. run'[q] = "streaming" /\ \A r \in Requests : r # q => run'[r] = run[r]
    BY <1>1, <1>3 DEF TypeData
<1> HIDE DEF q
<1>7. CreatedOnce'
    <2>1. \A i, j \in DOMAIN Creates' : Creates'[i] = Creates'[j] => i = j
        <3>1. \A i, j \in DOMAIN Creates' : Creates'[i] = Creates'[j] => i + 1 = j + 1
            BY <1>5 DEF EndsInv, CreatedOnce
        <3> QED
            BY <1>2, <3>1
    <2>2. ASSUME NEW i \in DOMAIN Creates'
          PROVE  LET r == Creates'[i][1] IN
                 /\ run'[r] = "none"
                 /\ pc[r] \in {"create", "over"}
                 /\ pc[r] = "create" => reply[r] # "ok"
                 /\ \A j \in DOMAIN Ends : Ends[j][1] # r
        <3> DEFINE r == Creates[i + 1][1]
        <3>1. r \in Requests /\ r # q /\ Creates'[i][1] = r
            BY <1>5
        <3>2. /\ run[r] = "none"
              /\ pc[r] \in {"create", "over"}
              /\ pc[r] = "create" => reply[r] # "ok"
              /\ \A j \in DOMAIN Ends : Ends[j][1] # r
            BY <1>5 DEF EndsInv, CreatedOnce
        <3> HIDE DEF r
        <3> QED
            BY <1>6, <3>1, <3>2
    <2>3. pc[q] # "idle" /\ \A i \in DOMAIN Creates' : Creates'[i] # handler'["create"].call
        BY <1>2, <1>4, <1>5
    <2>4. Caller("create")' = q
        BY <1>2 DEF Caller, q
    <2> QED
        BY <1>1, <1>2, <2>1, <2>2, <2>3, <2>4 DEF CreatedOnce
<1>8. EndsOfPlace'
    <2>1. UNCHANGED <<pc, Ends>>
        BY <1>1, <1>2
    <2> QED
        BY <1>4, <1>6, <2>1 DEF EndsInv, EndsOfPlace, BeforeEnd, BeforeCatch, Unsuccessful
<1>9. UnsuccessfulIsLast'
    BY <1>2, <1>4, <1>6 DEF EndsInv, UnsuccessfulIsLast
<1> QED
    BY <1>7, <1>8, <1>9 DEF EndsInv

LEMMA CreateAnswerEnds ==
    ASSUME TypeControl, TypeControl', EndsInv, CreatePutsConversation
    PROVE  EndsInv'
<1> USE LinesTyped
<1> DEFINE q == Caller("create")
<1>1. /\ At("create", "putConversation") /\ Reply("create", "ok") /\ UNCHANGED <<run, pc, inbox>>
      /\ ~At("create", "putConversation")'
    BY DEF CreatePutsConversation, keepsBff, Reply, Idle, At, TypeControl, Subjects
<1>2. Creates' = Creates /\ Ends' = Ends
    <2>1. handler'["create"] = Idle /\ handler'["finalize"] = handler["finalize"]
        BY <1>1 DEF Reply, TypeControl, Subjects
    <2> QED
        BY <1>1, <2>1 DEF Creates, Ends, Line, Pending, Unput, At, Idle
<1>3. q \in Requests /\ handler["create"].call = <<q, "create">>
    <2>1. handler["create"].call \in CallsOf("create")
        BY <1>1 DEF TypeControl, At, Subjects
    <2> QED
        BY <2>1, OwnerAssumption DEF Caller, CallsOf, Calls, SubjectOf, Ops, Appends, Terminal
<1>4. \A i \in DOMAIN Creates : Creates[i][1] # q
    BY <1>1, <1>3 DEF EndsInv, CreatedOnce
<1>5. \A r \in Requests : r # q => reply'[r] = reply[r]
    BY <1>1, <1>3, OwnerAssumption DEF Reply, ReplyTo, TypeControl
<1> HIDE DEF q
<1>6. CreatedOnce'
    BY <1>1, <1>2, <1>4, <1>5 DEF EndsInv, CreatedOnce
<1>7. EndsOfPlace' /\ UnsuccessfulIsLast'
    BY <1>1, <1>2 DEF EndsInv, EndsOfPlace, UnsuccessfulIsLast
<1> QED
    BY <1>6, <1>7 DEF EndsInv

LEMMA FinalizePutEnds ==
    ASSUME TypeControl, TypeControl', TypeData, EndsInv, FinalizePutsRun
    PROVE  /\ EndsInv'
           /\ run[Caller("finalize")] \in Unsuccessful =>
                Op("finalize") = run[Caller("finalize")]
<1> USE LinesTyped
<1> DEFINE q == Caller("finalize")
           op == Op("finalize")
<1>1. /\ At("finalize", "putRun") /\ Proceed("finalize", "readConversation")
      /\ run' = [run EXCEPT ![q] = op] /\ UNCHANGED <<pc, reply>>
    BY DEF FinalizePutsRun, keepsBff, Proceed
<1>2. /\ Len(Ends) >= 1 /\ Ends[1] = handler["finalize"].call
      /\ DOMAIN Ends' = 1 .. Len(Ends) - 1
      /\ \A i \in DOMAIN Ends' : Ends'[i] = Ends[i + 1]
      /\ Creates' = Creates /\ handler'["create"] = handler["create"]
    <2>1. "create" \in Subjects \ {"finalize"}
        BY DEF Subjects
    <2> QED
        BY <1>1, <2>1, PutPopsLine DEF Creates, Ends, Unput
<1>3. /\ 1 \in DOMAIN Ends /\ Ends[1][1] = q /\ Ends[1][2] = op
      /\ q \in Requests /\ op \in Terminal
    BY <1>1, <1>2, CallerTyped DEF Caller, Op, At
<1>4. run[q] \in Unsuccessful => op = run[q]
    BY <1>3 DEF EndsInv, UnsuccessfulIsLast
<1>5. \A j \in DOMAIN Ends' : j + 1 \in DOMAIN Ends /\ 1 < j + 1 /\ Ends'[j] = Ends[j + 1]
    BY <1>2
<1>6. run'[q] = op /\ \A r \in Requests : r # q => run'[r] = run[r]
    BY <1>1, <1>3 DEF TypeData
<1> HIDE DEF q, op
<1>7. CreatedOnce'
    <2>1. ASSUME NEW i \in DOMAIN Creates
          PROVE  LET r == Creates[i][1] IN
                 /\ run'[r] = "none"
                 /\ pc[r] \in {"create", "over"}
                 /\ pc[r] = "create" => reply[r] # "ok"
                 /\ \A j \in DOMAIN Ends' : Ends'[j][1] # r
        <3> DEFINE r == Creates[i][1]
        <3>1. /\ r \in Requests /\ run[r] = "none"
              /\ pc[r] \in {"create", "over"}
              /\ pc[r] = "create" => reply[r] # "ok"
              /\ \A j \in DOMAIN Ends : Ends[j][1] # r
            BY DEF EndsInv, CreatedOnce
        <3> HIDE DEF r
        <3>2. r # q
            BY <1>3, <3>1
        <3> QED
            BY <1>5, <1>6, <3>1, <3>2 DEF r
    <2> QED
        BY <1>1, <1>2, <2>1 DEF EndsInv, CreatedOnce, At, Caller
<1>8. EndsOfPlace'
    <2> SUFFICES ASSUME NEW r \in Requests
                 PROVE  /\ pc[r] = "idle" => run'[r] = "none"
                        /\ pc[r] \in BeforeEnd =>
                             /\ run'[r] \in {"none", "streaming"}
                             /\ \A j \in DOMAIN Ends' : Ends'[j][1] # r
                        /\ pc[r] \in BeforeCatch =>
                             /\ run'[r] \notin Unsuccessful
                             /\ \A j \in DOMAIN Ends' : Ends'[j][1] = r => Ends'[j][2] = "completed"
                        /\ pc[r] \in Unsuccessful =>
                             /\ run'[r] \in {"none", "streaming", "completed", pc[r]}
                             /\ \A j \in DOMAIN Ends' :
                                  Ends'[j][1] = r => Ends'[j][2] \in {"completed", pc[r]}
        BY <1>1 DEF EndsOfPlace
    <2>1. CASE r # q
        BY <1>5, <1>6, <2>1 DEF EndsInv, EndsOfPlace
    <2>2. CASE r = q
        <3>1. pc[q] \notin BeforeEnd /\ pc[q] # "idle"
            BY <1>3 DEF EndsInv, EndsOfPlace, BeforeEnd
        <3>2. pc[q] \in BeforeCatch => op = "completed"
            BY <1>3 DEF EndsInv, EndsOfPlace
        <3>3. pc[q] \in Unsuccessful => op \in {"completed", pc[q]}
            BY <1>3 DEF EndsInv, EndsOfPlace
        <3> QED
            BY <1>3, <1>5, <1>6, <2>2, <3>1, <3>2, <3>3 DEF EndsInv, EndsOfPlace, Unsuccessful
    <2> QED
        BY <2>1, <2>2
<1>9. UnsuccessfulIsLast'
    <2>1. ASSUME NEW i \in DOMAIN Ends', NEW j \in DOMAIN Ends', i < j,
                 Ends'[i][1] = Ends'[j][1], Ends'[i][2] \in Unsuccessful
          PROVE  Ends'[j][2] = Ends'[i][2]
        <3>1. i + 1 < j + 1
            BY <1>2, <2>1
        <3> QED
            BY <1>5, <2>1, <3>1 DEF EndsInv, UnsuccessfulIsLast
    <2>2. ASSUME NEW j \in DOMAIN Ends', run'[Ends'[j][1]] \in Unsuccessful
          PROVE  Ends'[j][2] = run'[Ends'[j][1]]
        <3>1. j + 1 \in DOMAIN Ends /\ 1 < j + 1 /\ Ends'[j] = Ends[j + 1] /\ Ends[j + 1][1] \in Requests
            BY <1>5
        <3>2. CASE Ends[j + 1][1] = q
            <4>1. op \in Unsuccessful /\ run'[Ends'[j][1]] = op
                BY <1>6, <2>2, <3>1, <3>2
            <4>2. Ends[j + 1][2] = Ends[1][2]
                BY <1>3, <3>1, <3>2, <4>1 DEF EndsInv, UnsuccessfulIsLast
            <4> QED
                BY <1>3, <3>1, <4>1, <4>2
        <3>3. CASE Ends[j + 1][1] # q
            BY <1>6, <2>2, <3>1, <3>3 DEF EndsInv, UnsuccessfulIsLast
        <3> QED
            BY <3>2, <3>3
    <2> QED
        BY <2>1, <2>2 DEF UnsuccessfulIsLast
<1> QED
    BY <1>4, <1>7, <1>8, <1>9 DEF EndsInv, q, op

\* Nothing happens to the order while runs, requests and the two lines stay.
LEMMA EndsKept ==
    ASSUME TypeControl, EndsInv, UNCHANGED <<run, pc, reply, handler>>,
           inbox'["create"] = inbox["create"], inbox'["finalize"] = inbox["finalize"]
    PROVE  EndsInv'
<1>1. Creates' = Creates /\ Ends' = Ends
    BY LinesKept
<1>2. Suffix(Creates', Creates) /\ Suffix(Ends', Ends)
    BY <1>1, LinesTyped, SuffixOfItself
<1> QED
    BY <1>2, Shrinking DEF At

LEMMA FaultyEnds ==
    ASSUME TypeControl, TypeControl', EndsInv, Faulty
    PROVE  EndsInv'
<1>1. ASSUME NEW q \in Requests, CallTimesOut(q)
      PROVE  EndsInv'
    <2>1. /\ UNCHANGED <<run, pc, handler, inbox>>
          /\ \A r \in Requests : reply'[r] = "ok" => reply[r] = "ok"
        BY <1>1 DEF CallTimesOut, store, keepsBff, control, TypeControl
    <2>2. Suffix(Creates', Creates) /\ Suffix(Ends', Ends)
        BY <2>1, LinesKept, LinesTyped, SuffixOfItself
    <2> QED
        BY <2>1, <2>2, Shrinking DEF At
<1>2. ASSUME NEW s \in Subjects, StoreFails(s)
      PROVE  EndsInv'
    BY <1>2, StatementEnds DEF StoreFails, store, keepsBff
<1>3. ASSUME ControlPlaneRestarts
      PROVE  EndsInv'
    <2>1. /\ UNCHANGED <<run, pc>>
          /\ \A s \in Subjects : inbox'[s] = <<>> /\ handler'[s] = Idle
          /\ \A q \in Requests : reply'[q] = "ok" => reply[q] = "ok"
        BY <1>3 DEF ControlPlaneRestarts, store, keepsBff
    <2>2. "create" \in Subjects /\ "finalize" \in Subjects
        BY DEF Subjects
    <2>3. \A s \in Subjects : ~Pending(s)' /\ ~At(s, "putConversation")'
        BY <2>1 DEF Pending, Unput, At, Idle
    <2>4. Suffix(Creates', Creates) /\ Suffix(Ends', Ends)
        BY <2>1, <2>2, <2>3, LineShrinks DEF Creates, Ends
    <2> QED
        BY <2>1, <2>2, <2>3, <2>4, Shrinking
<1>4. ASSUME BffRestarts
      PROVE  EndsInv'
    <2>1. /\ UNCHANGED <<run, handler, inbox>>
          /\ \A q \in Requests : reply'[q] = "none" /\ (pc'[q] = pc[q] \/ pc'[q] = "over")
        BY <1>4 DEF BffRestarts, store, control
    <2>2. Suffix(Creates', Creates) /\ Suffix(Ends', Ends)
        BY <2>1, LinesKept, LinesTyped, SuffixOfItself
    <2> QED
        BY <2>1, <2>2, Shrinking DEF At
<1> QED
    BY <1>1, <1>2, <1>3, <1>4 DEF Faulty

LEMMA EndsInitially == Init => EndsInv
<1> SUFFICES ASSUME Init PROVE EndsInv
    OBVIOUS
<1>1. \A s \in Subjects : handler[s].pc = "idle" /\ inbox[s] = <<>>
    BY DEF Init, Idle
<1>2. Creates = <<>> /\ Ends = <<>> /\ ~At("create", "putConversation")
    BY <1>1 DEF Creates, Ends, Line, Pending, Unput, At, Subjects
<1>3. DOMAIN Creates = {} /\ DOMAIN Ends = {}
    BY <1>2
<1>4. \A q \in Requests : pc[q] = "idle" /\ run[q] = "none"
    BY DEF Init
<1> QED
    BY <1>2, <1>3, <1>4
       DEF EndsInv, CreatedOnce, EndsOfPlace, UnsuccessfulIsLast, BeforeEnd, BeforeCatch, Unsuccessful

LEMMA EndsStep == Inv /\ EndsInv /\ [Next]_vars => EndsInv'
<1> SUFFICES ASSUME Inv, EndsInv, [Next]_vars PROVE EndsInv'
    OBVIOUS
<1>1. TypeControl /\ TypeData /\ TypeControl'
    BY InvStep, TypeParts, TypePartsNext DEF Inv
<1>2. ASSUME NEW q \in Requests, RequestStep(q)
      PROVE  EndsInv'
    BY <1>1, <1>2, RequestEnds
<1>3. ASSUME NEW q \in Requests, Abort(q)
      PROVE  EndsInv'
    BY <1>1, <1>3, EndsKept DEF Abort, store, control
<1>4. ASSUME NEW what \in OwnerCalls, Ask(what)
      PROVE  EndsInv'
    <2>1. what # "create" /\ what # "finalize"
        BY OwnerAssumption
    <2> QED
        BY <1>1, <1>4, <2>1, EndsKept DEF Ask, store, bff, TypeControl, Subjects
<1>5. CASE HandlerStep
    BY <1>1, <1>5, PlainStatements, CreatePutEnds, CreateAnswerEnds, FinalizePutEnds
       DEF HandlerStep
<1>6. CASE Faulty
    BY <1>1, <1>6, FaultyEnds
<1>7. CASE UNCHANGED vars
    BY <1>1, <1>7, EndsKept DEF vars, store, bff, control
<1> QED
    BY <1>2, <1>3, <1>4, <1>5, <1>6, <1>7 DEF Next

\* Only three statements of handlers change the status of a run.
LEMMA EndStep ==
    ASSUME Inv, EndsInv, [Next]_vars, NEW q \in Requests, run[q] \in Terminal
    PROVE  run'[q] \in {run[q], "none"} \cup
             (IF run[q] = "completed" THEN {"failed", "cancelled"} ELSE {})
<1>1. TypeControl /\ TypeData /\ TypeControl'
    BY InvStep, TypeParts, TypePartsNext DEF Inv
<1>2. CASE CreatePutsRun
    <2>1. run' = [run EXCEPT ![Caller("create")] = "streaming"]
        BY <1>2 DEF CreatePutsRun
    <2>2. Pending("create") /\ "create" \in Subjects
        BY <1>2 DEF CreatePutsRun, At, Pending, Unput, Subjects
    <2>3. 1 \in DOMAIN Creates /\ Creates[1][1] = Caller("create")
        <3>1. /\ Len(Creates) = Len(inbox["create"]) + 1
              /\ Creates[1] = handler["create"].call
            BY <1>1, <2>2, LineFacts DEF Creates
        <3>2. inbox["create"] \in Seq(CallsOf("create"))
            BY <1>1, <2>2 DEF TypeControl
        <3> QED
            BY <1>1, <3>1, <3>2, LinesTyped DEF Caller
    <2>4. run[Caller("create")] = "none"
        BY <2>3 DEF EndsInv, CreatedOnce
    <2> QED
        BY <1>1, <2>1, <2>4 DEF TypeData, Terminal
<1>3. CASE FinalizePutsRun
    <2>1. run' = [run EXCEPT ![Caller("finalize")] = Op("finalize")]
        BY <1>3 DEF FinalizePutsRun
    <2>2. run[Caller("finalize")] \in Unsuccessful =>
            Op("finalize") = run[Caller("finalize")]
        BY <1>1, <1>3, FinalizePutEnds
    <2>3. Op("finalize") \in Terminal
        BY <1>1, <1>3, CallerTyped DEF FinalizePutsRun, At
    <2> QED
        BY <1>1, <2>1, <2>2, <2>3 DEF TypeData, Terminal, Unsuccessful
<1>4. CASE DeleteRuns
    BY <1>4 DEF DeleteRuns
<1>5. CASE UNCHANGED run
    BY <1>5
<1>6. ASSUME NEW r \in Requests, RequestStep(r) \/ Abort(r)
      PROVE  UNCHANGED run
    BY <1>6, RequestMoves DEF Abort, store
<1>7. ASSUME NEW what \in OwnerCalls, Ask(what)
      PROVE  UNCHANGED run
    BY <1>7 DEF Ask, store
<1>8. ASSUME HandlerStep
      PROVE  CreatePutsRun \/ FinalizePutsRun \/ DeleteRuns \/ UNCHANGED run
    BY <1>8 DEF HandlerStep, CreateReads, CreateChecks, CreatePutsConversation,
                AppendReads, AppendReadsRun, AppendPutsMessage, AppendPutsConversation,
                FinalizeReads, FinalizeReadsConversation, FinalizePutsConversation,
                ArchiveReads, ArchivePuts, DeleteReads, DeleteMessages,
                DeleteConversation, store
<1>9. ASSUME Faulty
      PROVE  UNCHANGED run
    BY <1>9 DEF Faulty, CallTimesOut, StoreFails, ControlPlaneRestarts, BffRestarts, store
<1>10. ASSUME UNCHANGED vars
       PROVE  UNCHANGED run
    BY <1>10 DEF vars, store
<1> QED
    BY <1>2, <1>3, <1>4, <1>5, <1>6, <1>7, <1>8, <1>9, <1>10 DEF Next

\* FinalizeAiChatRun puts whatever status it is told over the stored one.  Still a
\* recorded end is final, but that a completed run may turn out to be cancelled or
\* failed: the route sends at most one other end, behind the first on the one subject.
THEOREM EndIsFinalAlways == Spec => EndIsFinal
<1>1. Inv /\ EndsInv /\ [Next]_vars =>
        [\A q \in Requests :
           run[q] \in Terminal =>
             run'[q] \in {run[q], "none"} \cup
               (IF run[q] = "completed" THEN {"failed", "cancelled"} ELSE {})]_vars
    BY EndStep
<1> QED
    BY <1>1, InvariantHolds, EndsInitially, EndsStep, PTL DEF Spec, EndIsFinal

-----------------------------------------------------------------------------
(* What a step does to the lines of calls *)

Appending == Line("append")

\* One statement of a handler, and what it leaves alone.
Statement(s, at, outcome) ==
  /\ \/ Takes(s) /\ (Accept(s, at) \/ Refuse(s))
     \/ /\ ~At(s, "idle")
        /\ \/ Reply(s, outcome)
           \/ /\ Proceed(s, at) \/ ProceedWithCopy(s, at)
              /\ at \in Unput => Pending(s)
  /\ UNCHANGED <<asked, keepsBff>>

LEMMA StatementOfStep ==
    ASSUME HandlerStep
    PROVE  \E s \in Subjects, at \in Labels \ {"idle"}, outcome \in {"ok", "error"} : Statement(s, at, outcome)
<1> USE DEF Statement, Subjects, Labels, keepsBff
<1>1. CASE CreateReads
    <2>1. Statement("create", "check", "ok")
        BY <1>1 DEF CreateReads
    <2> QED
        BY <2>1
<1>2. CASE CreateChecks
    <2>1. Statement("create", "putRun", "error")
        BY <1>2 DEF CreateChecks, At, Unput, Pending
    <2> QED
        BY <2>1
<1>3. CASE CreatePutsRun \/ CreatePutsConversation
    <2>1. Statement("create", "putConversation", "ok")
        BY <1>3 DEF CreatePutsRun, CreatePutsConversation, At, Unput
    <2> QED
        BY <2>1
<1>4. CASE AppendReads
    <2>1. Statement("append", "readRun", "ok")
        BY <1>4 DEF AppendReads
    <2> QED
        BY <2>1
<1>5. CASE AppendReadsRun
    <2>1. Statement("append", "putMessage", "error")
        BY <1>5 DEF AppendReadsRun, At, Unput, Pending
    <2> QED
        BY <2>1
<1>6. CASE AppendPutsMessage \/ AppendPutsConversation
    <2>1. Statement("append", "putConversation", "ok")
        BY <1>6 DEF AppendPutsMessage, AppendPutsConversation, At, Unput
    <2> QED
        BY <2>1
<1>7. CASE FinalizeReads
    <2>1. Statement("finalize", "putRun", "ok")
        BY <1>7 DEF FinalizeReads
    <2> QED
        BY <2>1
<1>8. CASE FinalizePutsRun
    <2>1. Statement("finalize", "readConversation", "ok")
        BY <1>8 DEF FinalizePutsRun, At, Unput
    <2> QED
        BY <2>1
<1>9. CASE FinalizeReadsConversation \/ FinalizePutsConversation
    <2>1. Statement("finalize", "putConversation", "ok")
        BY <1>9 DEF FinalizeReadsConversation, FinalizePutsConversation, At, Unput
    <2> QED
        BY <2>1
<1>10. CASE ArchiveReads \/ ArchivePuts
    <2>1. Statement("archive", "put", "ok")
        BY <1>10 DEF ArchiveReads, ArchivePuts, At
    <2> QED
        BY <2>1
<1>11. CASE DeleteReads
    <2>1. Statement("delete", "messages", "ok")
        BY <1>11 DEF DeleteReads
    <2> QED
        BY <2>1
<1>12. CASE DeleteMessages
    <2>1. Statement("delete", "runs", "ok")
        BY <1>12 DEF DeleteMessages, At, Unput
    <2> QED
        BY <2>1
<1>13. CASE DeleteRuns \/ DeleteConversation
    <2>1. Statement("delete", "conversation", "ok")
        BY <1>13 DEF DeleteRuns, DeleteConversation, At, Unput
    <2> QED
        BY <2>1
<1> QED
    BY <1>1, <1>2, <1>3, <1>4, <1>5, <1>6, <1>7, <1>8, <1>9, <1>10, <1>11, <1>12, <1>13
       DEF HandlerStep

\* A statement takes calls off the front of its line only.
LEMMA StatementLines ==
    ASSUME TypeControl, TypeControl', NEW s \in Subjects, NEW at \in Labels,
           NEW outcome \in {"ok", "error"}, Statement(s, at, outcome), NEW t \in Subjects
    PROVE  Suffix(Line(t)', Line(t))
<1>1. /\ handler \in [Subjects -> [pc: Labels, call: Calls \cup {NoCall}, copy: Conversations]]
      /\ DOMAIN inbox = Subjects
    BY DEF TypeControl
<1>2. CASE t # s
    <2>1. handler'[t] = handler[t] /\ inbox'[t] = inbox[t]
        BY <1>1, <1>2
           DEF Statement, Takes, Accept, Refuse, Reply, Proceed, ProceedWithCopy
    <2> QED
        BY <2>1, LineShrinks DEF Pending
<1>3. CASE t = s /\ Takes(s) /\ Accept(s, at)
    BY <1>1, <1>3, LineShrinks DEF Accept
<1>4. CASE t = s /\ Takes(s) /\ Refuse(s)
    BY <1>1, <1>4, LineShrinks DEF Takes, Refuse, At, Pending, Unput
<1>5. CASE t = s /\ ~At(s, "idle") /\ Reply(s, outcome)
    <2>1. UNCHANGED inbox /\ ~Pending(s)'
        BY <1>1, <1>5 DEF Reply, Idle, Pending, Unput
    <2> QED
        BY <1>5, <2>1, LineShrinks
<1>6. CASE /\ t = s
           /\ Proceed(s, at) \/ ProceedWithCopy(s, at)
           /\ at \in Unput => Pending(s)
    <2>1. UNCHANGED inbox /\ handler'[s].pc = at /\ handler'[s].call = handler[s].call
        BY <1>1, <1>6 DEF Proceed, ProceedWithCopy
    <2> QED
        BY <1>6, <2>1, LineShrinks DEF Pending
<1> QED
    BY <1>2, <1>3, <1>4, <1>5, <1>6 DEF Statement

LEMMA StoreFailure ==
    ASSUME NEW s \in Subjects, StoreFails(s)
    PROVE  Statement(s, "idle", "error") /\ "idle" \in Labels /\ UNCHANGED store
    BY DEF StoreFails, Statement, Labels, store, keepsBff

\* Only a request makes a line of one of its subjects longer, by one call.
Grows(s, q, op) ==
  /\ SubjectOf(op) = s
  /\ Len(Line(s)') = Len(Line(s)) + 1 /\ DOMAIN Line(s)' = 1 .. Len(Line(s)) + 1
  /\ \A i \in 1 .. Len(Line(s)) : Line(s)'[i] = Line(s)[i]
  /\ Line(s)'[Len(Line(s)) + 1] = <<q, op>>

LEMMA CallLines ==
    ASSUME TypeControl, NEW q \in Requests, NEW op \in Ops, Call(q, op), UNCHANGED handler
    PROVE  /\ Grows(SubjectOf(op), q, op)
           /\ \A t \in Subjects \ {SubjectOf(op)} : Line(t)' = Line(t)
<1>1. SubjectOf(op) \in Subjects /\ <<q, op>> \in CallsOf(SubjectOf(op))
    BY SubjectsOfOps DEF CallsOf, Calls
<1>2. inbox' = [inbox EXCEPT ![SubjectOf(op)] = Append(@, <<q, op>>)] /\ DOMAIN inbox = Subjects
    BY DEF Call, TypeControl
<1>3. \A t \in Subjects \ {SubjectOf(op)} : Line(t)' = Line(t)
    BY <1>2 DEF Line, Pending
<1>4. inbox'[SubjectOf(op)] = Append(inbox[SubjectOf(op)], <<q, op>>)
    BY <1>1, <1>2
<1> QED
    BY <1>1, <1>3, <1>4, LineGrows DEF Grows

LEMMA SameLines ==
    ASSUME UNCHANGED <<handler, inbox>>
    PROVE  \A t \in Subjects : Line(t)' = Line(t)
    BY DEF Line, Pending

-----------------------------------------------------------------------------
(* While the conversation is not being deleted *)

\* Nobody handles what the owner did not ask for.
OwnerAsked ==
  \A what \in {"archive", "delete"} :
    what \notin asked => At(what, "idle") /\ inbox[what] = <<>>

\* The conversation is there, and no handler holds a copy that says otherwise.
PresentCopies ==
  ~Deleting =>
    /\ Present
    /\ \A s \in Subjects : ~At(s, "idle") => handler[s].copy.status # "missing"

LEMMA RequestFrame ==
    ASSUME NEW q \in Requests, RequestStep(q)
    PROVE  /\ UNCHANGED <<store, conv, run, messages, handler, owner, asked, answered, faults>>
           /\ \/ \E op \in Ops : Call(q, op)
              \/ \E at \in {"starting", "streaming", "over"} : Goto(q, at)
<1> USE DEF store, owner, Ops, Appends, Terminal
<1>1. CASE BeginRequest(q)
    BY <1>1 DEF BeginRequest
<1>2. CASE RunCreated(q)
    BY <1>2 DEF RunCreated
<1>3. CASE UserAppended(q)
    BY <1>3 DEF UserAppended
<1>4. CASE EmitStarted(q)
    BY <1>4 DEF EmitStarted, Catch
<1>5. CASE HarnessEvent(q)
    BY <1>5 DEF HarnessEvent, Catch
<1>6. CASE HarnessFails(q)
    BY <1>6 DEF HarnessFails, Catch
<1>7. CASE HarnessEnds(q)
    BY <1>7 DEF HarnessEnds
<1>8. CASE AnswerAppended(q)
    BY <1>8 DEF AnswerAppended, Catch
<1>9. CASE RunCompleted(q)
    BY <1>9 DEF RunCompleted, Catch
<1>10. CASE NoteAppended(q)
    BY <1>10 DEF NoteAppended
<1>11. CASE RunEnded(q)
    BY <1>11 DEF RunEnded
<1> QED
    BY <1>1, <1>2, <1>3, <1>4, <1>5, <1>6, <1>7, <1>8, <1>9, <1>10, <1>11 DEF RequestStep

\* A statement of one subject's handler is none of another's.
LEMMA StatementFrame ==
    ASSUME TypeControl, NEW s \in Subjects, NEW at, NEW outcome, Statement(s, at, outcome)
    PROVE  \A t \in Subjects \ {s} : handler'[t] = handler[t] /\ inbox'[t] = inbox[t]
    BY DEF TypeControl, Statement, Takes, Accept, Refuse, Reply, Proceed, ProceedWithCopy

LEMMA OwnerAskedStep ==
    ASSUME TypeControl, OwnerAsked, [Next]_vars
    PROVE  OwnerAsked'
<1> SUFFICES ASSUME NEW w \in {"archive", "delete"}, w \notin asked'
             PROVE  At(w, "idle")' /\ inbox'[w] = <<>>
    BY DEF OwnerAsked
<1>0. DOMAIN inbox = Subjects /\ w \in Subjects
    BY DEF TypeControl, Subjects
<1>1. ASSUME UNCHANGED asked, handler'[w] = handler[w], inbox'[w] = inbox[w]
      PROVE  At(w, "idle")' /\ inbox'[w] = <<>>
    BY <1>1 DEF OwnerAsked, At
<1>2. ASSUME NEW q \in Requests, RequestStep(q)
      PROVE  UNCHANGED <<asked, handler>> /\ inbox'[w] = inbox[w]
    <2>1. \A op \in Ops : SubjectOf(op) # w
        BY DEF SubjectOf, Ops, Appends, Terminal
    <2> QED
        BY <1>0, <1>2, <2>1, RequestFrame DEF Call, Goto
<1>3. ASSUME NEW what \in OwnerCalls, Ask(what)
      PROVE  At(w, "idle")' /\ inbox'[w] = <<>>
    BY <1>0, <1>3 DEF Ask, OwnerAsked, At
<1>4. ASSUME NEW s \in Subjects, NEW at, NEW outcome, Statement(s, at, outcome)
      PROVE  At(w, "idle")' /\ inbox'[w] = <<>>
    <2>1. UNCHANGED asked
        BY <1>4 DEF Statement
    <2>2. s # w
        BY <1>4, <2>1 DEF Statement, Takes, At, OwnerAsked
    <2> QED
        BY <1>0, <1>1, <1>4, <2>1, <2>2, StatementFrame
<1>5. ASSUME ControlPlaneRestarts PROVE At(w, "idle")' /\ inbox'[w] = <<>>
    BY <1>0, <1>5 DEF ControlPlaneRestarts, At, Idle
<1>6. ASSUME \/ BffRestarts \/ UNCHANGED vars
             \/ \E q \in Requests : CallTimesOut(q) \/ Abort(q)
      PROVE  UNCHANGED <<asked, handler, inbox>>
    BY <1>6 DEF BffRestarts, CallTimesOut, Abort, control, owner, vars
<1> QED
    BY <1>1, <1>2, <1>3, <1>4, <1>5, <1>6, StatementOfStep, StoreFailure DEF Next, Faulty

LEMMA PresentCopiesStep ==
    ASSUME TypeControl, OwnerAsked, PresentCopies, [Next]_vars
    PROVE  PresentCopies'
<1>0. /\ handler \in [Subjects -> [pc: Labels, call: Calls \cup {NoCall}, copy: Conversations]]
      /\ Subjects = {"create", "append", "finalize", "archive", "delete"}
    BY DEF TypeControl, Subjects
<1>1. ASSUME NEW q \in Requests, RequestStep(q) PROVE PresentCopies'
    BY <1>1, RequestFrame DEF PresentCopies, Present, At, Deleting
<1>2. ASSUME NEW q \in Requests, Abort(q) PROVE PresentCopies'
    BY <1>2 DEF Abort, store, control, owner, PresentCopies, Present, At, Deleting
<1>3. ASSUME NEW what \in OwnerCalls, Ask(what) PROVE PresentCopies'
    BY <1>3 DEF Ask, store, PresentCopies, Present, At, Deleting
<1>4. ASSUME NEW s \in Subjects, NEW at, NEW outcome, Statement(s, at, outcome), Present' \/ Deleting
      PROVE  PresentCopies'
    <2> SUFFICES ASSUME ~Deleting PROVE PresentCopies'
        BY <1>4 DEF Statement, PresentCopies, Deleting
    <2>1. \A t \in Subjects \ {s} : handler'[t] = handler[t]
        BY <1>4, StatementFrame
    <2>2. handler'[s].pc # "idle" => handler'[s].copy \in {conv, handler[s].copy}
        BY <1>0, <1>4 DEF Statement, Accept, Refuse, Reply, Proceed, ProceedWithCopy, Idle
    <2>3. At(s, "idle") => handler'[s] = handler[s] \/ handler'[s].copy = conv
        BY <1>0, <1>4 DEF Statement, Accept, Refuse
    <2>4. handler'[s].pc # "idle" => handler'[s].copy.status # "missing"
        BY <2>2, <2>3 DEF PresentCopies, Present, At
    <2> QED
        BY <1>4, <2>1, <2>4 DEF PresentCopies, At
<1>5. ASSUME HandlerStep PROVE Present' \/ Deleting
    <2> SUFFICES ASSUME ~Deleting PROVE Present'
        OBVIOUS
    <2>1. CASE CreatePutsConversation
        BY <1>0, <2>1 DEF CreatePutsConversation, At, PresentCopies, Present, Conversations
    <2>2. CASE AppendPutsConversation
        BY <1>0, <2>2 DEF AppendPutsConversation, At, PresentCopies, Present
    <2>3. CASE FinalizePutsConversation
        BY <1>0, <2>3 DEF FinalizePutsConversation, At, PresentCopies, Present, Conversations
    <2>4. CASE ArchivePuts
        <3>1. handler["archive"].copy \in Conversations
            BY <1>0
        <3>2. conv'.status = "archived"
            BY <2>4, <3>1 DEF ArchivePuts, Conversations
        <3> QED
            BY <3>2 DEF Present
    <2>5. CASE DeleteConversation
        BY <2>5 DEF DeleteConversation, At, OwnerAsked, Deleting
    <2>6. CASE UNCHANGED conv
        BY <2>6 DEF PresentCopies, Present
    <2> QED
        BY <1>5, <2>1, <2>2, <2>3, <2>4, <2>5, <2>6
           DEF HandlerStep, CreateReads, CreateChecks, CreatePutsRun,
               AppendReads, AppendReadsRun, AppendPutsMessage,
               FinalizeReads, FinalizePutsRun, FinalizeReadsConversation,
               ArchiveReads, DeleteReads, DeleteMessages, DeleteRuns, store
<1>6. ASSUME NEW s \in Subjects, StoreFails(s) PROVE PresentCopies'
    BY <1>4, <1>6, StoreFailure DEF store, PresentCopies, Present
<1>7. CASE ControlPlaneRestarts
    BY <1>7 DEF ControlPlaneRestarts, owner, store, PresentCopies, Present, At, Deleting, Idle
<1>8. ASSUME BffRestarts \/ \E q \in Requests : CallTimesOut(q) PROVE PresentCopies'
    BY <1>8 DEF BffRestarts, CallTimesOut, control, owner, store, PresentCopies, Present, At, Deleting
<1>9. CASE UNCHANGED vars
    BY <1>9 DEF vars, control, owner, store, PresentCopies, Present, At, Deleting
<1> QED
    BY <1>1, <1>2, <1>3, <1>4, <1>5, <1>6, <1>7, <1>8, <1>9, StatementOfStep DEF Next, Faulty

-----------------------------------------------------------------------------
(* What a request is answered *)

LEMMA AnswerOfStatement ==
    ASSUME TypeControl, NEW s \in Subjects, NEW at, NEW outcome, Statement(s, at, outcome),
           NEW q \in Requests, reply'[q] # reply[q]
    PROVE  /\ reply[q] = "none"
           /\ \/ Takes(s) /\ Refuse(s) /\ Oldest(s) = <<q, pc[q]>> /\ reply'[q] = "error"
              \/ ~At(s, "idle") /\ Reply(s, outcome) /\ handler[s].call = <<q, pc[q]>> /\ reply'[q] = outcome
           /\ SubjectOf(pc[q]) = s
<1>1. ASSUME NEW call \in CallsOf(s), NEW o, ReplyTo(call, o)
      PROVE  reply[q] = "none" /\ call = <<q, pc[q]>> /\ reply'[q] = o /\ SubjectOf(pc[q]) = s
    <2>1. call \in Calls /\ SubjectOf(call[2]) = s
        BY DEF CallsOf
    <2>2. call = <<call[1], call[2]>>
        BY <2>1 DEF Calls
    <2>3. call[1] # "owner" /\ call[1] = q /\ call[2] = pc[q] /\ reply[q] = "none" /\ reply'[q] = o
        BY <1>1, <2>1, OwnerAssumption DEF ReplyTo, TypeControl, Calls
    <2> QED
        BY <2>1, <2>2, <2>3
<1>2. CASE Takes(s) /\ Refuse(s)
    BY <1>1, <1>2, TakesTyped DEF Refuse
<1>3. CASE ~At(s, "idle") /\ Reply(s, outcome)
    BY <1>1, <1>3 DEF Reply, TypeControl
<1> QED
    BY <1>2, <1>3 DEF Statement, Accept, Proceed, ProceedWithCopy

\* Success is the answer of the statement that puts the conversation, or that finds it
\* gone when a run was finalized.
LEMMA OkAnswers ==
    ASSUME TypeControl, HandlerStep, NEW q \in Requests, reply'[q] = "ok", reply[q] # "ok"
    PROVE  \/ /\ pc[q] = "create" /\ CreatePutsConversation
              /\ handler["create"].call = <<q, "create">>
           \/ /\ SubjectOf(pc[q]) = "append" /\ AppendPutsConversation
              /\ handler["append"].call = <<q, pc[q]>>
           \/ /\ SubjectOf(pc[q]) = "finalize"
              /\ (FinalizeReadsConversation /\ ~Present) \/ FinalizePutsConversation
              /\ handler["finalize"].call = <<q, pc[q]>>
<1>0. /\ Subjects = {"create", "append", "finalize", "archive", "delete"}
      /\ pc[q] \in Ops \cup {"idle", "starting", "streaming", "over"}
    BY DEF TypeControl, Subjects
<1>1. ASSUME NEW s \in Subjects, NEW at, Statement(s, at, "error") PROVE FALSE
    BY <1>1, AnswerOfStatement
<1>2. ASSUME NEW s \in Subjects, NEW at, Statement(s, at, "ok")
      PROVE  /\ ~At(s, "idle") /\ Reply(s, "ok") /\ handler[s].call = <<q, pc[q]>>
             /\ SubjectOf(pc[q]) = s
    BY <1>2, AnswerOfStatement
<1>3. CASE CreateReads
    BY <1>0, <1>1, <1>3 DEF CreateReads, Statement, keepsBff
<1>4. CASE CreateChecks
    <2>1. Statement("create", "putRun", "error")
        BY <1>4 DEF CreateChecks, At, Unput, Pending, Statement, keepsBff
    <2> QED
        BY <1>0, <1>1, <2>1
<1>5. CASE CreatePutsRun
    BY <1>5 DEF CreatePutsRun, Proceed
<1>6. CASE CreatePutsConversation
    <2>1. Statement("create", "putConversation", "ok")
        BY <1>6 DEF CreatePutsConversation, At, Statement, keepsBff
    <2>2. handler["create"].call = <<q, pc[q]>> /\ SubjectOf(pc[q]) = "create"
        BY <1>0, <1>2, <2>1
    <2>3. pc[q] = "create"
        BY <1>0, <2>2 DEF SubjectOf, Ops, Appends, Terminal
    <2> QED
        BY <1>6, <2>2, <2>3
<1>7. CASE AppendReads
    BY <1>0, <1>1, <1>7 DEF AppendReads, Statement, keepsBff
<1>8. CASE AppendReadsRun
    <2>1. Statement("append", "putMessage", "error")
        BY <1>8 DEF AppendReadsRun, At, Unput, Pending, Statement, keepsBff
    <2> QED
        BY <1>0, <1>1, <2>1
<1>9. CASE AppendPutsMessage
    BY <1>9 DEF AppendPutsMessage, Proceed
<1>10. CASE AppendPutsConversation
    <2>1. Statement("append", "putConversation", "ok")
        BY <1>10 DEF AppendPutsConversation, At, Statement, keepsBff
    <2> QED
        BY <1>0, <1>2, <1>10, <2>1
<1>11. CASE FinalizeReads
    BY <1>0, <1>1, <1>11 DEF FinalizeReads, Statement, keepsBff
<1>12. CASE FinalizePutsRun
    BY <1>12 DEF FinalizePutsRun, Proceed
<1>13. CASE FinalizeReadsConversation
    <2>1. Statement("finalize", "putConversation", "ok")
        BY <1>13 DEF FinalizeReadsConversation, At, Unput, Statement, keepsBff
    <2>2. ~Present
        BY <1>13 DEF FinalizeReadsConversation, ProceedWithCopy
    <2> QED
        BY <1>0, <1>2, <1>13, <2>1, <2>2
<1>14. CASE FinalizePutsConversation
    <2>1. Statement("finalize", "putConversation", "ok")
        BY <1>14 DEF FinalizePutsConversation, At, Statement, keepsBff
    <2> QED
        BY <1>0, <1>2, <1>14, <2>1
<1>15. ASSUME \/ ArchiveReads \/ ArchivePuts \/ DeleteReads \/ DeleteMessages \/ DeleteRuns
              \/ DeleteConversation
       PROVE  FALSE
    <2>1. \E s \in {"archive", "delete"}, at \in Labels : Statement(s, at, "ok")
        <3>1. CASE ArchiveReads \/ ArchivePuts
            <4>1. Statement("archive", "put", "ok")
                BY <3>1 DEF ArchiveReads, ArchivePuts, At, Statement, keepsBff
            <4> QED
                BY <4>1 DEF Labels
        <3>2. CASE DeleteReads \/ DeleteConversation
            <4>1. Statement("delete", "messages", "ok")
                BY <3>2 DEF DeleteReads, DeleteConversation, At, Statement, keepsBff
            <4> QED
                BY <4>1 DEF Labels
        <3>3. CASE DeleteMessages
            BY <3>3 DEF DeleteMessages, Proceed
        <3>4. CASE DeleteRuns
            BY <3>4 DEF DeleteRuns, Proceed
        <3> QED
            BY <1>15, <3>1, <3>2, <3>3, <3>4
    <2>2. SubjectOf(pc[q]) \notin {"archive", "delete"}
        BY <1>0 DEF SubjectOf, Ops, Appends, Terminal
    <2> QED
        BY <1>0, <1>2, <2>1, <2>2
<1> QED
    BY <1>3, <1>4, <1>5, <1>6, <1>7, <1>8, <1>9, <1>10, <1>11, <1>12, <1>13, <1>14, <1>15 DEF HandlerStep

\* While the conversation is there, an append or an end is refused when its run is not,
\* and an answer also when a part of it looks like a secret.
LEMMA ErrorAnswers ==
    ASSUME TypeControl, HandlerStep, NEW q \in Requests, reply'[q] = "error", reply[q] # "error",
           Present
    PROVE  \/ pc[q] = "create"
           \/ pc[q] = "answer"
           \/ /\ AppendReadsRun
              /\ handler["append"].call = <<q, pc[q]>> /\ run[q] = "none"
           \/ /\ FinalizeReads /\ Oldest("finalize") = <<q, pc[q]>> /\ run[q] = "none"
<1>0. /\ Subjects = {"create", "append", "finalize", "archive", "delete"}
      /\ pc[q] \in Ops \cup {"idle", "starting", "streaming", "over"}
    BY DEF TypeControl, Subjects
<1> DEFINE Told(s, at) == /\ SubjectOf(pc[q]) = s
                          /\ \/ Takes(s) /\ Refuse(s) /\ Oldest(s) = <<q, pc[q]>>
                             \/ ~At(s, "idle") /\ Reply(s, "error") /\ handler[s].call = <<q, pc[q]>>
<1>1. ASSUME NEW s \in Subjects, NEW at, Statement(s, at, "error")
      PROVE  Told(s, at)
    BY <1>1, AnswerOfStatement
<1>2. ASSUME NEW s \in Subjects, NEW at, Statement(s, at, "ok")
      PROVE  Told(s, at) /\ Refuse(s)
    BY <1>2, AnswerOfStatement
<1>3. CASE CreateReads \/ CreateChecks \/ CreatePutsRun \/ CreatePutsConversation
    <2>1. CASE CreateReads \/ CreateChecks
        <3>1. Statement("create", "check", "error") \/ Statement("create", "putRun", "error")
            BY <2>1 DEF CreateReads, CreateChecks, At, Unput, Pending, Statement, keepsBff
        <3>2. SubjectOf(pc[q]) = "create"
            BY <1>0, <1>1, <3>1
        <3> QED
            BY <1>0, <3>2 DEF SubjectOf, Ops, Appends, Terminal
    <2>2. CASE CreatePutsRun
        BY <2>2 DEF CreatePutsRun, Proceed
    <2>3. CASE CreatePutsConversation
        <3>1. Statement("create", "putConversation", "ok") /\ ~At("create", "idle")
            BY <2>3 DEF CreatePutsConversation, At, Statement, keepsBff
        <3>2. SubjectOf(pc[q]) = "create"
            BY <1>0, <1>2, <3>1
        <3> QED
            BY <1>0, <3>2 DEF SubjectOf, Ops, Appends, Terminal
    <2> QED
        BY <1>3, <2>1, <2>2, <2>3
<1>4. CASE AppendReads
    <2>1. Statement("append", "readRun", "error") /\ At("append", "idle")
        BY <1>4 DEF AppendReads, Statement, Takes, keepsBff
    <2>2. Oldest("append") = <<q, pc[q]>> /\ ~Accept("append", "readRun")
        BY <1>0, <1>1, <2>1 DEF Accept
    <2> QED
        BY <1>4, <2>2 DEF AppendReads
<1>5. CASE AppendReadsRun
    <2>1. Statement("append", "putMessage", "error") /\ ~At("append", "idle")
        BY <1>5 DEF AppendReadsRun, At, Unput, Pending, Statement, keepsBff
    <2>2. handler["append"].call = <<q, pc[q]>>
        BY <1>0, <1>1, <2>1 DEF Takes
    <2>3. run[Caller("append")] = "none"
        BY <1>5 DEF AppendReadsRun, Proceed
    <2> QED
        BY <1>5, <2>2, <2>3 DEF Caller
<1>6. CASE AppendPutsMessage \/ FinalizePutsRun \/ DeleteMessages \/ DeleteRuns
    BY <1>6 DEF AppendPutsMessage, FinalizePutsRun, DeleteMessages, DeleteRuns, Proceed
<1>7. CASE AppendPutsConversation
    <2>1. Statement("append", "putConversation", "ok") /\ ~At("append", "idle")
        BY <1>7 DEF AppendPutsConversation, At, Statement, keepsBff
    <2> QED
        BY <1>0, <2>1, AnswerOfStatement DEF Takes
<1>8. CASE FinalizeReads
    <2>1. Statement("finalize", "putRun", "error") /\ At("finalize", "idle")
        BY <1>8 DEF FinalizeReads, Statement, Takes, keepsBff
    <2>2. Oldest("finalize") = <<q, pc[q]>>
        BY <1>0, <1>1, <2>1
    <2>3. run[Oldest("finalize")[1]] = "none"
        BY <1>8 DEF FinalizeReads, Accept
    <2> QED
        BY <1>8, <2>2, <2>3
<1>9. CASE FinalizeReadsConversation
    BY <1>9 DEF FinalizeReadsConversation, ProceedWithCopy
<1>10. CASE FinalizePutsConversation
    <2>1. Statement("finalize", "putConversation", "ok") /\ ~At("finalize", "idle")
        BY <1>10 DEF FinalizePutsConversation, At, Statement, keepsBff
    <2> QED
        BY <1>0, <2>1, AnswerOfStatement DEF Takes
<1>11. CASE ArchiveReads \/ ArchivePuts \/ DeleteReads \/ DeleteConversation
    <2>1. Statement("archive", "put", "ok") \/ Statement("delete", "messages", "ok")
        BY <1>11 DEF ArchiveReads, ArchivePuts, DeleteReads, DeleteConversation, At, Statement, keepsBff
    <2>2. SubjectOf(pc[q]) \in {"archive", "delete"}
        BY <1>0, <1>2, <2>1
    <2> QED
        BY <1>0, <2>2 DEF SubjectOf, Ops, Appends, Terminal
<1> QED
    BY <1>3, <1>4, <1>5, <1>6, <1>7, <1>8, <1>9, <1>10, <1>11 DEF HandlerStep

-----------------------------------------------------------------------------
(* A run that is there stays, and what is kept for a request has its run *)

RunsKept ==
  ~Deleting =>
    /\ \A q \in Requests :
         \/ pc[q] \notin {"idle", "create", "over"}
         \/ pc[q] = "create" /\ reply[q] = "ok"
         => run[q] # "none"
    /\ At("create", "putConversation") => run[Caller("create")] # "none"
    /\ \A j \in DOMAIN Appending : run[Appending[j][1]] # "none"
    /\ \A j \in DOMAIN Ends : run[Ends[j][1]] # "none"
    /\ \A i \in DOMAIN messages :
         messages[i].request \in Requests => run[messages[i].request] # "none"

LEMMA AppendingTyped ==
    ASSUME TypeControl
    PROVE  /\ Len(Appending) \in Nat /\ DOMAIN Appending = 1 .. Len(Appending)
           /\ \A j \in DOMAIN Appending :
                /\ Appending[j][1] \in Requests /\ Appending[j][2] \in Appends
                /\ Appending[j] = <<Appending[j][1], Appending[j][2]>>
<1>1. "append" \in Subjects /\ \A what \in OwnerCalls : SubjectOf(what) = what /\ what # "append"
    BY SubjectsOfOps, OwnerAssumption DEF Subjects
<1>2. CallsOf("append") \subseteq Requests \X Appends
    BY <1>1 DEF CallsOf, Calls, SubjectOf, Ops, Terminal
<1>3. Appending \in Seq(CallsOf("append"))
    BY <1>1, LineFacts DEF Appending
<1> QED
    BY <1>2, <1>3

\* The handler's call stands at the front of its line until it is put.
LEMMA CallerInLine ==
    ASSUME TypeControl, NEW s \in Subjects, Pending(s)
    PROVE  1 \in DOMAIN Line(s) /\ Line(s)[1] = handler[s].call
<1>1. Len(Line(s)) = Len(inbox[s]) + 1 /\ Line(s)[1] = handler[s].call /\ Line(s) \in Seq(CallsOf(s))
    BY LineFacts
<1>2. Len(inbox[s]) \in Nat
    BY DEF TypeControl
<1> QED
    BY <1>1, <1>2

\* Only a deletion takes a run away.
LEMMA RunStays ==
    ASSUME TypeControl, TypeData, OwnerAsked, [Next]_vars, ~Deleting, NEW q \in Requests,
           run[q] # "none"
    PROVE  run'[q] # "none"
<1>1. ASSUME NEW r \in Requests, RequestStep(r) \/ Abort(r) PROVE run' = run
    BY <1>1, RequestFrame DEF Abort, store
<1>2. CASE CreatePutsRun
    BY <1>2 DEF CreatePutsRun, TypeData
<1>3. CASE FinalizePutsRun
    <2>1. Op("finalize") # "none"
        BY <1>3, CallerTyped DEF FinalizePutsRun, At, Terminal
    <2> QED
        BY <1>3, <2>1 DEF FinalizePutsRun, TypeData
<1>4. ASSUME HandlerStep PROVE CreatePutsRun \/ FinalizePutsRun \/ run' = run
    BY <1>4 DEF OwnerAsked, Deleting, At,
       HandlerStep, CreateReads, CreateChecks, CreatePutsConversation,
       AppendReads, AppendReadsRun, AppendPutsMessage, AppendPutsConversation,
       FinalizeReads, FinalizeReadsConversation, FinalizePutsConversation,
       ArchiveReads, ArchivePuts, DeleteReads, DeleteMessages, DeleteRuns, DeleteConversation, store
<1>5. ASSUME Faulty PROVE run' = run
    BY <1>5 DEF Faulty, CallTimesOut, StoreFails, ControlPlaneRestarts, BffRestarts, store
<1> QED
    BY <1>1, <1>2, <1>3, <1>4, <1>5 DEF Next, Ask, store, vars

\* What was asked for and what went wrong is not forgotten.
LEMMA History ==
    ASSUME TypeData, [Next]_vars
    PROVE  /\ asked \subseteq asked'
           /\ faults' = 0 => faults = 0 /\ ~Faulty
<1>1. ASSUME NEW q \in Requests, RequestStep(q) \/ Abort(q) PROVE UNCHANGED <<asked, faults>>
    BY <1>1, RequestFrame DEF Abort, owner
<1>2. ASSUME NEW what \in OwnerCalls, Ask(what) PROVE asked \subseteq asked' /\ UNCHANGED faults
    BY <1>2 DEF Ask
<1>3. ASSUME HandlerStep PROVE UNCHANGED asked
    BY <1>3, StatementOfStep DEF Statement
<1>4. ASSUME HandlerStep PROVE UNCHANGED faults
    BY <1>4 DEF HandlerStep, CreateReads, CreateChecks, CreatePutsRun, CreatePutsConversation,
       AppendReads, AppendReadsRun, AppendPutsMessage, AppendPutsConversation,
       FinalizeReads, FinalizePutsRun, FinalizeReadsConversation, FinalizePutsConversation,
       ArchiveReads, ArchivePuts, DeleteReads, DeleteMessages, DeleteRuns, DeleteConversation
<1>5. ASSUME Faulty PROVE UNCHANGED asked /\ faults' = faults + 1
    BY <1>5 DEF Faulty, CallTimesOut, StoreFails, ControlPlaneRestarts, BffRestarts, owner, Fault
<1>6. faults \in Nat
    BY DisturbedAssumption DEF TypeData
<1>7. ASSUME UNCHANGED vars PROVE UNCHANGED <<asked, faults>>
    BY <1>7 DEF vars, owner
<1>8. Faulty => faults' # 0
    BY <1>5, <1>6
<1>9. ~Faulty => UNCHANGED faults
    BY <1>1, <1>2, <1>4, <1>7 DEF Next
<1>10. asked \subseteq asked'
    BY <1>1, <1>2, <1>3, <1>5, <1>7 DEF Next
<1> QED
    BY <1>8, <1>9, <1>10

\* What is known of every call of a line is known of what is left of it.
LEMMA SuffixFrom ==
    ASSUME NEW t, NEW s, Len(s) \in Nat, DOMAIN s = 1 .. Len(s), Suffix(t, s)
    PROVE  \A j \in DOMAIN t : \E i \in DOMAIN s : t[j] = s[i]
<1>1. PICK k \in 0 .. Len(s) : DOMAIN t = 1 .. Len(s) - k /\ \A i \in DOMAIN t : t[i] = s[i + k]
    BY DEF Suffix
<1>2. \A i \in DOMAIN t : i + k \in DOMAIN s /\ t[i] = s[i + k]
    BY <1>1
<1> QED
    BY <1>2

LEMMA RunsKeptStep ==
    ASSUME Inv, OwnerAsked, RunsKept, [Next]_vars
    PROVE  RunsKept'
<1>0. /\ TypeControl /\ TypeData /\ TypeControl'
      /\ handler \in [Subjects -> [pc: Labels, call: Calls \cup {NoCall}, copy: Conversations]]
      /\ Subjects = {"create", "append", "finalize", "archive", "delete"}
    BY InvStep, TypeParts, TypePartsNext DEF Inv, TypeControl, Subjects
<1> SUFFICES ASSUME ~Deleting, ~Deleting' PROVE RunsKept'
    BY <1>0, History DEF RunsKept, Deleting
<1>1. \A q \in Requests : run[q] # "none" => run'[q] # "none"
    BY <1>0, RunStays
<1>2. /\ \A j \in DOMAIN Appending : Appending[j][1] \in Requests
      /\ \A j \in DOMAIN Ends : Ends[j][1] \in Requests
      /\ Len(Appending) \in Nat /\ DOMAIN Appending = 1 .. Len(Appending)
      /\ Len(Ends) \in Nat /\ DOMAIN Ends = 1 .. Len(Ends)
    BY <1>0, AppendingTyped, LinesTyped
<1>3. ASSUME NEW t \in {"append", "finalize"}, Suffix(Line(t)', Line(t))
      PROVE  \A j \in DOMAIN Line(t)' : run'[Line(t)'[j][1]] # "none"
    <2>1. /\ \A j \in DOMAIN Line(t) : Line(t)[j][1] \in Requests /\ run[Line(t)[j][1]] # "none"
          /\ Len(Line(t)) \in Nat /\ DOMAIN Line(t) = 1 .. Len(Line(t))
        BY <1>2 DEF RunsKept, Appending, Ends
    <2>2. \A j \in DOMAIN Line(t)' : \E i \in DOMAIN Line(t) : Line(t)'[j] = Line(t)[i]
        BY <1>3, <2>1, SuffixFrom
    <2> QED
        BY <1>1, <2>1, <2>2
<1>4. ASSUME NEW t \in {"append", "finalize"}, NEW q \in Requests, NEW op, Grows(t, q, op), run[q] # "none"
      PROVE  \A j \in DOMAIN Line(t)' : run'[Line(t)'[j][1]] # "none"
    <2>1. /\ \A j \in DOMAIN Line(t) : Line(t)[j][1] \in Requests /\ run[Line(t)[j][1]] # "none"
          /\ Len(Line(t)) \in Nat /\ DOMAIN Line(t) = 1 .. Len(Line(t))
        BY <1>2 DEF RunsKept, Appending, Ends
    <2>2. \A j \in 1 .. Len(Line(t)) + 1 : j \in DOMAIN Line(t) \/ j = Len(Line(t)) + 1
        BY <2>1
    <2> QED
        BY <1>1, <1>4, <2>1, <2>2 DEF Grows
<1>5. ASSUME NEW t \in {"append", "finalize"}, Line(t)' = Line(t)
      PROVE  \A j \in DOMAIN Line(t)' : run'[Line(t)'[j][1]] # "none"
    <2>1. Line(t) \in Seq(CallsOf(t))
        BY <1>0, LineFacts
    <2> QED
        BY <1>3, <1>5, <2>1, SuffixOfItself
<1>6. ASSUME UNCHANGED messages
      PROVE  \A i \in DOMAIN messages' :
               messages'[i].request \in Requests => run'[messages'[i].request] # "none"
    BY <1>1, <1>6 DEF RunsKept
<1>7. ASSUME handler'["create"] = handler["create"]
      PROVE  (At("create", "putConversation") => run[Caller("create")] # "none")'
    <2>1. At("create", "putConversation") => Caller("create") \in Requests
        BY <1>0, CallerTyped DEF At
    <2> QED
        BY <1>1, <1>7, <2>1 DEF RunsKept, At, Caller
<1>8. ASSUME NEW q \in Requests, RequestStep(q)
      PROVE  RunsKept'
    <2>0. UNCHANGED <<run, messages, handler>> /\ Moves(q)
        BY <1>8, RequestFrame, RequestMoves
    <2>1. CASE Goto(q, "over")
        <3>1. \A t \in Subjects : Line(t)' = Line(t)
            BY <2>0, <2>1, SameLines DEF Goto
        <3>2. \A r \in Requests : (pc'[r] = pc[r] /\ reply'[r] = reply[r]) \/ pc'[r] = "over"
            BY <1>0, <2>1 DEF Goto, TypeControl
        <3> QED
            BY <1>0, <1>1, <1>5, <1>6, <1>7, <2>0, <3>1, <3>2 DEF RunsKept, Appending, Ends
    <2>2. CASE Call(q, "create")
        <3>1. \A t \in {"append", "finalize"} : Line(t)' = Line(t)
            BY <1>0, <2>0, <2>2, CallLines DEF SubjectOf, Ops, Appends, Terminal
        <3>2. \A r \in Requests : (pc'[r] = pc[r] /\ reply'[r] = reply[r])
                                  \/ (pc'[r] = "create" /\ reply'[r] = "none")
            BY <1>0, <2>2 DEF Call, TypeControl
        <3> QED
            BY <1>0, <1>1, <1>5, <1>6, <1>7, <2>0, <3>1, <3>2 DEF RunsKept, Appending, Ends
    <2>3. ASSUME pc[q] \notin {"idle", "create", "over"} \/ (pc[q] = "create" /\ reply[q] = "ok"),
                 NEW at \in {"starting", "streaming"}, Goto(q, at)
          PROVE  RunsKept'
        <3>1. run[q] # "none"
            BY <2>3 DEF RunsKept
        <3>2. \A t \in Subjects : Line(t)' = Line(t)
            BY <2>0, <2>3, SameLines DEF Goto
        <3>3. \A r \in Requests : (pc'[r] = pc[r] /\ reply'[r] = reply[r]) \/ r = q
            BY <1>0, <2>3 DEF Goto, TypeControl
        <3> QED
            BY <1>0, <1>1, <1>5, <1>6, <1>7, <2>0, <3>1, <3>2, <3>3 DEF RunsKept, Appending, Ends
    <2>4. ASSUME pc[q] \notin {"idle", "create", "over"} \/ (pc[q] = "create" /\ reply[q] = "ok"),
                 NEW op \in Ops, Call(q, op)
          PROVE  RunsKept'
        <3>1. run[q] # "none"
            BY <2>4 DEF RunsKept
        <3>2. Grows(SubjectOf(op), q, op) /\ \A t \in Subjects \ {SubjectOf(op)} : Line(t)' = Line(t)
            BY <1>0, <2>0, <2>4, CallLines
        <3>3. \A t \in {"append", "finalize"} : \A j \in DOMAIN Line(t)' : run'[Line(t)'[j][1]] # "none"
            <4> SUFFICES ASSUME NEW t \in {"append", "finalize"}
                         PROVE  \A j \in DOMAIN Line(t)' : run'[Line(t)'[j][1]] # "none"
                OBVIOUS
            <4> QED
                BY <1>0, <1>4, <1>5, <3>1, <3>2
        <3>4. \A r \in Requests : (pc'[r] = pc[r] /\ reply'[r] = reply[r]) \/ r = q
            BY <1>0, <2>4 DEF Call, TypeControl
        <3> QED
            BY <1>0, <1>1, <1>6, <1>7, <2>0, <3>1, <3>3, <3>4 DEF RunsKept, Appending, Ends
    <2>5. \/ Goto(q, "over") \/ Call(q, "create")
          \/ pc[q] \notin {"idle", "create", "over"} \/ (pc[q] = "create" /\ reply[q] = "ok")
        BY <2>0 DEF Moves, BeforeEnd, BeforeCatch, Terminal, Unsuccessful
    <2> QED
        BY <1>8, <2>1, <2>2, <2>3, <2>4, <2>5, RequestFrame
<1>9. ASSUME NEW s \in Subjects, NEW at \in Labels, NEW outcome \in {"ok", "error"},
             Statement(s, at, outcome),
             \A q \in Requests : pc[q] = "create" /\ reply'[q] = "ok" => reply[q] = "ok" \/ run[q] # "none",
             At("create", "putConversation")' => handler'["create"] = handler["create"] \/ CreatePutsRun,
             UNCHANGED messages \/ AppendPutsMessage
      PROVE  RunsKept'
    <2>1. \A t \in {"append", "finalize"} : \A j \in DOMAIN Line(t)' : run'[Line(t)'[j][1]] # "none"
        BY <1>0, <1>3, <1>9, StatementLines
    <2>2. (At("create", "putConversation") => run[Caller("create")] # "none")'
        <3>1. CASE CreatePutsRun
            <4>1. /\ Caller("create") \in Requests /\ At("create", "putRun")
                  /\ handler'["create"].call = handler["create"].call
                BY <1>0, <3>1, CallerTyped DEF CreatePutsRun, At, Proceed
            <4>2. run'[Caller("create")] = "streaming"
                BY <1>0, <3>1, <4>1 DEF CreatePutsRun, TypeData
            <4> QED
                BY <4>1, <4>2 DEF Caller
        <3> QED
            BY <1>7, <1>9, <3>1
    <2>3. \A i \in DOMAIN messages' :
            messages'[i].request \in Requests => run'[messages'[i].request] # "none"
        <3>1. CASE AppendPutsMessage
            <4>1. Pending("append") /\ messages' = Append(messages, Message(Caller("append"), Op("append")))
                BY <3>1 DEF AppendPutsMessage, At, Pending, Unput
            <4>2. run'[Caller("append")] # "none"
                <5>1. 1 \in DOMAIN Appending /\ Appending[1][1] = Caller("append")
                    BY <1>0, <4>1, CallerInLine DEF Appending, Caller
                <5> QED
                    BY <1>1, <1>2, <5>1 DEF RunsKept
            <4> DEFINE m == Message(Caller("append"), Op("append"))
            <4>3. m.request = Caller("append")
                BY DEF Message
            <4> HIDE DEF m
            <4>4. \A i \in DOMAIN messages' : (i \in DOMAIN messages /\ messages'[i] = messages[i]) \/ messages'[i] = m
                <5>1. messages' = Append(messages, m)
                    BY <4>1 DEF m
                <5>2. PICK M : messages \in Seq(M)
                    BY <1>0 DEF TypeData
                <5> QED
                    BY <5>1, <5>2
            <4> QED
                BY <1>1, <4>2, <4>3, <4>4 DEF RunsKept
        <3> QED
            BY <1>6, <1>9, <3>1
    <2>4. \A q \in Requests : \/ pc'[q] \notin {"idle", "create", "over"}
                              \/ pc'[q] = "create" /\ reply'[q] = "ok"
                              => run'[q] # "none"
        BY <1>1, <1>9 DEF RunsKept, Statement, keepsBff
    <2> QED
        BY <2>1, <2>2, <2>3, <2>4 DEF RunsKept, Appending, Ends
<1>10. ASSUME HandlerStep PROVE RunsKept'
    <2>1. ASSUME NEW q \in Requests, pc[q] = "create", reply'[q] = "ok", reply[q] # "ok" PROVE run[q] # "none"
        <3>1. CreatePutsConversation /\ handler["create"].call = <<q, "create">>
            BY <1>0, <1>10, <2>1, OkAnswers DEF SubjectOf, Appends, Terminal
        <3> QED
            BY <3>1 DEF CreatePutsConversation, RunsKept, Caller
    <2>2. UNCHANGED messages \/ AppendPutsMessage
        BY <1>10 DEF OwnerAsked, Deleting, At,
           HandlerStep, CreateReads, CreateChecks, CreatePutsRun, CreatePutsConversation,
           AppendReads, AppendReadsRun, AppendPutsConversation,
           FinalizeReads, FinalizePutsRun, FinalizeReadsConversation, FinalizePutsConversation,
           ArchiveReads, ArchivePuts, DeleteReads, DeleteMessages, DeleteRuns, DeleteConversation, store
    <2>3. At("create", "putConversation")' => handler'["create"] = handler["create"] \/ CreatePutsRun
        <3>1. CASE CreateReads
            BY <1>0, <3>1 DEF CreateReads, Accept, Refuse, At
        <3>2. CASE CreateChecks
            BY <1>0, <3>2 DEF CreateChecks, Proceed, Reply, Idle, At
        <3>3. CASE CreatePutsConversation
            BY <1>0, <3>3 DEF CreatePutsConversation, Reply, Idle, At
        <3>4. CASE CreatePutsRun
            BY <3>4
        <3>5. ASSUME NEW s \in Subjects \ {"create"}, NEW at, NEW outcome, Statement(s, at, outcome)
              PROVE  handler'["create"] = handler["create"]
            BY <1>0, <3>5, StatementFrame
        <3>6. ASSUME ~CreateReads, ~CreateChecks, ~CreatePutsConversation, ~CreatePutsRun
              PROVE  handler'["create"] = handler["create"]
            BY <1>0, <1>10, <3>6
               DEF HandlerStep, AppendReads, AppendReadsRun, AppendPutsMessage, AppendPutsConversation,
               FinalizeReads, FinalizePutsRun, FinalizeReadsConversation, FinalizePutsConversation,
               ArchiveReads, ArchivePuts, DeleteReads, DeleteMessages, DeleteRuns, DeleteConversation,
               Accept, Refuse, Proceed, ProceedWithCopy, Reply
        <3> QED
            BY <3>1, <3>2, <3>3, <3>4, <3>6
    <2> QED
        BY <1>9, <1>10, <2>1, <2>2, <2>3, StatementOfStep
<1>11. ASSUME NEW s \in Subjects, StoreFails(s) PROVE RunsKept'
    <2>1. Statement(s, "idle", "error") /\ UNCHANGED messages /\ "idle" \in Labels
        BY <1>11, StoreFailure DEF store
    <2>2. \A q \in Requests : reply'[q] = "ok" => reply[q] = "ok"
        BY <1>0, <2>1, AnswerOfStatement
    <2>3. At("create", "putConversation")' => handler'["create"] = handler["create"]
        BY <1>0, <1>11 DEF StoreFails, Refuse, Reply, Idle, At
    <2> QED
        BY <1>9, <2>1, <2>2, <2>3
<1>12. CASE ControlPlaneRestarts
    <2>1. /\ UNCHANGED <<run, messages, pc>>
          /\ \A s \in Subjects : inbox'[s] = <<>> /\ handler'[s] = Idle
          /\ \A q \in Requests : reply'[q] = "ok" => reply[q] = "ok"
        BY <1>12 DEF ControlPlaneRestarts, store, keepsBff
    <2>2. \A s \in Subjects : Line(s)' = <<>> /\ ~At(s, "putConversation")'
        BY <2>1 DEF Line, Pending, Unput, At, Idle
    <2> QED
        BY <1>0, <1>1, <1>6, <2>1, <2>2 DEF RunsKept, Appending, Ends
<1>13. ASSUME UNCHANGED <<run, messages, handler, inbox>>,
              \A q \in Requests : \/ pc'[q] = pc[q] /\ (reply'[q] = "ok" => reply[q] = "ok")
                                  \/ pc'[q] = "over"
       PROVE  RunsKept'
    <2>1. \A t \in Subjects : Line(t)' = Line(t)
        BY <1>13, SameLines
    <2> QED
        BY <1>0, <1>1, <1>5, <1>6, <1>7, <1>13, <2>1 DEF RunsKept, Appending, Ends
<1>14. ASSUME BffRestarts \/ UNCHANGED vars \/ \E q \in Requests : CallTimesOut(q) \/ Abort(q) PROVE RunsKept'
    <2>1. UNCHANGED <<run, messages, handler, inbox>>
        BY <1>14 DEF BffRestarts, CallTimesOut, Abort, vars, store, control
    <2>2. \A q \in Requests : \/ pc'[q] = pc[q] /\ (reply'[q] = "ok" => reply[q] = "ok")
                              \/ pc'[q] = "over"
        BY <1>0, <1>14 DEF BffRestarts, CallTimesOut, Abort, vars, bff, keepsBff, TypeControl
    <2> QED
        BY <1>13, <2>1, <2>2
<1>15. ASSUME NEW what \in OwnerCalls, Ask(what) PROVE RunsKept'
    <2>1. /\ UNCHANGED <<run, messages, handler, pc, reply>>
          /\ inbox'["append"] = inbox["append"] /\ inbox'["finalize"] = inbox["finalize"]
        BY <1>0, <1>15, OwnerAssumption DEF Ask, store, bff, TypeControl
    <2>2. \A t \in {"append", "finalize"} : Line(t)' = Line(t)
        BY <2>1 DEF Line, Pending
    <2> QED
        BY <1>0, <1>1, <1>5, <1>6, <1>7, <2>1, <2>2 DEF RunsKept, Appending, Ends
<1> QED
    BY <1>8, <1>10, <1>11, <1>12, <1>14, <1>15 DEF Next, Faulty

-----------------------------------------------------------------------------
(* One run for a key *)

KeyOnce ==
  ~Deleting =>
    \A a, b \in Requests :
      a # b /\ run[a] # "none" /\ run[b] # "none" => input[a].key # input[b].key

\* What the check of the key saw still holds when the run is put.
PutFresh ==
  ~Deleting /\ At("create", "putRun") => ~SubmittedBefore(Caller("create"))

LEMMA CarriedKept ==
    ASSUME TypeData, [Next]_vars, NEW q \in Requests
    PROVE  input'[q].key = input[q].key /\ input'[q].text = input[q].text
<1>1. ASSUME NEW r \in Requests, BeginRequest(r)
      PROVE  input'[q].key = input[q].key /\ input'[q].text = input[q].text
    <2>1. input[r] \in [key: Keys, text: Texts, append: BOOLEAN]
        BY DEF TypeData
    <2>2. CASE UNCHANGED input
        BY <2>2
    <2>3. ASSUME NEW b, input' = [input EXCEPT ![r].append = b]
          PROVE  input'[q].key = input[q].key /\ input'[q].text = input[q].text
        BY <2>1, <2>3 DEF TypeData
    <2> QED
        BY <1>1, <2>2, <2>3 DEF BeginRequest
<1>2. ASSUME NEW r \in Requests, RequestStep(r) \/ Abort(r), ~BeginRequest(r)
      PROVE  UNCHANGED input
    BY <1>2 DEF RequestStep, Abort, RunCreated, UserAppended, EmitStarted, HarnessEvent, HarnessFails,
       HarnessEnds, AnswerAppended, RunCompleted, NoteAppended, RunEnded
<1>3. ASSUME NEW what \in OwnerCalls, Ask(what) PROVE UNCHANGED input
    BY <1>3 DEF Ask, bff
<1>4. ASSUME HandlerStep PROVE UNCHANGED input
    BY <1>4, StatementOfStep DEF Statement, keepsBff
<1>5. ASSUME Faulty PROVE UNCHANGED input
    BY <1>5 DEF Faulty, CallTimesOut, StoreFails, ControlPlaneRestarts, BffRestarts, keepsBff
<1> QED
    BY <1>1, <1>2, <1>3, <1>4, <1>5 DEF Next, vars, bff

\* Only the two statements that put a run, and a deletion, change one.
LEMMA RunWriters ==
    ASSUME TypeControl, TypeData, [Next]_vars
    PROVE  \/ UNCHANGED run
           \/ DeleteRuns
           \/ /\ CreatePutsRun /\ Caller("create") \in Requests
              /\ run'[Caller("create")] = "streaming"
              /\ \A q \in Requests \ {Caller("create")} : run'[q] = run[q]
           \/ /\ FinalizePutsRun /\ Caller("finalize") \in Requests
              /\ run'[Caller("finalize")] = Op("finalize")
              /\ \A q \in Requests \ {Caller("finalize")} : run'[q] = run[q]
<1>1. ASSUME NEW r \in Requests, RequestStep(r) \/ Abort(r) PROVE run' = run
    BY <1>1, RequestFrame DEF Abort, store
<1>2. CASE CreatePutsRun
    <2>1. Caller("create") \in Requests
        BY <1>2, CallerTyped DEF CreatePutsRun, At
    <2> QED
        BY <1>2, <2>1 DEF CreatePutsRun, TypeData
<1>3. CASE FinalizePutsRun
    <2>1. Caller("finalize") \in Requests
        BY <1>3, CallerTyped DEF FinalizePutsRun, At
    <2> QED
        BY <1>3, <2>1 DEF FinalizePutsRun, TypeData
<1>4. ASSUME HandlerStep PROVE CreatePutsRun \/ FinalizePutsRun \/ DeleteRuns \/ run' = run
    BY <1>4 DEF
       HandlerStep, CreateReads, CreateChecks, CreatePutsConversation,
       AppendReads, AppendReadsRun, AppendPutsMessage, AppendPutsConversation,
       FinalizeReads, FinalizeReadsConversation, FinalizePutsConversation,
       ArchiveReads, ArchivePuts, DeleteReads, DeleteMessages, DeleteConversation, store
<1>5. ASSUME Faulty PROVE run' = run
    BY <1>5 DEF Faulty, CallTimesOut, StoreFails, ControlPlaneRestarts, BffRestarts, store
<1> QED
    BY <1>1, <1>2, <1>3, <1>4, <1>5 DEF Next, Ask, store, vars

\* The create handler gets to its put from its check only.
LEMMA CreateHandlerMoves ==
    ASSUME TypeControl, [Next]_vars, At("create", "putRun")'
    PROVE  \/ UNCHANGED handler["create"]
           \/ /\ CreateChecks /\ ~SubmittedBefore(Caller("create")) /\ ActiveRuns = {}
              /\ handler'["create"].call = handler["create"].call
<1>0. /\ handler \in [Subjects -> [pc: Labels, call: Calls \cup {NoCall}, copy: Conversations]]
      /\ Subjects = {"create", "append", "finalize", "archive", "delete"}
    BY DEF TypeControl, Subjects
<1>1. ASSUME NEW q \in Requests, RequestStep(q) \/ Abort(q) PROVE UNCHANGED handler
    BY <1>1, RequestFrame DEF Abort, control
<1>2. ASSUME HandlerStep
      PROVE  CreateChecks \/ CreateReads \/ CreatePutsRun \/ CreatePutsConversation \/ UNCHANGED handler["create"]
    BY <1>0, <1>2
       DEF HandlerStep, AppendReads, AppendReadsRun, AppendPutsMessage, AppendPutsConversation,
       FinalizeReads, FinalizePutsRun, FinalizeReadsConversation, FinalizePutsConversation,
       ArchiveReads, ArchivePuts, DeleteReads, DeleteMessages, DeleteRuns, DeleteConversation,
       Accept, Refuse, Proceed, ProceedWithCopy, Reply
<1>3. CASE CreateChecks
    BY <1>0, <1>3 DEF CreateChecks, Proceed, Reply, Idle, At
<1>4. CASE CreateReads \/ CreatePutsRun \/ CreatePutsConversation
    BY <1>0, <1>4 DEF CreateReads, CreatePutsRun, CreatePutsConversation, Accept, Refuse, Proceed, Reply, Idle, At
<1>5. ASSUME NEW s \in Subjects, StoreFails(s) PROVE UNCHANGED handler["create"]
    BY <1>0, <1>5 DEF StoreFails, Refuse, Reply, Idle, At
<1>6. ASSUME ControlPlaneRestarts PROVE FALSE
    BY <1>0, <1>6 DEF ControlPlaneRestarts, Idle, At
<1> QED
    BY <1>1, <1>2, <1>3, <1>4, <1>5, <1>6
       DEF Next, Faulty, Ask, CallTimesOut, BffRestarts, control, vars

LEMMA KeyOnceStep ==
    ASSUME Inv, OwnerAsked, RunsKept, KeyOnce, PutFresh, [Next]_vars
    PROVE  KeyOnce' /\ PutFresh'
<1>0. TypeControl /\ TypeData /\ TypeControl'
    BY InvStep, TypeParts, TypePartsNext DEF Inv
<1> SUFFICES ASSUME ~Deleting, ~Deleting' PROVE KeyOnce' /\ PutFresh'
    BY <1>0, History DEF KeyOnce, PutFresh, Deleting
<1>1. \A q \in Requests : input'[q].key = input[q].key
    BY <1>0, CarriedKept
<1>2. \A q \in Requests : \/ run'[q] # "none" => run[q] # "none"
                          \/ CreatePutsRun /\ q = Caller("create")
    <2>1. CASE FinalizePutsRun
        <3>1. 1 \in DOMAIN Ends /\ Ends[1][1] = Caller("finalize")
            BY <1>0, <2>1, CallerInLine DEF FinalizePutsRun, At, Pending, Unput, Ends, Caller, Subjects
        <3>2. run[Caller("finalize")] # "none"
            BY <3>1 DEF RunsKept
        <3> QED
            BY <1>0, <2>1, <3>2 DEF FinalizePutsRun, TypeData
    <2>2. CASE DeleteRuns
        BY <2>2 DEF DeleteRuns
    <2> QED
        BY <1>0, <2>1, <2>2, RunWriters
<1>3. KeyOnce'
    <2>1. CASE CreatePutsRun
        <3>1. At("create", "putRun")
            BY <2>1 DEF CreatePutsRun
        <3>2. \A a \in Requests : run[a] # "none" => input[a].key # input[Caller("create")].key
            BY <3>1 DEF PutFresh, SubmittedBefore
        <3> QED
            BY <1>0, <1>1, <1>2, <3>2, CallerTyped, <3>1 DEF KeyOnce, At
    <2>2. CASE ~CreatePutsRun
        BY <1>1, <1>2, <2>2 DEF KeyOnce
    <2> QED
        BY <2>1, <2>2
<1>4. ASSUME At("create", "putRun")'
      PROVE  ~SubmittedBefore(Caller("create"))'
    <2>1. ~CreatePutsRun
        BY <1>0, <1>4 DEF CreatePutsRun, Proceed, At, TypeControl, Subjects
    <2>2. ~SubmittedBefore(Caller("create")) /\ Caller("create")' = Caller("create")
        BY <1>0, <1>4, CreateHandlerMoves DEF PutFresh, At, Caller
    <2>3. Caller("create")' \in Requests
        <3>1. handler'["create"].pc # "idle"
            BY <1>4 DEF At
        <3>2. handler'["create"].call \in CallsOf("create")
            BY <1>0, <3>1 DEF TypeControl, At, Subjects
        <3> QED
            BY <3>2, OwnerAssumption DEF CallsOf, Calls, SubjectOf, Appends, Terminal, Caller
    <2> QED
        BY <1>1, <1>2, <2>1, <2>2, <2>3 DEF SubmittedBefore
<1> QED
    BY <1>3, <1>4 DEF PutFresh

KeptInv == OwnerAsked /\ PresentCopies /\ RunsKept /\ KeyOnce /\ PutFresh

LEMMA KeptInitially == Init => KeptInv
<1> SUFFICES ASSUME Init PROVE KeptInv
    OBVIOUS
<1>1. \A s \in Subjects : handler[s].pc = "idle" /\ inbox[s] = <<>>
    BY DEF Init, Idle
<1>2. \A s \in Subjects : Line(s) = <<>> /\ At(s, "idle") /\ ~At(s, "putConversation") /\ ~At(s, "putRun")
    BY <1>1 DEF Line, Pending, Unput, At
<1>3. Appending = <<>> /\ Ends = <<>> /\ DOMAIN Appending = {} /\ DOMAIN Ends = {}
    BY <1>2 DEF Appending, Ends, Subjects
<1>4. \A q \in Requests : pc[q] = "idle" /\ run[q] = "none"
    BY DEF Init
<1>5. \A i \in DOMAIN messages : messages[i].request = "owner"
    BY DEF Init
<1>6. Present
    BY DEF Init, Present
<1> QED
    BY <1>1, <1>2, <1>3, <1>4, <1>5, <1>6, OwnerAssumption
       DEF KeptInv, OwnerAsked, Deleting, PresentCopies, RunsKept, KeyOnce, PutFresh, Subjects

LEMMA KeptAlways == Spec => [](Inv /\ KeptInv)
<1>1. Inv /\ KeptInv /\ [Next]_vars => KeptInv'
    BY OwnerAskedStep, PresentCopiesStep, RunsKeptStep, KeyOnceStep, TypeParts DEF KeptInv, Inv
<1> QED
    BY <1>1, Initially, InvStep, KeptInitially, PTL DEF Spec

\* A submission that is repeated under its key gets no run, so that nothing is appended
\* for it, also when the first one was given up and is handled late.
THEOREM UserMessageOnceAlways == Spec => []UserMessageOnce
<1>1. Inv /\ KeptInv => UserMessageOnce
    <2> SUFFICES ASSUME Inv, KeptInv, ~Deleting, NEW q1 \in Requests, NEW q2 \in Requests, q1 # q2,
                        input[q1].key = input[q2].key, Message(q1, "user") \in ToSet(messages),
                        NEW i \in DOMAIN messages, MessageOf(q2, "user", i)
                 PROVE  FALSE
        BY DEF UserMessageOnce
    <2>1. PICK j \in DOMAIN messages : messages[j] = Message(q1, "user")
        BY DEF ToSet
    <2>2. messages[j].request = q1 /\ messages[i].request = q2
        BY <2>1 DEF MessageOf, Message
    <2>3. run[q1] # "none" /\ run[q2] # "none"
        BY <2>2 DEF KeptInv, RunsKept
    <2> QED
        BY <2>3 DEF KeptInv, KeyOnce
<1> QED
    BY <1>1, KeptAlways, PTL

-----------------------------------------------------------------------------
(* The messages of a run keep the order of a dialogue *)

Notes == {"cancelNote", "errorNote"}

\* The kinds that may stand before a message of this kind, and the ones a request has
\* sent when it is at this place.
Before(kind) ==
  IF kind = "user" THEN {} ELSE IF kind = "answer" THEN {"user"} ELSE {"user", "answer"}
Sent(at) ==
  IF at \in {"idle", "create"} THEN {}
  ELSE IF at \in {"user", "starting", "streaming"} THEN {"user"}
  ELSE IF at \in {"answer", "completed"} THEN {"user", "answer"}
  ELSE Appends

StoredOrder ==
  \A i, j \in DOMAIN messages :
    /\ i < j
    /\ messages[i].request = messages[j].request
    /\ messages[i].request \in Requests
    => messages[i].kind \in Before(messages[j].kind)

LineOrder ==
  \A i, j \in DOMAIN Appending :
    i < j /\ Appending[i][1] = Appending[j][1] => Appending[i][2] \in Before(Appending[j][2])

StoredBeforeLine ==
  \A i \in DOMAIN messages, j \in DOMAIN Appending :
    messages[i].request = Appending[j][1] => messages[i].kind \in Before(Appending[j][2])

PlaceOrder ==
  \A q \in Requests :
    /\ \A i \in DOMAIN messages :
         messages[i].request = q => messages[i].kind \in Sent(pc[q])
    /\ \A j \in DOMAIN Appending :
         Appending[j][1] = q => Appending[j][2] \in Sent(pc[q])

OrderInv == StoredOrder /\ LineOrder /\ StoredBeforeLine /\ PlaceOrder

\* A line that is worked off, or a deletion, disturbs no order.
LEMMA OrderShrinks ==
    ASSUME TypeControl, OrderInv, messages' = messages \/ messages' = <<>>,
           Suffix(Appending', Appending), \A q \in Requests : Sent(pc[q]) \subseteq Sent(pc'[q])
    PROVE  OrderInv'
<1>1. /\ Len(Appending) \in Nat /\ DOMAIN Appending = 1 .. Len(Appending)
      /\ \A j \in DOMAIN Appending : Appending[j][1] \in Requests
    BY AppendingTyped
<1>2. PICK k \in 0 .. Len(Appending) : /\ DOMAIN Appending' = 1 .. Len(Appending) - k
                                       /\ \A i \in DOMAIN Appending' : Appending'[i] = Appending[i + k]
    BY DEF Suffix
<1>3. /\ \A i \in DOMAIN Appending' : i + k \in DOMAIN Appending /\ i \in Nat
      /\ \A i, j \in DOMAIN Appending' : i < j => i + k < j + k
    BY <1>1, <1>2
<1>4. /\ \A i \in DOMAIN messages' : i \in DOMAIN messages /\ messages'[i] = messages[i]
    OBVIOUS
<1>5. StoredOrder'
    BY <1>4 DEF OrderInv, StoredOrder
<1>6. LineOrder'
    BY <1>2, <1>3 DEF OrderInv, LineOrder
<1>7. StoredBeforeLine'
    BY <1>2, <1>3, <1>4 DEF OrderInv, StoredBeforeLine
<1>8. PlaceOrder'
    BY <1>2, <1>3, <1>4 DEF OrderInv, PlaceOrder
<1> QED
    BY <1>5, <1>6, <1>7, <1>8 DEF OrderInv

\* An append that goes on the line comes after everything its request has sent.
LEMMA OrderGrows ==
    ASSUME TypeControl, OrderInv, messages' = messages, NEW q \in Requests, NEW op \in Appends,
           Grows("append", q, op), Sent(pc[q]) \subseteq Before(op),
           pc'[q] = op, \A r \in Requests \ {q} : pc'[r] = pc[r]
    PROVE  OrderInv'
<1> DEFINE n == Len(Appending)
<1>1. /\ n \in Nat /\ DOMAIN Appending = 1 .. n
      /\ \A j \in DOMAIN Appending : Appending[j][1] \in Requests
    BY AppendingTyped
<1>2. /\ DOMAIN Appending' = 1 .. n + 1
      /\ \A i \in DOMAIN Appending : Appending'[i] = Appending[i]
      /\ Appending'[n + 1] = <<q, op>>
    BY <1>1 DEF Grows, Appending
<1> HIDE DEF n
<1>3. \A i \in DOMAIN Appending' : i \in DOMAIN Appending \/ i = n + 1
    BY <1>1, <1>2
<1>4. \A i \in DOMAIN Appending : i # n + 1 /\ ~(n + 1 < i)
    BY <1>1
<1>5. \A i \in DOMAIN Appending : Appending[i][1] = q => Appending[i][2] \in Before(op)
    BY DEF OrderInv, PlaceOrder
<1>6. \A i \in DOMAIN messages : messages[i].request = q => messages[i].kind \in Before(op)
    BY DEF OrderInv, PlaceOrder
<1>7. StoredOrder'
    BY DEF OrderInv, StoredOrder
<1>8. LineOrder'
    <2> SUFFICES ASSUME NEW i \in DOMAIN Appending', NEW j \in DOMAIN Appending', i < j,
                        Appending'[i][1] = Appending'[j][1]
                 PROVE  Appending'[i][2] \in Before(Appending'[j][2])
        BY DEF LineOrder
    <2>1. i \in DOMAIN Appending
        BY <1>1, <1>2
    <2>2. CASE j \in DOMAIN Appending
        BY <1>2, <2>1, <2>2 DEF OrderInv, LineOrder
    <2>3. CASE j = n + 1
        BY <1>2, <1>5, <2>1, <2>3
    <2> QED
        BY <1>3, <2>2, <2>3
<1>9. StoredBeforeLine'
    BY <1>2, <1>3, <1>6 DEF OrderInv, StoredBeforeLine
<1>10. Before(op) \subseteq Sent(op) /\ op \in Sent(op)
    BY DEF Before, Sent, Appends
<1>11. PlaceOrder'
    BY <1>2, <1>3, <1>5, <1>6, <1>10 DEF OrderInv, PlaceOrder
<1> QED
    BY <1>7, <1>8, <1>9, <1>11 DEF OrderInv

\* Putting a message takes it from the front of the line to the end of the store.
LEMMA OrderPut ==
    ASSUME TypeControl, TypeControl', TypeData, OrderInv, AppendPutsMessage
    PROVE  OrderInv'
<1>1. At("append", "putMessage") /\ Pending("append") /\ UNCHANGED <<pc, inbox>>
    BY DEF AppendPutsMessage, Proceed, At, Pending, Unput, keepsBff
<1>2. handler'["append"].pc = "putConversation" /\ ~Pending("append")'
    BY DEF AppendPutsMessage, Proceed, TypeControl, Pending, Unput, Subjects
<1>3. /\ Line("append")' = inbox["append"]
      /\ Len(Line("append")) = Len(inbox["append"]) + 1
      /\ Line("append")[1] = handler["append"].call
      /\ \A i \in 1 .. Len(inbox["append"]) : Line("append")[i + 1] = inbox["append"][i]
      /\ Len(inbox["append"]) \in Nat /\ DOMAIN inbox["append"] = 1 .. Len(inbox["append"])
    <2>1. "append" \in Subjects
        BY DEF Subjects
    <2>2. inbox["append"] \in Seq(CallsOf("append"))
        BY <2>1 DEF TypeControl
    <2>3. Line("append")' = inbox["append"]
        BY <1>1, <1>2 DEF Line
    <2> QED
        BY <1>1, <2>1, <2>2, <2>3, LineFacts
<1> DEFINE m == Message(Caller("append"), Op("append"))
<1>4. m.request = Caller("append") /\ m.kind = Op("append")
    BY DEF Message
<1>5. messages' = Append(messages, m)
    BY DEF AppendPutsMessage
<1> HIDE DEF m
<1>6. PICK M : messages \in Seq(M)
    BY DEF TypeData
<1>7. /\ Len(messages) \in Nat /\ DOMAIN messages = 1 .. Len(messages)
      /\ DOMAIN messages' = 1 .. Len(messages) + 1
      /\ \A i \in DOMAIN messages : messages'[i] = messages[i]
      /\ messages'[Len(messages) + 1] = m
    BY <1>5, <1>6
<1>8. \A i \in DOMAIN messages' : i \in DOMAIN messages \/ i = Len(messages) + 1
    BY <1>7
<1>9. 1 \in DOMAIN Appending /\ Appending[1][1] = m.request /\ Appending[1][2] = m.kind
    BY <1>1, <1>3, <1>4, CallerInLine DEF Appending, Caller, Op, Subjects
<1>10. \A j \in DOMAIN Appending' : /\ j + 1 \in DOMAIN Appending /\ Appending'[j] = Appending[j + 1]
                                    /\ 1 < j + 1
    <2>1. Len(Appending) = Len(inbox["append"]) + 1 /\ DOMAIN Appending = 1 .. Len(Appending)
        BY <1>3, AppendingTyped DEF Appending
    <2>2. DOMAIN Appending' = 1 .. Len(inbox["append"])
        BY <1>3 DEF Appending
    <2>3. \A j \in 1 .. Len(inbox["append"]) : /\ j + 1 \in 1 .. Len(inbox["append"]) + 1 /\ 1 < j + 1
        BY <1>3
    <2>4. \A j \in DOMAIN Appending' : Appending'[j] = Appending[j + 1]
        BY <1>3, <2>2 DEF Appending
    <2> QED
        BY <2>1, <2>2, <2>3, <2>4
<1>11. \A i, j \in DOMAIN Appending' : i < j => i + 1 < j + 1
    BY <1>3 DEF Appending
<1>12. StoredOrder'
    <2> SUFFICES ASSUME NEW i \in DOMAIN messages', NEW j \in DOMAIN messages', i < j,
                        messages'[i].request = messages'[j].request, messages'[i].request \in Requests
                 PROVE  messages'[i].kind \in Before(messages'[j].kind)
        BY DEF StoredOrder
    <2>1. i \in DOMAIN messages
        BY <1>7
    <2>2. CASE j \in DOMAIN messages
        BY <1>7, <2>1, <2>2 DEF OrderInv, StoredOrder
    <2>3. CASE j = Len(messages) + 1
        BY <1>7, <1>9, <2>1, <2>3 DEF OrderInv, StoredBeforeLine
    <2> QED
        BY <1>8, <2>2, <2>3
<1>13. LineOrder'
    BY <1>10, <1>11 DEF OrderInv, LineOrder
<1>14. StoredBeforeLine'
    <2> SUFFICES ASSUME NEW i \in DOMAIN messages', NEW j \in DOMAIN Appending',
                        messages'[i].request = Appending'[j][1]
                 PROVE  messages'[i].kind \in Before(Appending'[j][2])
        BY DEF StoredBeforeLine
    <2>1. CASE i \in DOMAIN messages
        BY <1>7, <1>10, <2>1 DEF OrderInv, StoredBeforeLine
    <2>2. CASE i = Len(messages) + 1
        BY <1>7, <1>9, <1>10, <2>2 DEF OrderInv, LineOrder
    <2> QED
        BY <1>8, <2>1, <2>2
<1>15. PlaceOrder'
    <2>1. ASSUME NEW q \in Requests, NEW i \in DOMAIN messages', messages'[i].request = q
          PROVE  messages'[i].kind \in Sent(pc[q])
        BY <1>7, <1>8, <1>9, <2>1 DEF OrderInv, PlaceOrder
    <2>2. ASSUME NEW q \in Requests, NEW j \in DOMAIN Appending', Appending'[j][1] = q
          PROVE  Appending'[j][2] \in Sent(pc[q])
        BY <1>10, <2>2 DEF OrderInv, PlaceOrder
    <2> QED
        BY <1>1, <2>1, <2>2 DEF PlaceOrder
<1> QED
    BY <1>12, <1>13, <1>14, <1>15 DEF OrderInv

\* A request sends a message after those that may stand before it.
Sends(q) ==
  \/ \E at : Goto(q, at) /\ Sent(pc[q]) \subseteq Sent(at)
  \/ \E op \in Ops : /\ Call(q, op) /\ Sent(pc[q]) \subseteq Sent(op)
                     /\ op \in Appends => Sent(pc[q]) \subseteq Before(op)

LEMMA RequestSends ==
    ASSUME NEW q \in Requests, RequestStep(q)
    PROVE  Sends(q)
<1>1. ASSUME NEW op \in Ops, Call(q, op), Sent(pc[q]) \subseteq Sent(op),
             op \in Appends => Sent(pc[q]) \subseteq Before(op)
      PROVE  Sends(q)
    BY <1>1 DEF Sends
<1>2. ASSUME NEW at, Goto(q, at), Sent(pc[q]) \subseteq Sent(at) PROVE Sends(q)
    BY <1>2 DEF Sends
<1>3. Goto(q, "over") => Sends(q)
    <2>1. Sent(pc[q]) \subseteq Sent("over")
        BY DEF Sent, Appends
    <2> QED
        BY <1>2, <2>1
<1>4. ASSUME pc[q] \in {"starting", "streaming", "answer", "completed"}, Catch(q) PROVE Sends(q)
    <2>1. \A op \in Notes : Sent(pc[q]) \subseteq Before(op) /\ Sent(pc[q]) \subseteq Sent(op) /\ op \in Ops
        BY <1>4 DEF Sent, Before, Notes, Appends, Ops
    <2>2. \E op \in Notes : Call(q, op)
        BY <1>4 DEF Catch, Notes
    <2> QED
        BY <1>1, <2>1, <2>2
<1>5. CASE BeginRequest(q)
    <2>1. Sent(pc[q]) = {} /\ "create" \in Ops /\ "create" \notin Appends
        BY <1>5 DEF BeginRequest, Sent, Ops, Appends
    <2> QED
        BY <1>1, <1>3, <1>5, <2>1 DEF BeginRequest
<1>6. CASE RunCreated(q)
    <2>1. Sent(pc[q]) = {} /\ "user" \in Ops
        BY <1>6 DEF RunCreated, Answered, Sent, Ops, Appends
    <2>2. CASE Call(q, "user")
        BY <1>1, <2>1, <2>2
    <2>3. CASE Goto(q, "starting")
        BY <1>2, <2>1, <2>3
    <2> QED
        BY <1>3, <1>6, <2>2, <2>3 DEF RunCreated
<1>7. CASE UserAppended(q)
    <2>1. Sent(pc[q]) = Sent("starting")
        BY <1>7 DEF UserAppended, Answered, Sent
    <2> QED
        BY <1>2, <1>3, <1>7, <2>1 DEF UserAppended
<1>8. CASE EmitStarted(q) \/ HarnessEvent(q) \/ HarnessFails(q)
    <2>1. pc[q] \in {"starting", "streaming"} /\ Sent(pc[q]) = Sent("streaming")
        BY <1>8 DEF EmitStarted, HarnessEvent, HarnessFails, Sent
    <2> QED
        BY <1>2, <1>4, <1>8, <2>1 DEF EmitStarted, HarnessEvent, HarnessFails
<1>9. CASE HarnessEnds(q)
    <2>1. \A op \in {"answer", "completed"} : /\ op \in Ops /\ Sent(pc[q]) \subseteq Sent(op)
                                              /\ op \in Appends => Sent(pc[q]) \subseteq Before(op)
        BY <1>9 DEF HarnessEnds, Sent, Before, Ops, Appends, Terminal
    <2> QED
        BY <1>1, <1>9, <2>1 DEF HarnessEnds
<1>10. CASE AnswerAppended(q)
    <2>1. /\ pc[q] = "answer" /\ "completed" \in Ops /\ Sent(pc[q]) \subseteq Sent("completed")
          /\ "completed" \notin Appends
        BY <1>10 DEF AnswerAppended, Answered, Sent, Ops, Appends, Terminal
    <2> QED
        BY <1>1, <1>4, <1>10, <2>1 DEF AnswerAppended
<1>11. CASE RunCompleted(q)
    BY <1>3, <1>4, <1>11 DEF RunCompleted, Answered
<1>12. CASE NoteAppended(q)
    <2>1. \A op \in {"cancelled", "failed"} : op \in Ops /\ Sent(pc[q]) \subseteq Sent(op) /\ op \notin Appends
        BY <1>12 DEF Sent, Ops, Appends, Terminal
    <2> QED
        BY <1>1, <1>3, <1>12, <2>1 DEF NoteAppended
<1>13. CASE RunEnded(q)
    BY <1>3, <1>13 DEF RunEnded
<1> QED
    BY <1>5, <1>6, <1>7, <1>8, <1>9, <1>10, <1>11, <1>12, <1>13 DEF RequestStep

LEMMA OrderInitially == Init => OrderInv
<1> SUFFICES ASSUME Init PROVE OrderInv
    OBVIOUS
<1>1. Appending = <<>> /\ DOMAIN Appending = {}
    BY DEF Init, Appending, Line, Pending, Unput, Idle, Subjects
<1>2. \A i \in DOMAIN messages : messages[i].request \notin Requests
    BY OwnerAssumption DEF Init
<1> QED
    BY <1>1, <1>2 DEF OrderInv, StoredOrder, LineOrder, StoredBeforeLine, PlaceOrder

LEMMA OrderStep == Inv /\ OrderInv /\ [Next]_vars => OrderInv'
<1> SUFFICES ASSUME Inv, OrderInv, [Next]_vars PROVE OrderInv'
    OBVIOUS
<1>0. TypeControl /\ TypeData /\ TypeControl' /\ "append" \in Subjects
    BY InvStep, TypeParts, TypePartsNext DEF Inv, Subjects
<1>1. Suffix(Appending, Appending)
    <2>1. Appending \in Seq(CallsOf("append"))
        BY <1>0, LineFacts DEF Appending
    <2> QED
        BY <2>1, SuffixOfItself
<1>2. \A at : Sent(at) \subseteq Sent("over")
    BY DEF Sent, Appends
<1>3. ASSUME NEW q \in Requests, RequestStep(q) PROVE OrderInv'
    <2>1. UNCHANGED <<messages, handler>>
        BY <1>3, RequestFrame
    <2>2. ASSUME NEW at, Goto(q, at), Sent(pc[q]) \subseteq Sent(at) PROVE OrderInv'
        <3>1. Appending' = Appending
            BY <1>0, <2>1, <2>2, SameLines DEF Goto, Appending
        <3>2. \A r \in Requests : Sent(pc[r]) \subseteq Sent(pc'[r])
            BY <1>0, <2>2 DEF Goto, TypeControl
        <3> QED
            BY <1>0, <1>1, <2>1, <3>1, <3>2, OrderShrinks
    <2>3. ASSUME NEW op \in Ops, Call(q, op), Sent(pc[q]) \subseteq Sent(op),
                 op \in Appends => Sent(pc[q]) \subseteq Before(op)
          PROVE  OrderInv'
        <3>1. pc'[q] = op /\ \A r \in Requests \ {q} : pc'[r] = pc[r]
            BY <1>0, <2>3 DEF Call, TypeControl
        <3>2. /\ Grows(SubjectOf(op), q, op)
              /\ \A t \in Subjects \ {SubjectOf(op)} : Line(t)' = Line(t)
            BY <1>0, <2>1, <2>3, CallLines
        <3>3. CASE op \in Appends
            <4>1. SubjectOf(op) = "append"
                BY <3>3 DEF SubjectOf
            <4> QED
                BY <1>0, <2>1, <2>3, <3>1, <3>2, <3>3, <4>1, OrderGrows
        <3>4. CASE op \notin Appends
            <4>1. SubjectOf(op) # "append"
                BY <3>4 DEF SubjectOf, Ops, Terminal
            <4>2. Appending' = Appending
                BY <1>0, <3>2, <4>1 DEF Appending
            <4>3. \A r \in Requests : Sent(pc[r]) \subseteq Sent(pc'[r])
                BY <2>3, <3>1
            <4> QED
                BY <1>0, <1>1, <2>1, <4>2, <4>3, OrderShrinks
        <3> QED
            BY <3>3, <3>4
    <2> QED
        BY <1>3, <2>2, <2>3, RequestSends DEF Sends
<1>4. ASSUME NEW s \in Subjects, NEW at \in Labels, NEW outcome \in {"ok", "error"},
             Statement(s, at, outcome), messages' = messages \/ messages' = <<>>
      PROVE  OrderInv'
    <2>1. Suffix(Appending', Appending)
        BY <1>0, <1>4, StatementLines DEF Appending
    <2>2. UNCHANGED pc
        BY <1>4 DEF Statement, keepsBff
    <2> QED
        BY <1>0, <1>4, <2>1, <2>2, OrderShrinks
<1>5. CASE HandlerStep
    <2>1. CASE AppendPutsMessage
        BY <1>0, <2>1, OrderPut
    <2>2. CASE ~AppendPutsMessage
        <3>1. messages' = messages \/ messages' = <<>>
            BY <1>5, <2>2 DEF
               HandlerStep, CreateReads, CreateChecks, CreatePutsRun, CreatePutsConversation,
               AppendReads, AppendReadsRun, AppendPutsConversation,
               FinalizeReads, FinalizePutsRun, FinalizeReadsConversation, FinalizePutsConversation,
               ArchiveReads, ArchivePuts, DeleteReads, DeleteMessages, DeleteRuns, DeleteConversation, store
        <3> QED
            BY <1>4, <1>5, <3>1, StatementOfStep
    <2> QED
        BY <2>1, <2>2
<1>6. ASSUME NEW s \in Subjects, StoreFails(s) PROVE OrderInv'
    BY <1>4, <1>6, StoreFailure DEF store
<1>7. CASE ControlPlaneRestarts
    <2>1. /\ UNCHANGED <<messages, pc>>
          /\ inbox'["append"] = <<>> /\ handler'["append"] = Idle
        BY <1>0, <1>7 DEF ControlPlaneRestarts, store, keepsBff
    <2>2. Line("append")' = <<>>
        BY <2>1 DEF Line, Pending, Unput, Idle
    <2>3. Suffix(<<>>, Appending)
        <3>1. Len(Appending) \in Nat
            BY <1>0, AppendingTyped
        <3>2. Len(Appending) \in 0 .. Len(Appending) /\ DOMAIN <<>> = 1 .. Len(Appending) - Len(Appending)
            BY <3>1
        <3> QED
            BY <3>2 DEF Suffix
    <2> QED
        BY <1>0, <2>1, <2>2, <2>3, OrderShrinks DEF Appending
<1>8. ASSUME UNCHANGED messages, Line("append")' = Line("append"),
             \A q \in Requests : pc'[q] = pc[q] \/ pc'[q] = "over"
      PROVE  OrderInv'
    BY <1>0, <1>1, <1>2, <1>8, OrderShrinks DEF Appending
<1>9. ASSUME BffRestarts \/ UNCHANGED vars \/ \E q \in Requests : CallTimesOut(q) \/ Abort(q) PROVE OrderInv'
    <2>1. UNCHANGED <<messages, handler, inbox>>
        BY <1>9 DEF BffRestarts, CallTimesOut, Abort, vars, store, control
    <2>2. \A q \in Requests : pc'[q] = pc[q] \/ pc'[q] = "over"
        BY <1>0, <1>9 DEF BffRestarts, CallTimesOut, Abort, vars, bff, keepsBff, TypeControl
    <2> QED
        BY <1>0, <1>8, <2>1, <2>2, SameLines
<1>10. ASSUME NEW what \in OwnerCalls, Ask(what) PROVE OrderInv'
    <2>1. UNCHANGED <<messages, handler, pc>> /\ inbox'["append"] = inbox["append"]
        BY <1>0, <1>10, OwnerAssumption DEF Ask, store, bff, TypeControl
    <2> QED
        BY <1>8, <2>1 DEF Line, Pending
<1> QED
    BY <1>3, <1>5, <1>6, <1>7, <1>9, <1>10 DEF Next, Faulty

\* The user's message, the answer and the note about the end of a run are stored once
\* each and in this order, whatever is given up, fails or restarts in between.
THEOREM MessagesInOrderAlways == Spec => []MessagesInOrder
<1>1. Inv /\ OrderInv => MessagesInOrder
    <2> SUFFICES ASSUME Inv, OrderInv, NEW q \in Requests, NEW i \in DOMAIN messages,
                        NEW j \in DOMAIN messages, messages[j].request = q
                 PROVE  /\ MessageOf(q, "user", i) => i <= j
                        /\ MessageOf(q, "answer", i) /\ i < j =>
                             messages[j].kind \in {"cancelNote", "errorNote"}
                        /\ MessageOf(q, "cancelNote", i) \/ MessageOf(q, "errorNote", i) => j <= i
        BY DEF MessagesInOrder
    <2>1. PICK T : messages \in Seq([request: Requests \cup {"owner"}, kind: Appends, text: T])
        BY TypeParts DEF Inv, TypeData
    <2> DEFINE M == [request: Requests \cup {"owner"}, kind: Appends, text: T]
    <2>2. i \in Nat /\ j \in Nat /\ messages[j].kind \in Appends
        <3>1. messages \in Seq(M)
            BY <2>1
        <3> HIDE DEF M
        <3>2. messages[j] \in M /\ DOMAIN messages = 1 .. Len(messages) /\ Len(messages) \in Nat
            BY <3>1
        <3>3. messages[j].kind \in Appends
            BY <3>2 DEF M
        <3> QED
            BY <3>2, <3>3
    <2>3. \A kind : MessageOf(q, kind, i) => messages[i].request = q /\ messages[i].kind = kind
        BY DEF MessageOf, Message
    <2>4. messages[i].request = q =>
            /\ i < j => messages[i].kind \in Before(messages[j].kind)
            /\ j < i => messages[j].kind \in Before(messages[i].kind)
        BY DEF OrderInv, StoredOrder
    <2>5. MessageOf(q, "user", i) => i <= j
        BY <2>2, <2>3, <2>4 DEF Before
    <2>6. MessageOf(q, "answer", i) /\ i < j => messages[j].kind \in {"cancelNote", "errorNote"}
        BY <2>2, <2>3, <2>4 DEF Before, Appends
    <2>7. MessageOf(q, "cancelNote", i) \/ MessageOf(q, "errorNote", i) => j <= i
        BY <2>2, <2>3, <2>4 DEF Before
    <2> QED
        BY <2>5, <2>6, <2>7
<1> QED
    BY <1>1, Initially, InvStep, OrderInitially, OrderStep, PTL DEF Spec

-----------------------------------------------------------------------------
(* What the browser is told and what the store says *)

\* The lines of the requests grow by their own calls and are worked off otherwise.
LEMMA LineSteps ==
    ASSUME Inv, [Next]_vars, NEW t \in {"create", "append", "finalize"}
    PROVE  \/ Suffix(Line(t)', Line(t))
           \/ \E q \in Requests, op \in Ops : RequestStep(q) /\ Call(q, op) /\ Grows(t, q, op)
<1>0. TypeControl /\ TypeControl' /\ t \in Subjects
    BY InvStep, TypeParts, TypePartsNext DEF Inv, Subjects
<1>1. Line(t) \in Seq(CallsOf(t))
    BY <1>0, LineFacts
<1>2. Line(t)' = Line(t) => Suffix(Line(t)', Line(t))
    BY <1>1, SuffixOfItself
<1>3. ASSUME NEW q \in Requests, RequestStep(q)
      PROVE  Line(t)' = Line(t) \/ \E op \in Ops : Call(q, op) /\ Grows(t, q, op)
    <2>1. UNCHANGED handler
        BY <1>3, RequestFrame
    <2>2. CASE \E at : Goto(q, at)
        BY <1>0, <2>1, <2>2, SameLines DEF Goto
    <2>3. ASSUME NEW op \in Ops, Call(q, op) PROVE Line(t)' = Line(t) \/ Grows(t, q, op)
        BY <1>0, <2>1, <2>3, CallLines
    <2> QED
        BY <1>3, <2>2, <2>3, RequestFrame
<1>4. ASSUME HandlerStep PROVE Suffix(Line(t)', Line(t))
    BY <1>0, <1>4, StatementOfStep, StatementLines
<1>5. ASSUME NEW s \in Subjects, StoreFails(s) PROVE Suffix(Line(t)', Line(t))
    BY <1>0, <1>5, StoreFailure, StatementLines
<1>6. ASSUME ControlPlaneRestarts PROVE Suffix(Line(t)', Line(t))
    <2>1. inbox'[t] = <<>> /\ handler'[t] = Idle
        BY <1>0, <1>6 DEF ControlPlaneRestarts
    <2>2. inbox'[t] = <<>> /\ ~Pending(t)'
        BY <2>1 DEF Pending, Unput, Idle
    <2> QED
        BY <1>0, <2>2, LineShrinks
<1>7. ASSUME BffRestarts \/ UNCHANGED vars \/ \E q \in Requests : CallTimesOut(q) \/ Abort(q)
      PROVE  Line(t)' = Line(t)
    <2>1. UNCHANGED <<handler, inbox>>
        BY <1>7 DEF BffRestarts, CallTimesOut, Abort, vars, control
    <2> QED
        BY <1>0, <2>1, SameLines
<1>8. ASSUME NEW what \in OwnerCalls, Ask(what) PROVE Line(t)' = Line(t)
    <2>1. handler' = handler /\ inbox'[t] = inbox[t]
        BY <1>0, <1>8, OwnerAssumption DEF Ask, TypeControl
    <2> QED
        BY <2>1 DEF Line, Pending
<1> QED
    BY <1>2, <1>3, <1>4, <1>5, <1>6, <1>7, <1>8 DEF Next, Faulty

\* A request whose step it is not stands where it stood, or is cut off by a fault.
LEMMA Elsewhere ==
    ASSUME Inv, [Next]_vars, NEW q \in Requests, ~RequestStep(q)
    PROVE  /\ parts'[q] = parts[q] /\ emitted'[q] = emitted[q]
           /\ \/ pc'[q] = pc[q]
              \/ Faulty /\ pc'[q] = "over" /\ reply'[q] = "none"
           /\ reply'[q] # reply[q] => HandlerStep \/ Faulty
           /\ reply'[q] = "ok" /\ reply[q] # "ok" => HandlerStep
<1>0. TypeControl /\ TypeData
    BY TypeParts DEF Inv
<1>1. ASSUME NEW r \in Requests, RequestStep(r)
      PROVE  /\ parts'[q] = parts[q] /\ emitted'[q] = emitted[q]
             /\ pc'[q] = pc[q] /\ reply'[q] = reply[q]
    <2>1. r # q
        BY <1>1
    <2>2. pc'[q] = pc[q] /\ reply'[q] = reply[q]
        BY <1>0, <1>1, <2>1, RequestFrame DEF Call, Goto, TypeControl
    <2>3. parts'[q] = parts[q] /\ emitted'[q] = emitted[q]
        BY <1>0, <1>1, <2>1 DEF TypeData, RequestStep, BeginRequest, RunCreated, UserAppended,
           EmitStarted, HarnessEvent, HarnessFails, HarnessEnds, AnswerAppended, RunCompleted,
           NoteAppended, RunEnded
    <2> QED
        BY <2>2, <2>3
<1>2. ASSUME NEW r \in Requests, Abort(r)
      PROVE  UNCHANGED <<parts, emitted, pc, reply>>
    BY <1>2 DEF Abort
<1>3. ASSUME NEW what \in OwnerCalls, Ask(what) PROVE UNCHANGED <<parts, emitted, pc, reply>>
    BY <1>3 DEF Ask, bff
<1>4. ASSUME HandlerStep PROVE UNCHANGED <<parts, emitted, pc>>
    BY <1>4, StatementOfStep DEF Statement, keepsBff
<1>5. ASSUME NEW s \in Subjects, StoreFails(s)
      PROVE  UNCHANGED <<parts, emitted, pc>> /\ (reply'[q] # reply[q] => reply'[q] = "error")
    BY <1>0, <1>5, StoreFailure, AnswerOfStatement DEF Statement, keepsBff
<1>6. ASSUME ControlPlaneRestarts \/ \E r \in Requests : CallTimesOut(r)
      PROVE  UNCHANGED <<parts, emitted, pc>> /\ (reply'[q] # reply[q] => reply'[q] = "error")
    BY <1>0, <1>6 DEF ControlPlaneRestarts, CallTimesOut, keepsBff, TypeControl
<1>7. ASSUME BffRestarts
      PROVE  UNCHANGED <<parts, emitted>> /\ pc'[q] \in {pc[q], "over"} /\ reply'[q] = "none"
    BY <1>0, <1>7 DEF BffRestarts, TypeControl
<1>8. ASSUME UNCHANGED vars PROVE UNCHANGED <<parts, emitted, pc, reply>>
    BY <1>8 DEF vars, bff
<1>9. ASSUME Faulty
      PROVE  /\ UNCHANGED <<parts, emitted>> /\ (reply'[q] = "ok" => reply[q] = "ok")
             /\ pc'[q] = pc[q] \/ (pc'[q] = "over" /\ reply'[q] = "none")
    BY <1>5, <1>6, <1>7, <1>9 DEF Faulty
<1> QED
    BY <1>1, <1>2, <1>3, <1>4, <1>8, <1>9 DEF Next

\* No end is added for a request that makes no call.
LEMMA EndsOfOthers ==
    ASSUME Inv, [Next]_vars, NEW q \in Requests, ~RequestStep(q) \/ Goto(q, "over"),
           NEW j \in DOMAIN Ends', Ends'[j][1] = q
    PROVE  \E i \in DOMAIN Ends : Ends[i] = Ends'[j]
<1>0. TypeControl /\ Len(Ends) \in Nat /\ DOMAIN Ends = 1 .. Len(Ends)
    BY TypeParts, LinesTyped DEF Inv
<1>1. CASE Suffix(Ends', Ends)
    BY <1>0, <1>1, SuffixFrom
<1>2. ASSUME NEW r \in Requests, NEW op \in Ops, RequestStep(r), Call(r, op), Grows("finalize", r, op)
      PROVE  \E i \in DOMAIN Ends : Ends[i] = Ends'[j]
    <2>1. /\ DOMAIN Ends' = 1 .. Len(Ends) + 1
          /\ \A i \in 1 .. Len(Ends) : Ends'[i] = Ends[i]
          /\ Ends'[Len(Ends) + 1] = <<r, op>>
        BY <1>2 DEF Grows, Ends
    <2>2. r # q
        <3>1. CASE Goto(q, "over") /\ r = q
            BY <1>0, <1>2, <3>1 DEF Goto, Call, TypeControl, Ops, Appends, Terminal
        <3> QED
            BY <1>2, <3>1
    <2>3. j # Len(Ends) + 1
        BY <2>1, <2>2
    <2> QED
        BY <1>0, <2>1, <2>3
<1> QED
    BY <1>1, <1>2, LineSteps DEF Ends

Stored(q, kind) == \E i \in DOMAIN messages : messages[i] = Message(q, kind)

FinalizeDone ==
  ~Deleting /\ handler["finalize"].pc \in {"readConversation", "putConversation"} =>
    run[Caller("finalize")] = Op("finalize")

AppendDone ==
  ~Deleting /\ At("append", "putConversation") => Stored(Caller("append"), Op("append"))

\* What a request was told was done is done.
OkDone ==
  ~Deleting =>
    \A q \in Requests :
      reply[q] = "ok" =>
        /\ pc[q] \in Terminal => run[q] = pc[q]
        /\ pc[q] \in Appends => Stored(q, pc[q])

CompletedAnswer ==
  ~Deleting =>
    \A q \in Requests : pc[q] = "completed" /\ parts[q] = TRUE => Stored(q, "answer")

\* A run that was reported as completed stays completed.
Reported ==
  \A q \in Requests :
    emitted[q] = "completed" =>
      /\ pc[q] = "over"
      /\ \A j \in DOMAIN Ends : Ends[j][1] = q => Ends[j][2] = "completed"
      /\ ~Deleting => /\ run[q] = "completed"
                      /\ parts[q] = TRUE => Stored(q, "answer")

\* Undisturbed, no end and no note of a run that is there is refused ...
NoError ==
  Undisturbed =>
    \A q \in Requests : pc[q] \in Notes \cup Terminal \cup {"user"} => reply[q] # "error"

\* ... and a run that was not reported as completed never is.
Unreported ==
  Undisturbed =>
    \A q \in Requests :
      pc[q] = "over" /\ emitted[q] # "completed" =>
        /\ run[q] # "completed"
        /\ \A j \in DOMAIN Ends : Ends[j][1] = q => Ends[j][2] # "completed"

ReportInv ==
  FinalizeDone /\ AppendDone /\ OkDone /\ CompletedAnswer /\ Reported /\ NoError /\ Unreported

Safe == Inv /\ EndsInv /\ KeptInv

\* A message that is stored stays until the conversation is deleted.
LEMMA StoredStays ==
    ASSUME Safe, [Next]_vars, ~Deleting, NEW q \in Requests, NEW kind, Stored(q, kind)
    PROVE  Stored(q, kind)'
<1>0. TypeControl /\ TypeData /\ OwnerAsked
    BY TypeParts DEF Safe, Inv, KeptInv
<1>1. Message(q, kind)' = Message(q, kind)
    BY <1>0, CarriedKept DEF Message
<1>2. ASSUME NEW r \in Requests, RequestStep(r) \/ Abort(r) PROVE UNCHANGED messages
    BY <1>2, RequestFrame DEF Abort, store
<1>3. ASSUME HandlerStep PROVE UNCHANGED messages \/ AppendPutsMessage
    BY <1>0, <1>3 DEF OwnerAsked, Deleting, At,
       HandlerStep, CreateReads, CreateChecks, CreatePutsRun, CreatePutsConversation,
       AppendReads, AppendReadsRun, AppendPutsConversation,
       FinalizeReads, FinalizePutsRun, FinalizeReadsConversation, FinalizePutsConversation,
       ArchiveReads, ArchivePuts, DeleteReads, DeleteMessages, DeleteRuns, DeleteConversation, store
<1>4. ASSUME Faulty \/ UNCHANGED vars \/ \E what \in OwnerCalls : Ask(what) PROVE UNCHANGED messages
    BY <1>4 DEF Faulty, CallTimesOut, StoreFails, ControlPlaneRestarts, BffRestarts, Ask, vars, store
<1>5. UNCHANGED messages \/ AppendPutsMessage
    BY <1>2, <1>3, <1>4 DEF Next
<1>6. \A i \in DOMAIN messages : i \in DOMAIN messages' /\ messages'[i] = messages[i]
    <2>1. CASE AppendPutsMessage
        <3> DEFINE m == Message(Caller("append"), Op("append"))
        <3>1. messages' = Append(messages, m)
            BY <2>1 DEF AppendPutsMessage
        <3> HIDE DEF m
        <3>2. PICK M : messages \in Seq(M)
            BY <1>0 DEF TypeData
        <3> QED
            BY <3>1, <3>2
    <2> QED
        BY <1>5, <2>1
<1> QED
    BY <1>1, <1>6 DEF Stored

\* A run that is there changes only to an end that stands first in the line.
LEMMA RunChanges ==
    ASSUME Safe, [Next]_vars, ~Deleting, NEW q \in Requests, run'[q] # run[q]
    PROVE  \/ run[q] = "none" /\ run'[q] = "streaming"
           \/ /\ FinalizePutsRun /\ 1 \in DOMAIN Ends /\ Ends[1] = <<q, run'[q]>>
<1>0. TypeControl /\ TypeData /\ OwnerAsked
    BY TypeParts DEF Safe, Inv, KeptInv
<1>1. CASE CreatePutsRun /\ q = Caller("create") /\ run'[q] = "streaming"
    <2>1. At("create", "putRun") /\ Pending("create") /\ "create" \in Subjects
        BY <1>1 DEF CreatePutsRun, At, Pending, Unput, Subjects
    <2>2. 1 \in DOMAIN Creates /\ Creates[1][1] = q
        BY <1>0, <1>1, <2>1, CallerInLine DEF Creates, Caller
    <2>3. run[q] = "none"
        BY <2>2 DEF Safe, EndsInv, CreatedOnce
    <2> QED
        BY <1>1, <2>3
<1>2. CASE FinalizePutsRun /\ q = Caller("finalize") /\ run'[q] = Op("finalize")
    <2>1. At("finalize", "putRun") /\ Pending("finalize") /\ "finalize" \in Subjects
        BY <1>2 DEF FinalizePutsRun, At, Pending, Unput, Subjects
    <2>2. 1 \in DOMAIN Ends /\ Ends[1] = handler["finalize"].call
        BY <1>0, <2>1, CallerInLine DEF Ends
    <2>3. Ends[1] = <<q, run'[q]>>
        <3>1. handler["finalize"].call \in CallsOf("finalize")
            BY <1>0, <2>1 DEF TypeControl, At
        <3> QED
            BY <1>2, <2>2, <3>1 DEF CallsOf, Calls, Caller, Op
    <2> QED
        BY <1>2, <2>2, <2>3
<1>3. ~DeleteRuns
    BY <1>0 DEF DeleteRuns, Deleting, OwnerAsked, At
<1> QED
    BY <1>0, <1>1, <1>2, <1>3, RunWriters

\* The finalize handler is past its put, or the append handler, because of the put.
LEMMA FinalizeHandlerMoves ==
    ASSUME TypeControl, [Next]_vars,
           handler'["finalize"].pc \in {"readConversation", "putConversation"}
    PROVE  \/ UNCHANGED handler["finalize"]
           \/ /\ FinalizePutsRun \/ handler["finalize"].pc = "readConversation"
              /\ handler'["finalize"].call = handler["finalize"].call
<1>0. /\ handler \in [Subjects -> [pc: Labels, call: Calls \cup {NoCall}, copy: Conversations]]
      /\ Subjects = {"create", "append", "finalize", "archive", "delete"}
    BY DEF TypeControl, Subjects
<1>1. ASSUME NEW q \in Requests, RequestStep(q) \/ Abort(q) PROVE UNCHANGED handler
    BY <1>1, RequestFrame DEF Abort, control
<1>2. ASSUME HandlerStep
      PROVE  \/ FinalizeReads \/ FinalizePutsRun \/ FinalizeReadsConversation
             \/ FinalizePutsConversation \/ UNCHANGED handler["finalize"]
    BY <1>0, <1>2
       DEF HandlerStep, CreateReads, CreateChecks, CreatePutsRun, CreatePutsConversation,
       AppendReads, AppendReadsRun, AppendPutsMessage, AppendPutsConversation,
       ArchiveReads, ArchivePuts, DeleteReads, DeleteMessages, DeleteRuns, DeleteConversation,
       Accept, Refuse, Proceed, Reply
<1>3. CASE FinalizeReads
    BY <1>0, <1>3 DEF FinalizeReads, Accept, Refuse
<1>4. CASE FinalizePutsRun
    BY <1>0, <1>4 DEF FinalizePutsRun, Proceed
<1>5. CASE FinalizeReadsConversation
    BY <1>0, <1>5 DEF FinalizeReadsConversation, ProceedWithCopy, Reply, Idle, At
<1>6. CASE FinalizePutsConversation
    BY <1>0, <1>6 DEF FinalizePutsConversation, Reply, Idle
<1>7. ASSUME NEW s \in Subjects, StoreFails(s) PROVE UNCHANGED handler["finalize"]
    BY <1>0, <1>7 DEF StoreFails, Refuse, Reply, Idle
<1>8. ASSUME ControlPlaneRestarts PROVE FALSE
    BY <1>0, <1>8 DEF ControlPlaneRestarts, Idle
<1> QED
    BY <1>1, <1>2, <1>3, <1>4, <1>5, <1>6, <1>7, <1>8
       DEF Next, Faulty, Ask, CallTimesOut, BffRestarts, control, vars

LEMMA AppendHandlerMoves ==
    ASSUME TypeControl, [Next]_vars, At("append", "putConversation")'
    PROVE  \/ UNCHANGED handler["append"]
           \/ AppendPutsMessage /\ handler'["append"].call = handler["append"].call
<1>0. /\ handler \in [Subjects -> [pc: Labels, call: Calls \cup {NoCall}, copy: Conversations]]
      /\ Subjects = {"create", "append", "finalize", "archive", "delete"}
    BY DEF TypeControl, Subjects
<1>1. ASSUME NEW q \in Requests, RequestStep(q) \/ Abort(q) PROVE UNCHANGED handler
    BY <1>1, RequestFrame DEF Abort, control
<1>2. ASSUME HandlerStep
      PROVE  \/ AppendReads \/ AppendReadsRun \/ AppendPutsMessage
             \/ AppendPutsConversation \/ UNCHANGED handler["append"]
    BY <1>0, <1>2
       DEF HandlerStep, CreateReads, CreateChecks, CreatePutsRun, CreatePutsConversation,
       FinalizeReads, FinalizePutsRun, FinalizeReadsConversation, FinalizePutsConversation,
       ArchiveReads, ArchivePuts, DeleteReads, DeleteMessages, DeleteRuns, DeleteConversation,
       Accept, Refuse, Proceed, ProceedWithCopy, Reply
<1>3. CASE AppendReads
    BY <1>0, <1>3 DEF AppendReads, Accept, Refuse, At
<1>4. CASE AppendReadsRun
    BY <1>0, <1>4 DEF AppendReadsRun, Proceed, Reply, Idle, At
<1>5. CASE AppendPutsMessage
    BY <1>0, <1>5 DEF AppendPutsMessage, Proceed
<1>6. CASE AppendPutsConversation
    BY <1>0, <1>6 DEF AppendPutsConversation, Reply, Idle, At
<1>7. ASSUME NEW s \in Subjects, StoreFails(s) PROVE UNCHANGED handler["append"]
    BY <1>0, <1>7 DEF StoreFails, Refuse, Reply, Idle, At
<1>8. ASSUME ControlPlaneRestarts PROVE FALSE
    BY <1>0, <1>8 DEF ControlPlaneRestarts, Idle, At
<1> QED
    BY <1>1, <1>2, <1>3, <1>4, <1>5, <1>6, <1>7, <1>8
       DEF Next, Faulty, Ask, CallTimesOut, BffRestarts, control, vars

LEMMA SafeParts ==
    ASSUME Safe, [Next]_vars
    PROVE  /\ TypeControl /\ TypeData /\ TypeControl' /\ Safe'
           /\ ~Deleting' => ~Deleting
           /\ Undisturbed' => Undisturbed /\ ~Faulty
<1>1. TypeControl /\ TypeData /\ TypeControl' /\ Inv' /\ EndsInv'
    BY InvStep, EndsStep, TypeParts, TypePartsNext DEF Safe, Inv
<1>2. KeptInv'
    BY OwnerAskedStep, PresentCopiesStep, RunsKeptStep, KeyOnceStep, TypeParts DEF Safe, KeptInv, Inv
<1> QED
    BY <1>1, <1>2, History DEF Safe, Deleting, Undisturbed

LEMMA FinalizeDoneStep ==
    ASSUME Safe, ReportInv, [Next]_vars
    PROVE  FinalizeDone'
<1>0. TypeControl /\ TypeData /\ TypeControl'
    BY SafeParts
<1> SUFFICES ASSUME ~Deleting, ~Deleting', handler'["finalize"].pc \in {"readConversation", "putConversation"}
             PROVE  run'[Caller("finalize")'] = Op("finalize")'
    BY SafeParts DEF FinalizeDone
<1>1. CASE FinalizePutsRun
    <2>1. Caller("finalize") \in Requests /\ At("finalize", "putRun")
        BY <1>0, <1>1, CallerTyped DEF FinalizePutsRun, At
    <2>2. handler'["finalize"].call = handler["finalize"].call
        BY <1>0, <1>1 DEF FinalizePutsRun, Proceed, TypeControl, Subjects
    <2> QED
        BY <1>0, <1>1, <2>1, <2>2 DEF FinalizePutsRun, TypeData, Caller, Op
<1>2. CASE ~FinalizePutsRun
    <2>1. /\ handler["finalize"].pc \in {"readConversation", "putConversation"}
          /\ handler'["finalize"].call = handler["finalize"].call
        BY <1>0, <1>2, FinalizeHandlerMoves
    <2>2. Caller("finalize") \in Requests /\ Op("finalize") \in Terminal
        BY <1>0, <2>1, CallerTyped DEF At
    <2>3. run[Caller("finalize")] = Op("finalize")
        BY <2>1 DEF ReportInv, FinalizeDone
    <2>4. run'[Caller("finalize")] = run[Caller("finalize")]
        BY <1>2, <2>2, <2>3, RunChanges DEF Terminal
    <2> QED
        BY <2>1, <2>3, <2>4 DEF Caller, Op
<1> QED
    BY <1>1, <1>2

LEMMA AppendDoneStep ==
    ASSUME Safe, ReportInv, [Next]_vars
    PROVE  AppendDone'
<1>0. TypeControl /\ TypeData /\ TypeControl'
    BY SafeParts
<1> SUFFICES ASSUME ~Deleting, ~Deleting', At("append", "putConversation")'
             PROVE  Stored(Caller("append"), Op("append"))'
    BY SafeParts DEF AppendDone
<1>1. CASE AppendPutsMessage
    <2>1. handler'["append"].call = handler["append"].call /\ UNCHANGED input
        BY <1>0, <1>1 DEF AppendPutsMessage, Proceed, TypeControl, Subjects, keepsBff
    <2> DEFINE m == Message(Caller("append"), Op("append"))
    <2>2. Message(Caller("append"), Op("append"))' = m
        BY <2>1 DEF Message, Caller, Op
    <2>3. messages' = Append(messages, m)
        BY <1>1 DEF AppendPutsMessage
    <2> HIDE DEF m
    <2>4. PICK M : messages \in Seq(M)
        BY <1>0 DEF TypeData
    <2>5. Len(messages) + 1 \in DOMAIN messages' /\ messages'[Len(messages) + 1] = m
        BY <2>3, <2>4
    <2> QED
        BY <2>2, <2>5 DEF Stored
<1>2. CASE ~AppendPutsMessage
    <2>1. At("append", "putConversation") /\ handler'["append"].call = handler["append"].call
        BY <1>0, <1>2, AppendHandlerMoves DEF At
    <2>2. Caller("append") \in Requests
        BY <1>0, <2>1, CallerTyped DEF At
    <2>3. Stored(Caller("append"), Op("append"))
        BY <2>1 DEF ReportInv, AppendDone
    <2> DEFINE a == Caller("append")
               o == Op("append")
    <2>4. Caller("append")' = a /\ Op("append")' = o
        BY <2>1 DEF Caller, Op
    <2>5. \E i \in DOMAIN messages' : messages'[i] = Message(a, o)
        BY <1>0, <2>2, <2>3, StoredStays, CarriedKept DEF Stored, Message
    <2> QED
        BY <1>0, <2>2, <2>4, <2>5, CarriedKept DEF Stored, Message
<1> QED
    BY <1>1, <1>2

\* What an answer says holds when it is given, and nothing takes it back while the request
\* has not gone on.
LEMMA OkDoneStep ==
    ASSUME Safe, ReportInv, [Next]_vars
    PROVE  OkDone'
<1>0. TypeControl /\ TypeData /\ TypeControl'
    BY SafeParts
<1> SUFFICES ASSUME ~Deleting, ~Deleting', NEW q \in Requests, reply'[q] = "ok"
             PROVE  /\ pc'[q] \in Terminal => run'[q] = pc'[q]
                    /\ pc'[q] \in Appends => Stored(q, pc[q])'
    BY SafeParts DEF OkDone
<1>1. ~RequestStep(q) /\ pc'[q] = pc[q]
    <2>1. RequestStep(q) => reply'[q] = "none"
        BY <1>0, RequestFrame DEF Call, Goto, TypeControl
    <2> QED
        BY <2>1, Elsewhere DEF Safe
<1>2. /\ pc[q] \in Terminal => run[q] = pc[q]
      /\ pc[q] \in Appends => Stored(q, pc[q])
    <2>1. CASE reply[q] = "ok"
        BY <2>1 DEF ReportInv, OkDone
    <2>2. CASE reply[q] # "ok"
        <3>1. HandlerStep
            BY <1>1, <2>2, Elsewhere DEF Safe
        <3>2. CASE pc[q] = "create"
            BY <3>2 DEF Terminal, Appends
        <3>3. CASE /\ SubjectOf(pc[q]) = "append" /\ AppendPutsConversation
                   /\ handler["append"].call = <<q, pc[q]>>
            <4>1. Stored(q, pc[q])
                BY <3>3 DEF AppendPutsConversation, ReportInv, AppendDone, Caller, Op
            <4>2. pc[q] \notin Terminal
                BY <3>3 DEF SubjectOf, Appends, Terminal
            <4> QED
                BY <4>1, <4>2
        <3>4. CASE /\ SubjectOf(pc[q]) = "finalize"
                   /\ (FinalizeReadsConversation /\ ~Present) \/ FinalizePutsConversation
                   /\ handler["finalize"].call = <<q, pc[q]>>
            <4>1. Present
                BY DEF Safe, KeptInv, PresentCopies
            <4>2. run[q] = pc[q]
                BY <3>4, <4>1 DEF FinalizePutsConversation, At, ReportInv, FinalizeDone, Caller, Op
            <4>3. pc[q] \notin Appends
                BY <3>4 DEF SubjectOf, Appends, Terminal
            <4> QED
                BY <4>2, <4>3
        <3> QED
            BY <1>0, <2>2, <3>1, <3>2, <3>3, <3>4, OkAnswers
    <2> QED
        BY <2>1, <2>2
<1>3. ASSUME pc[q] \in Terminal PROVE run'[q] = run[q]
    <2> SUFFICES ASSUME run'[q] # run[q] PROVE FALSE
        OBVIOUS
    <2>1. run[q] = pc[q] /\ run[q] # "none"
        BY <1>2, <1>3 DEF Terminal
    <2>2. 1 \in DOMAIN Ends /\ Ends[1] = <<q, run'[q]>>
        BY <2>1, RunChanges
    <2>3. pc[q] = "completed" => run'[q] = "completed"
        BY <2>2 DEF Safe, EndsInv, EndsOfPlace, BeforeCatch
    <2>4. pc[q] \in Unsuccessful => run'[q] = pc[q]
        BY <2>1, <2>2 DEF Safe, EndsInv, UnsuccessfulIsLast
    <2> QED
        BY <1>3, <2>1, <2>3, <2>4 DEF Terminal, Unsuccessful
<1> DEFINE kind == pc[q]
<1>4. ASSUME pc[q] \in Appends PROVE \E i \in DOMAIN messages' : messages'[i] = Message(q, kind)
    BY <1>0, <1>2, <1>4, StoredStays, CarriedKept DEF Stored, Message
<1>5. ASSUME pc[q] \in Appends PROVE Stored(q, pc[q])'
    BY <1>0, <1>1, <1>4, <1>5, CarriedKept DEF Stored, Message
<1> QED
    BY <1>1, <1>2, <1>3, <1>5

LEMMA CompletedAnswerStep ==
    ASSUME Safe, ReportInv, [Next]_vars
    PROVE  CompletedAnswer'
<1>0. TypeControl /\ TypeData /\ TypeControl'
    BY SafeParts
<1> SUFFICES ASSUME ~Deleting, ~Deleting', NEW q \in Requests, pc'[q] = "completed", parts'[q] = TRUE
             PROVE  Stored(q, "answer")'
    BY SafeParts DEF CompletedAnswer
<1>1. Stored(q, "answer")
    <2>1. CASE RequestStep(q)
        <3>1. CASE HarnessEnds(q)
            <4>1. parts[q] = TRUE
                BY <3>1 DEF HarnessEnds
            <4>2. pc'[q] = "answer"
                BY <1>0, <3>1, <4>1 DEF HarnessEnds, Call, TypeControl
            <4> QED
                BY <4>2
        <3>2. CASE AnswerAppended(q)
            <4>1. pc[q] = "answer" /\ reply[q] = "ok"
                BY <1>0, <3>2 DEF AnswerAppended, Answered, Catch, Call, TypeControl
            <4> QED
                BY <4>1 DEF ReportInv, OkDone, Appends
        <3>3. CASE ~HarnessEnds(q) /\ ~AnswerAppended(q)
            BY <1>0, <2>1, <3>3
               DEF RequestStep, BeginRequest, RunCreated, UserAppended, EmitStarted, HarnessEvent,
                   HarnessFails, RunCompleted, NoteAppended, RunEnded, Catch, Call, Goto, TypeControl
        <3> QED
            BY <3>1, <3>2, <3>3
    <2>2. CASE ~RequestStep(q)
        <3>1. pc[q] = "completed" /\ parts[q] = TRUE
            BY <2>2, Elsewhere DEF Safe
        <3> QED
            BY <3>1 DEF ReportInv, CompletedAnswer
    <2> QED
        BY <2>1, <2>2
<1> QED
    BY <1>1, StoredStays

LEMMA ReportedStep ==
    ASSUME Safe, ReportInv, [Next]_vars
    PROVE  Reported'
<1>0. TypeControl /\ TypeData /\ TypeControl' /\ (~Deleting' => ~Deleting)
    BY SafeParts
<1> SUFFICES ASSUME NEW q \in Requests, emitted'[q] = "completed"
             PROVE  /\ pc'[q] = "over"
                    /\ \A j \in DOMAIN Ends' : Ends'[j][1] = q => Ends'[j][2] = "completed"
                    /\ ~Deleting' => /\ run'[q] = "completed"
                                     /\ parts'[q] = TRUE => Stored(q, "answer")'
    BY DEF Reported
<1>1. /\ pc'[q] = "over" /\ parts'[q] = parts[q]
      /\ ~RequestStep(q) \/ Goto(q, "over")
      /\ \A j \in DOMAIN Ends : Ends[j][1] = q => Ends[j][2] = "completed"
      /\ ~Deleting => /\ run[q] = "completed"
                      /\ parts[q] = TRUE => Stored(q, "answer")
    <2>1. CASE emitted[q] = "completed"
        <3>1. pc[q] = "over"
            BY <2>1 DEF ReportInv, Reported
        <3>2. ~RequestStep(q)
            BY <3>1, RequestMoves DEF Moves, Goto, RequestStep, BeginRequest, RunCreated, UserAppended,
               EmitStarted, HarnessEvent, HarnessFails, HarnessEnds, AnswerAppended, RunCompleted,
               NoteAppended, RunEnded, Answered
        <3>3. pc'[q] = "over" /\ parts'[q] = parts[q]
            BY <3>1, <3>2, Elsewhere DEF Safe
        <3> QED
            BY <2>1, <3>2, <3>3 DEF ReportInv, Reported
    <2>2. CASE emitted[q] # "completed"
        <3>1. RequestStep(q)
            BY <2>2, Elsewhere DEF Safe
        <3>2. RunCompleted(q)
            BY <1>0, <2>2, <3>1
               DEF TypeData, RequestStep, BeginRequest, RunCreated, UserAppended, EmitStarted,
                   HarnessEvent, HarnessFails, HarnessEnds, AnswerAppended, NoteAppended, RunEnded
        <3>3. pc[q] = "completed" /\ reply[q] = "ok" /\ Goto(q, "over") /\ UNCHANGED parts
            BY <2>2, <3>2 DEF RunCompleted, Answered
        <3>4. pc'[q] = "over"
            BY <1>0, <3>3 DEF Goto, TypeControl
        <3>5. \A j \in DOMAIN Ends : Ends[j][1] = q => Ends[j][2] = "completed"
            BY <3>3 DEF Safe, EndsInv, EndsOfPlace, BeforeCatch
        <3>6. ~Deleting => run[q] = "completed"
            BY <3>3 DEF ReportInv, OkDone, Terminal
        <3>7. ~Deleting /\ parts[q] = TRUE => Stored(q, "answer")
            BY <3>3 DEF ReportInv, CompletedAnswer
        <3> QED
            BY <3>3, <3>4, <3>5, <3>6, <3>7
    <2> QED
        BY <2>1, <2>2
<1>2. \A j \in DOMAIN Ends' : Ends'[j][1] = q => Ends'[j][2] = "completed"
    BY <1>1, EndsOfOthers DEF Safe
<1>3. ASSUME ~Deleting' PROVE run'[q] = "completed"
    <2>1. ~Deleting /\ run[q] = "completed"
        BY <1>0, <1>1, <1>3
    <2>2. run'[q] # run[q] => 1 \in DOMAIN Ends /\ Ends[1] = <<q, run'[q]>>
        BY <2>1, RunChanges
    <2>3. run'[q] # run[q] => run'[q] = "completed"
        BY <1>1, <2>2
    <2> QED
        BY <2>1, <2>3
<1>4. ~Deleting' /\ parts'[q] = TRUE => Stored(q, "answer")'
    BY <1>0, <1>1, StoredStays
<1> QED
    BY <1>1, <1>2, <1>3, <1>4

LEMMA NoErrorStep ==
    ASSUME Safe, ReportInv, [Next]_vars
    PROVE  NoError'
<1>0. TypeControl /\ TypeData /\ TypeControl'
    BY SafeParts
<1> SUFFICES ASSUME Undisturbed, ~Faulty, NEW q \in Requests,
                    pc'[q] \in Notes \cup Terminal \cup {"user"}, reply'[q] = "error"
             PROVE  FALSE
    BY SafeParts DEF NoError
<1>1. ~RequestStep(q) /\ pc'[q] = pc[q]
    <2>1. RequestStep(q) => reply'[q] = "none"
        BY <1>0, RequestFrame DEF Call, Goto, TypeControl
    <2> QED
        BY <2>1, Elsewhere DEF Safe
<1>2. reply[q] # "error"
    BY <1>1 DEF ReportInv, NoError
<1>3. HandlerStep
    BY <1>1, <1>2, Elsewhere DEF Safe
<1>4. ~Deleting /\ Present
    BY DEF Undisturbed, Safe, KeptInv, PresentCopies
<1>5. pc[q] # "create" /\ pc[q] # "answer"
    BY <1>1 DEF Notes, Terminal
<1>6. run[q] # "none"
    <2>1. pc[q] \notin {"idle", "create", "over"}
        BY <1>1 DEF Notes, Terminal
    <2> QED
        BY <1>4, <2>1 DEF Safe, KeptInv, RunsKept
<1> QED
    BY <1>0, <1>2, <1>3, <1>4, <1>5, <1>6, ErrorAnswers

LEMMA UnreportedStep ==
    ASSUME Safe, ReportInv, [Next]_vars
    PROVE  Unreported'
<1>0. TypeControl /\ TypeData /\ TypeControl'
    BY SafeParts
<1> SUFFICES ASSUME Undisturbed, ~Faulty, NEW q \in Requests, pc'[q] = "over", emitted'[q] # "completed"
             PROVE  /\ run'[q] # "completed"
                    /\ \A j \in DOMAIN Ends' : Ends'[j][1] = q => Ends'[j][2] # "completed"
    BY SafeParts DEF Unreported
<1>1. /\ ~RequestStep(q) \/ Goto(q, "over")
      /\ run[q] # "completed"
      /\ \A j \in DOMAIN Ends : Ends[j][1] = q => Ends[j][2] # "completed"
    <2>1. CASE ~RequestStep(q)
        <3>1. pc[q] = "over" /\ emitted[q] # "completed"
            BY <2>1, Elsewhere DEF Safe
        <3> QED
            BY <2>1, <3>1 DEF ReportInv, Unreported
    <2>2. CASE RequestStep(q)
        <3>1. Goto(q, "over")
            <4>1. \A op \in Ops : Call(q, op) => pc'[q] = op
                BY <1>0 DEF Call, TypeControl
            <4>2. \A at : Goto(q, at) => pc'[q] = at
                BY <1>0 DEF Goto, TypeControl
            <4> QED
                BY <2>2, <4>1, <4>2, RequestFrame DEF Ops, Appends, Terminal
        <3>2. /\ run[q] # "completed"
              /\ \A j \in DOMAIN Ends : Ends[j][1] = q => Ends[j][2] # "completed"
            <4>1. CASE pc[q] \in BeforeEnd
                BY <4>1 DEF Safe, EndsInv, EndsOfPlace
            <4>2. CASE pc[q] = "completed" \/ pc[q] \in Notes
                <5>1. reply[q] # "error"
                    BY <4>2 DEF ReportInv, NoError, Terminal
                <5>2. RunCompleted(q) \/ NoteAppended(q)
                    BY <2>2, <4>2
                       DEF RequestStep, BeginRequest, RunCreated, UserAppended, EmitStarted, HarnessEvent,
                           HarnessFails, HarnessEnds, AnswerAppended, RunEnded, Answered, Notes
                <5>3. \A op \in Ops : ~Call(q, op)
                    BY <1>0, <3>1 DEF Call, Goto, TypeControl, Ops, Appends, Terminal
                <5>4. RunCompleted(q) => emitted'[q] = "completed"
                    <6>1. ~Catch(q)
                        BY <5>3 DEF Catch, Ops, Appends
                    <6> QED
                        BY <1>0, <6>1 DEF RunCompleted, TypeData
                <5>5. ~NoteAppended(q)
                    BY <5>1, <5>3 DEF NoteAppended, Answered, Ops, Terminal
                <5> QED
                    BY <5>2, <5>4, <5>5
            <4>3. CASE pc[q] \in Unsuccessful
                <5>1. reply[q] # "error"
                    BY <4>3 DEF ReportInv, NoError, Terminal, Unsuccessful
                <5>2. RunEnded(q)
                    BY <2>2, <4>3
                       DEF RequestStep, BeginRequest, RunCreated, UserAppended, EmitStarted, HarnessEvent,
                           HarnessFails, HarnessEnds, AnswerAppended, RunCompleted, NoteAppended, Answered,
                           Unsuccessful
                <5>3. reply[q] = "ok"
                    BY <1>0, <5>1, <5>2 DEF RunEnded, Answered, TypeControl
                <5>4. run[q] = pc[q]
                    BY <4>3, <5>3 DEF ReportInv, OkDone, Undisturbed, Terminal, Unsuccessful
                <5>5. \A j \in DOMAIN Ends : Ends[j][1] = q => Ends[j][2] = pc[q]
                    BY <4>3, <5>4 DEF Safe, EndsInv, UnsuccessfulIsLast
                <5> QED
                    BY <4>3, <5>4, <5>5 DEF Unsuccessful
            <4>4. pc[q] # "over"
                BY <2>2
                   DEF RequestStep, BeginRequest, RunCreated, UserAppended, EmitStarted, HarnessEvent,
                       HarnessFails, HarnessEnds, AnswerAppended, RunCompleted, NoteAppended, RunEnded, Answered
            <4> QED
                BY <1>0, <4>1, <4>2, <4>3, <4>4
                   DEF TypeControl, Ops, Appends, Terminal, BeforeEnd, Notes, Unsuccessful
        <3> QED
            BY <3>1, <3>2
    <2> QED
        BY <2>1, <2>2
<1>2. \A j \in DOMAIN Ends' : Ends'[j][1] = q => Ends'[j][2] # "completed"
    BY <1>1, EndsOfOthers DEF Safe
<1>3. run'[q] # "completed"
    <2>1. run'[q] # run[q] =>
            run'[q] = "streaming" \/ (1 \in DOMAIN Ends /\ Ends[1] = <<q, run'[q]>>)
        BY RunChanges DEF Undisturbed
    <2> QED
        BY <1>1, <2>1
<1> QED
    BY <1>2, <1>3

LEMMA ReportInitially == Init => ReportInv
<1> SUFFICES ASSUME Init PROVE ReportInv
    OBVIOUS
<1>1. \A s \in Subjects : handler[s].pc = "idle"
    BY DEF Init, Idle
<1>2. \A q \in Requests : /\ pc[q] = "idle" /\ reply[q] = "none" /\ emitted[q] = "none"
    BY DEF Init
<1> QED
    BY <1>1, <1>2 DEF ReportInv, FinalizeDone, AppendDone, OkDone, CompletedAnswer, Reported, NoError,
       Unreported, Subjects, At, Notes, Terminal

LEMMA SafeAlways == Spec => []Safe
    BY InvariantHolds, KeptAlways, Initially, InvStep, EndsInitially, EndsStep, PTL DEF Spec, Safe

LEMMA ReportAlways == Spec => [](Safe /\ ReportInv)
<1>1. Safe /\ ReportInv /\ [Next]_vars => ReportInv'
    BY FinalizeDoneStep, AppendDoneStep, OkDoneStep, CompletedAnswerStep, ReportedStep, NoErrorStep,
       UnreportedStep DEF ReportInv
<1> QED
    BY <1>1, ReportInitially, SafeAlways, PTL DEF Spec

\* A run whose completion the browser was told of is recorded as completed and its answer
\* is stored, whatever timed out or restarted; undisturbed, a run whose completion the
\* browser was not told of is not recorded as completed.
THEOREM CompletedIffReportedAlways == Spec => []CompletedIffReported
<1>1. Safe /\ ReportInv => CompletedIffReported
    <2> SUFFICES ASSUME Safe, ReportInv, NEW q \in Requests
                 PROVE  /\ emitted[q] = "completed" /\ ~Deleting =>
                             /\ run[q] = "completed"
                             /\ parts[q] => Message(q, "answer") \in ToSet(messages)
                        /\ pc[q] = "over" /\ emitted[q] # "completed" /\ Undisturbed =>
                             run[q] # "completed"
        BY DEF CompletedIffReported
    <2>1. pc[q] = "over" /\ emitted[q] # "completed" /\ Undisturbed => run[q] # "completed"
        BY DEF ReportInv, Unreported
    <2>2. emitted[q] = "completed" /\ ~Deleting =>
            run[q] = "completed" /\ (parts[q] = TRUE => Stored(q, "answer"))
        BY DEF ReportInv, Reported
    <2>3. Stored(q, "answer") => Message(q, "answer") \in ToSet(messages)
        BY DEF Stored, ToSet
    <2>4. parts[q] = TRUE \/ parts[q] = FALSE
        BY TypeParts DEF Safe, Inv, TypeData
    <2> QED
        BY <2>1, <2>2, <2>3, <2>4
<1> QED
    BY <1>1, ReportAlways, PTL

-----------------------------------------------------------------------------
(* Without faults no call is given up, and no status is left behind *)

\* The calls of a subject that are not answered.
Open(s) == IF At(s, "idle") THEN inbox[s] ELSE <<handler[s].call>> \o inbox[s]

Asking == {"create", "append", "finalize"}

\* The request of every unanswered call waits for it, and made it once.
Waiting ==
  faults = 0 =>
    \A s \in Asking :
      /\ \A i \in DOMAIN Open(s) :
           pc[Open(s)[i][1]] = Open(s)[i][2] /\ reply[Open(s)[i][1]] = "none"
      /\ \A i, j \in DOMAIN Open(s) : Open(s)[i] = Open(s)[j] => i = j

LEMMA OpenFacts ==
    ASSUME TypeControl, NEW s \in Subjects
    PROVE  /\ Open(s) \in Seq(CallsOf(s))
           /\ Len(Open(s)) \in Nat /\ DOMAIN Open(s) = 1 .. Len(Open(s))
           /\ ~At(s, "idle") =>
                /\ Len(Open(s)) = Len(inbox[s]) + 1 /\ 1 \in DOMAIN Open(s)
                /\ Open(s)[1] = handler[s].call
                /\ \A i \in 1 .. Len(inbox[s]) : Open(s)[i + 1] = inbox[s][i]
           /\ At(s, "idle") => Open(s) = inbox[s]
<1>1. inbox[s] \in Seq(CallsOf(s)) /\ (~At(s, "idle") => handler[s].call \in CallsOf(s))
    BY DEF TypeControl
<1>2. Len(inbox[s]) \in Nat
    BY <1>1
<1>3. ~At(s, "idle") =>
        /\ Open(s) \in Seq(CallsOf(s))
        /\ Len(Open(s)) = Len(inbox[s]) + 1
        /\ Open(s)[1] = handler[s].call
        /\ \A i \in 1 .. Len(inbox[s]) : Open(s)[i + 1] = inbox[s][i]
    BY <1>1, ConsFacts DEF Open
<1>4. At(s, "idle") => Open(s) = inbox[s]
    BY DEF Open
<1>5. Open(s) \in Seq(CallsOf(s))
    BY <1>1, <1>3, <1>4
<1>6. Len(Open(s)) \in Nat /\ DOMAIN Open(s) = 1 .. Len(Open(s))
    BY <1>5
<1>7. ASSUME ~At(s, "idle") PROVE 1 \in DOMAIN Open(s)
    <2>1. Len(Open(s)) = Len(inbox[s]) + 1
        BY <1>3, <1>7
    <2>2. Len(Open(s)) >= 1
        BY <1>2, <2>1
    <2> QED
        BY <1>6, <2>2
<1> QED
    BY <1>3, <1>4, <1>5, <1>6, <1>7

\* A statement answers the oldest of the unanswered calls, or none.
AnswersOldest(s) ==
  /\ Len(Open(s)) >= 1
  /\ DOMAIN Open(s)' = 1 .. Len(Open(s)) - 1
  /\ \A i \in DOMAIN Open(s)' : Open(s)'[i] = Open(s)[i + 1]
  /\ \E outcome : ReplyTo(Open(s)[1], outcome)

LEMMA OpenSteps ==
    ASSUME TypeControl, TypeControl', NEW s \in Subjects, NEW at \in Labels \ {"idle"},
           NEW outcome \in {"ok", "error"}, Statement(s, at, outcome)
    PROVE  /\ \A t \in Subjects \ {s} : Open(t)' = Open(t)
           /\ (Open(s)' = Open(s) /\ UNCHANGED reply) \/ AnswersOldest(s)
<1>0. /\ handler \in [Subjects -> [pc: Labels, call: Calls \cup {NoCall}, copy: Conversations]]
      /\ DOMAIN inbox = Subjects /\ inbox[s] \in Seq(CallsOf(s))
      /\ Len(inbox[s]) \in Nat /\ DOMAIN inbox[s] = 1 .. Len(inbox[s])
    BY DEF TypeControl
<1>1. \A t \in Subjects \ {s} : Open(t)' = Open(t)
    BY StatementFrame DEF Open, At
<1>2. CASE Takes(s) /\ Accept(s, at)
    <2>1. /\ At(s, "idle") /\ inbox[s] # <<>> /\ inbox'[s] = RemoveAt(inbox[s], 1)
          /\ ~At(s, "idle")' /\ handler'[s].call = inbox[s][1] /\ UNCHANGED reply
        BY <1>0, <1>2 DEF Takes, Accept, Oldest, FirstInLine, At
    <2>2. Open(s) = inbox[s] /\ Open(s)' = <<inbox[s][1]>> \o RemoveAt(inbox[s], 1)
        BY <2>1 DEF Open
    <2>3. inbox[s][1] \in CallsOf(s) /\ RemoveAt(inbox[s], 1) \in Seq(CallsOf(s))
        BY <1>0, <2>1, QueueFacts
    <2>4. /\ Len(inbox[s]) >= 1 /\ Len(RemoveAt(inbox[s], 1)) = Len(inbox[s]) - 1
          /\ \A i \in 1 .. Len(inbox[s]) - 1 : RemoveAt(inbox[s], 1)[i] = inbox[s][i + 1]
        BY <1>0, <2>1, QueueRest
    <2> DEFINE rest == RemoveAt(inbox[s], 1)
               whole == <<inbox[s][1]>> \o rest
    <2>5. /\ whole \in Seq(CallsOf(s)) /\ Len(whole) = Len(rest) + 1 /\ whole[1] = inbox[s][1]
          /\ \A i \in 1 .. Len(rest) : whole[i + 1] = rest[i]
        BY <2>3, ConsFacts
    <2>6. whole = inbox[s]
        <3> HIDE DEF whole, rest
        <3>0. Len(rest) = Len(inbox[s]) - 1 /\ \A i \in 1 .. Len(rest) : rest[i] = inbox[s][i + 1]
            BY <2>4 DEF rest
        <3>1. Len(whole) = Len(inbox[s])
            BY <1>0, <2>5, <3>0
        <3>2. ASSUME NEW i \in 1 .. Len(inbox[s]) PROVE whole[i] = inbox[s][i]
            <4>1. CASE i = 1
                BY <2>5, <4>1
            <4>2. CASE i # 1
                <5>1. i - 1 \in 1 .. Len(rest) /\ (i - 1) + 1 = i
                    BY <1>0, <3>0, <4>2
                <5>2. whole[(i - 1) + 1] = rest[i - 1] /\ rest[i - 1] = inbox[s][(i - 1) + 1]
                    BY <2>5, <3>0, <5>1
                <5> QED
                    BY <5>1, <5>2
            <4> QED
                BY <4>1, <4>2
        <3> QED
            BY <1>0, <2>5, <3>1, <3>2
    <2> QED
        BY <1>1, <2>1, <2>2, <2>6
<1>3. CASE Takes(s) /\ Refuse(s)
    <2>1. /\ At(s, "idle") /\ inbox[s] # <<>> /\ inbox'[s] = RemoveAt(inbox[s], 1)
          /\ UNCHANGED handler /\ ReplyTo(inbox[s][1], "error")
        BY <1>0, <1>3 DEF Takes, Refuse, Oldest, FirstInLine
    <2>2. Open(s) = inbox[s] /\ Open(s)' = RemoveAt(inbox[s], 1)
        BY <2>1 DEF Open, At
    <2>3. /\ Len(inbox[s]) >= 1 /\ Len(RemoveAt(inbox[s], 1)) = Len(inbox[s]) - 1
          /\ \A i \in 1 .. Len(inbox[s]) - 1 : RemoveAt(inbox[s], 1)[i] = inbox[s][i + 1]
          /\ RemoveAt(inbox[s], 1) \in Seq(CallsOf(s))
        BY <1>0, <2>1, QueueRest, QueueFacts
    <2>4. DOMAIN Open(s)' = 1 .. Len(inbox[s]) - 1
        BY <2>2, <2>3
    <2> QED
        BY <1>1, <2>1, <2>2, <2>3, <2>4 DEF AnswersOldest
<1>4. CASE ~At(s, "idle") /\ Reply(s, outcome)
    <2>1. inbox'[s] = inbox[s] /\ At(s, "idle")' /\ ReplyTo(handler[s].call, outcome)
        BY <1>0, <1>4 DEF Reply, Idle, At
    <2>2. /\ Len(Open(s)) = Len(inbox[s]) + 1 /\ Open(s)[1] = handler[s].call
          /\ \A i \in 1 .. Len(inbox[s]) : Open(s)[i + 1] = inbox[s][i]
          /\ Open(s)' = inbox[s]
        BY <1>4, <2>1, OpenFacts DEF Open
    <2>3. Len(Open(s)) >= 1 /\ DOMAIN Open(s)' = 1 .. Len(Open(s)) - 1
        BY <1>0, <2>2
    <2>4. \A i \in DOMAIN Open(s)' : Open(s)'[i] = Open(s)[i + 1]
        BY <1>0, <2>2
    <2> QED
        BY <1>1, <2>1, <2>2, <2>3, <2>4 DEF AnswersOldest
<1>5. CASE ~At(s, "idle") /\ (Proceed(s, at) \/ ProceedWithCopy(s, at))
    <2>1. /\ inbox'[s] = inbox[s] /\ UNCHANGED reply
          /\ handler'[s].pc = at /\ handler'[s].call = handler[s].call
        BY <1>0, <1>5 DEF Proceed, ProceedWithCopy
    <2>2. Open(s)' = Open(s)
        BY <1>5, <2>1 DEF Open, At
    <2> QED
        BY <1>1, <2>1, <2>2
<1> QED
    BY <1>2, <1>3, <1>4, <1>5 DEF Statement

LEMMA OpenGrows ==
    ASSUME TypeControl, NEW q \in Requests, NEW op \in Ops, Call(q, op), UNCHANGED handler
    PROVE  /\ \A t \in Subjects \ {SubjectOf(op)} : Open(t)' = Open(t)
           /\ DOMAIN Open(SubjectOf(op))' = 1 .. Len(Open(SubjectOf(op))) + 1
           /\ \A i \in DOMAIN Open(SubjectOf(op)) : Open(SubjectOf(op))'[i] = Open(SubjectOf(op))[i]
           /\ Open(SubjectOf(op))'[Len(Open(SubjectOf(op))) + 1] = <<q, op>>
<1> DEFINE s == SubjectOf(op)
           call == <<q, op>>
<1>1. s \in Subjects /\ call \in CallsOf(s)
    BY SubjectsOfOps DEF CallsOf, Calls
<1>2. inbox' = [inbox EXCEPT ![s] = Append(@, call)] /\ DOMAIN inbox = Subjects
    BY DEF Call, TypeControl
<1> HIDE DEF call, s
<1>3. \A t \in Subjects \ {s} : Open(t)' = Open(t)
    BY <1>2 DEF Open, At
<1>4. inbox'[s] = Append(inbox[s], call) /\ handler'[s] = handler[s]
    BY <1>1, <1>2
<1>5. Open(s)' = Append(Open(s), call)
    <2>1. inbox[s] \in Seq(CallsOf(s)) /\ (~At(s, "idle") => handler[s].call \in CallsOf(s))
        BY <1>1 DEF TypeControl
    <2>2. CASE At(s, "idle")
        BY <1>4, <2>2 DEF Open, At
    <2>3. CASE ~At(s, "idle")
        <3>1. Open(s)' = <<handler[s].call>> \o Append(inbox[s], call)
            BY <1>4, <2>3 DEF Open, At
        <3>2. Open(s) = <<handler[s].call>> \o inbox[s]
            BY <2>3 DEF Open
        <3> QED
            BY <1>1, <2>1, <2>3, <3>1, <3>2
    <2> QED
        BY <2>2, <2>3
<1>6. Open(s) \in Seq(CallsOf(s)) /\ Len(Open(s)) \in Nat /\ DOMAIN Open(s) = 1 .. Len(Open(s))
    BY <1>1, OpenFacts
<1>7. /\ DOMAIN Open(s)' = 1 .. Len(Open(s)) + 1
      /\ \A i \in DOMAIN Open(s) : Open(s)'[i] = Open(s)[i]
      /\ Open(s)'[Len(Open(s)) + 1] = call
    BY <1>1, <1>5, <1>6
<1> QED
    BY <1>3, <1>7 DEF s, call

\* A request goes on only when it is answered.
LEMMA RequestAnswered ==
    ASSUME TypeControl, NEW q \in Requests, RequestStep(q)
    PROVE  ~(pc[q] \in Ops /\ reply[q] = "none")
    BY DEF RequestStep, BeginRequest, RunCreated, UserAppended, EmitStarted, HarnessEvent, HarnessFails,
       HarnessEnds, AnswerAppended, RunCompleted, NoteAppended, RunEnded, Answered, Ops, Appends, Terminal

LEMMA OpenTyped ==
    ASSUME TypeControl, NEW s \in Asking
    PROVE  /\ s \in Subjects
           /\ \A i \in DOMAIN Open(s) :
                /\ Open(s)[i][1] \in Requests /\ Open(s)[i][2] \in Ops
                /\ SubjectOf(Open(s)[i][2]) = s
                /\ Open(s)[i] = <<Open(s)[i][1], Open(s)[i][2]>>
<1>1. s \in Subjects
    BY DEF Asking, Subjects
<1>2. \A call \in CallsOf(s) : /\ call[1] \in Requests /\ call[2] \in Ops
                               /\ SubjectOf(call[2]) = s /\ call = <<call[1], call[2]>>
    BY OwnerAssumption DEF CallsOf, Calls, SubjectOf, Asking, Appends, Terminal
<1>3. \A i \in DOMAIN Open(s) : Open(s)[i] \in CallsOf(s)
    BY <1>1, OpenFacts
<1> QED
    BY <1>1, <1>2, <1>3

LEMMA WaitingKept ==
    ASSUME TypeControl, Waiting, faults = 0,
           \A s \in Asking : Open(s)' = Open(s),
           \A q \in Requests : pc[q] \in Ops /\ reply[q] = "none" => pc'[q] = pc[q] /\ reply'[q] = "none"
    PROVE  Waiting'
<1>1. ASSUME NEW s \in Asking, NEW i \in DOMAIN Open(s)
      PROVE  pc'[Open(s)[i][1]] = Open(s)[i][2] /\ reply'[Open(s)[i][1]] = "none"
    <2>1. Open(s)[i][1] \in Requests /\ Open(s)[i][2] \in Ops
        BY OpenTyped
    <2>2. pc[Open(s)[i][1]] = Open(s)[i][2] /\ reply[Open(s)[i][1]] = "none"
        BY DEF Waiting
    <2> QED
        BY <2>1, <2>2
<1> QED
    BY <1>1 DEF Waiting

LEMMA WaitingAnswers ==
    ASSUME TypeControl, Waiting, faults = 0, NEW s \in Subjects, UNCHANGED pc,
           \A t \in Subjects \ {s} : Open(t)' = Open(t), AnswersOldest(s)
    PROVE  Waiting'
<1>1. PICK outcome : ReplyTo(Open(s)[1], outcome)
    BY DEF AnswersOldest
<1>2. /\ Len(Open(s)) \in Nat /\ DOMAIN Open(s) = 1 .. Len(Open(s)) /\ 1 \in DOMAIN Open(s)
    BY OpenFacts DEF AnswersOldest
<1>3. CASE s \notin Asking
    <2>1. Open(s)[1] \in CallsOf(s)
        BY <1>2, OpenFacts
    <2>2. Open(s)[1][1] = "owner"
        <3>1. s \in {"archive", "delete"}
            BY <1>3 DEF Subjects, Asking
        <3> QED
            BY <2>1, <3>1 DEF CallsOf, Calls, SubjectOf, Ops, Appends, Terminal
    <2>3. UNCHANGED reply
        BY <1>1, <2>2 DEF ReplyTo
    <2>4. \A t \in Asking : Open(t)' = Open(t)
        BY <1>3, OpenTyped
    <2> QED
        BY <2>3, <2>4, WaitingKept
<1>4. CASE s \in Asking
    <2> DEFINE q == Open(s)[1][1]
    <2>1. /\ q \in Requests /\ Open(s)[1][2] = pc[q] /\ reply[q] = "none" /\ Open(s)[1] = <<q, pc[q]>>
          /\ SubjectOf(pc[q]) = s
        BY <1>2, <1>4, OpenTyped DEF Waiting
    <2>2. \A r \in Requests \ {q} : reply'[r] = reply[r]
        BY <1>1, <2>1, OwnerAssumption DEF ReplyTo, TypeControl
    <2> HIDE DEF q
    <2>3. ASSUME NEW t \in Asking, NEW i \in DOMAIN Open(t)'
          PROVE  \E j \in DOMAIN Open(t) : /\ Open(t)'[i] = Open(t)[j]
                                           /\ j = (IF t = s THEN i + 1 ELSE i)
                                           /\ Open(t)[j][1] # q
        <3>1. CASE t = s
            <4>1. i \in Nat /\ i >= 1 /\ i + 1 \in DOMAIN Open(s) /\ Open(s)'[i] = Open(s)[i + 1]
                BY <1>2, <2>3, <3>1 DEF AnswersOldest
            <4>2. i + 1 # 1
                BY <4>1
            <4>3. Open(s)[i + 1] # Open(s)[1]
                BY <1>2, <1>4, <4>1, <4>2 DEF Waiting
            <4>4. /\ Open(s)[i + 1] = <<Open(s)[i + 1][1], Open(s)[i + 1][2]>>
                  /\ Open(s)[i + 1][2] = pc[Open(s)[i + 1][1]]
                BY <1>4, <4>1, OpenTyped DEF Waiting
            <4>5. Open(s)[i + 1][1] # q
                BY <2>1, <4>3, <4>4
            <4> QED
                BY <3>1, <4>1, <4>5
        <3>2. CASE t # s
            <4>1. Open(t)' = Open(t)
                BY <3>2, OpenTyped
            <4>2. i \in DOMAIN Open(t) /\ SubjectOf(Open(t)[i][2]) = t /\ pc[Open(t)[i][1]] = Open(t)[i][2]
                BY <2>3, <4>1, OpenTyped DEF Waiting
            <4>3. Open(t)[i][1] # q
                BY <2>1, <3>2, <4>2
            <4> QED
                BY <3>2, <4>1, <4>2, <4>3
        <3> QED
            BY <3>1, <3>2
    <2>4. ASSUME NEW t \in Asking, NEW i \in DOMAIN Open(t)'
          PROVE  pc'[Open(t)'[i][1]] = Open(t)'[i][2] /\ reply'[Open(t)'[i][1]] = "none"
        <3>1. PICK j \in DOMAIN Open(t) : Open(t)'[i] = Open(t)[j] /\ Open(t)[j][1] # q
            BY <2>3
        <3>2. pc[Open(t)[j][1]] = Open(t)[j][2] /\ reply[Open(t)[j][1]] = "none" /\ Open(t)[j][1] \in Requests
            BY OpenTyped DEF Waiting
        <3> QED
            BY <2>2, <3>1, <3>2
    <2>5. ASSUME NEW t \in Asking, NEW i \in DOMAIN Open(t)', NEW k \in DOMAIN Open(t)', Open(t)'[i] = Open(t)'[k]
          PROVE  i = k
        <3>1. CASE t = s
            <4>1. i + 1 \in DOMAIN Open(t) /\ k + 1 \in DOMAIN Open(t) /\ Open(t)[i + 1] = Open(t)[k + 1]
                BY <2>3, <2>5, <3>1
            <4>2. i + 1 = k + 1
                BY <4>1 DEF Waiting
            <4>3. i \in Nat /\ k \in Nat
                BY <1>2, <2>5, <3>1 DEF AnswersOldest
            <4> QED
                BY <4>2, <4>3
        <3>2. CASE t # s
            BY <2>3, <2>5, <3>2 DEF Waiting
        <3> QED
            BY <3>1, <3>2
    <2> QED
        BY <2>4, <2>5 DEF Waiting
<1> QED
    BY <1>3, <1>4

LEMMA WaitingGrows ==
    ASSUME TypeControl, Waiting, faults = 0, NEW q \in Requests, NEW op \in Ops, Call(q, op),
           UNCHANGED handler, ~(pc[q] \in Ops /\ reply[q] = "none")
    PROVE  Waiting'
<1> DEFINE s == SubjectOf(op)
<1>1. /\ pc'[q] = op /\ reply'[q] = "none"
      /\ \A r \in Requests \ {q} : pc'[r] = pc[r] /\ reply'[r] = reply[r]
    BY DEF Call, TypeControl
<1>2. \A t \in Asking : \A i \in DOMAIN Open(t) : Open(t)[i][1] # q
    BY OpenTyped DEF Waiting
<1>3. /\ \A t \in Subjects \ {s} : Open(t)' = Open(t)
      /\ DOMAIN Open(s)' = 1 .. Len(Open(s)) + 1
      /\ \A i \in DOMAIN Open(s) : Open(s)'[i] = Open(s)[i]
      /\ Open(s)'[Len(Open(s)) + 1] = <<q, op>>
    BY OpenGrows
<1>4. s \in Subjects
    BY SubjectsOfOps
<1>5. DOMAIN Open(s) = 1 .. Len(Open(s)) /\ Len(Open(s)) \in Nat
    BY <1>4, OpenFacts
<1> HIDE DEF s
<1>6. ASSUME NEW t \in Asking, NEW i \in DOMAIN Open(t)'
      PROVE  \/ i \in DOMAIN Open(t) /\ Open(t)'[i] = Open(t)[i]
             \/ t = s /\ i = Len(Open(s)) + 1 /\ Open(t)'[i] = <<q, op>>
    <2>1. CASE t = s
        <3>1. i \in DOMAIN Open(s) \/ i = Len(Open(s)) + 1
            BY <1>3, <1>5, <1>6, <2>1
        <3> QED
            BY <1>3, <2>1, <3>1
    <2>2. CASE t # s
        BY <1>3, <1>6, <2>2, OpenTyped
    <2> QED
        BY <2>1, <2>2
<1>7. ASSUME NEW t \in Asking, NEW i \in DOMAIN Open(t)'
      PROVE  pc'[Open(t)'[i][1]] = Open(t)'[i][2] /\ reply'[Open(t)'[i][1]] = "none"
    <2>1. CASE i \in DOMAIN Open(t) /\ Open(t)'[i] = Open(t)[i]
        <3>1. /\ pc[Open(t)[i][1]] = Open(t)[i][2] /\ reply[Open(t)[i][1]] = "none"
              /\ Open(t)[i][1] \in Requests \ {q}
            BY <1>2, <2>1, OpenTyped DEF Waiting
        <3> QED
            BY <1>1, <2>1, <3>1
    <2>2. CASE Open(t)'[i] = <<q, op>>
        BY <1>1, <2>2
    <2> QED
        BY <1>6, <2>1, <2>2
<1>8. ASSUME NEW t \in Asking, NEW i \in DOMAIN Open(t)', NEW k \in DOMAIN Open(t)', Open(t)'[i] = Open(t)'[k]
      PROVE  i = k
    <2>1. CASE i \in DOMAIN Open(t) /\ k \in DOMAIN Open(t) /\ Open(t)'[i] = Open(t)[i] /\ Open(t)'[k] = Open(t)[k]
        BY <1>8, <2>1 DEF Waiting
    <2>2. \A j \in DOMAIN Open(t) : Open(t)[j] # <<q, op>>
        BY <1>2
    <2>3. /\ \/ i \in DOMAIN Open(t) /\ Open(t)'[i] = Open(t)[i]
             \/ t = s /\ i = Len(Open(s)) + 1 /\ Open(t)'[i] = <<q, op>>
          /\ \/ k \in DOMAIN Open(t) /\ Open(t)'[k] = Open(t)[k]
             \/ t = s /\ k = Len(Open(s)) + 1 /\ Open(t)'[k] = <<q, op>>
        BY <1>6
    <2> QED
        BY <1>8, <2>1, <2>2, <2>3
<1> QED
    BY <1>7, <1>8 DEF Waiting

LEMMA WaitingStep ==
    ASSUME Inv, Waiting, [Next]_vars
    PROVE  Waiting'
<1>0. TypeControl /\ TypeData /\ TypeControl'
    BY InvStep, TypeParts, TypePartsNext DEF Inv
<1> SUFFICES ASSUME faults = 0, ~Faulty PROVE Waiting'
    BY <1>0, History DEF Waiting
<1>1. ASSUME NEW q \in Requests, RequestStep(q) PROVE Waiting'
    <2>1. ~(pc[q] \in Ops /\ reply[q] = "none") /\ UNCHANGED handler
        BY <1>0, <1>1, RequestAnswered, RequestFrame
    <2>2. ASSUME NEW at, Goto(q, at) PROVE Waiting'
        <3>1. \A s \in Asking : Open(s)' = Open(s)
            BY <2>1, <2>2 DEF Goto, Open, At
        <3>2. \A r \in Requests \ {q} : pc'[r] = pc[r] /\ reply'[r] = reply[r]
            BY <1>0, <2>2 DEF Goto, TypeControl
        <3> QED
            BY <1>0, <2>1, <3>1, <3>2, WaitingKept
    <2>3. ASSUME NEW op \in Ops, Call(q, op) PROVE Waiting'
        BY <1>0, <2>1, <2>3, WaitingGrows
    <2> QED
        BY <1>1, <2>2, <2>3, RequestFrame
<1>2. ASSUME NEW s \in Subjects, NEW at \in Labels \ {"idle"}, NEW outcome \in {"ok", "error"},
             Statement(s, at, outcome)
      PROVE  Waiting'
    <2>1. UNCHANGED pc
        BY <1>2 DEF Statement, keepsBff
    <2>2. CASE AnswersOldest(s)
        BY <1>0, <1>2, <2>1, <2>2, OpenSteps, WaitingAnswers
    <2>3. CASE Open(s)' = Open(s) /\ UNCHANGED reply
        <3>1. \A t \in Asking : Open(t)' = Open(t)
            BY <1>0, <1>2, <2>3, OpenSteps DEF Asking, Subjects
        <3> QED
            BY <1>0, <2>1, <2>3, <3>1, WaitingKept
    <2> QED
        BY <1>0, <1>2, <2>2, <2>3, OpenSteps
<1>3. ASSUME NEW q \in Requests, Abort(q) PROVE Waiting'
    <2>1. UNCHANGED <<pc, reply, handler, inbox>>
        BY <1>3 DEF Abort, control
    <2> QED
        BY <1>0, <2>1, WaitingKept DEF Open, At
<1>4. ASSUME NEW what \in OwnerCalls, Ask(what) PROVE Waiting'
    <2>1. UNCHANGED <<pc, reply, handler>> /\ \A s \in Asking : inbox'[s] = inbox[s]
        BY <1>0, <1>4, OwnerAssumption DEF Ask, bff, TypeControl, Asking, Subjects
    <2> QED
        BY <1>0, <2>1, WaitingKept DEF Open, At
<1>5. ASSUME UNCHANGED vars PROVE Waiting'
    BY <1>5 DEF vars, bff, control, Waiting, Open, At
<1> QED
    BY <1>1, <1>2, <1>3, <1>4, <1>5, StatementOfStep DEF Next

\* The request is on its way to end its run, and with it the conversation's status.
Clears(q) == pc[q] \in Notes \/ (pc[q] \in Terminal /\ reply[q] = "none")

Unstuck ==
  faults = 0 /\ asked = {} /\ conv.last = "streaming" =>
    \E q \in Requests : run[q] = "streaming" \/ Clears(q)

\* The request whose call a handler works on waits for it.
LEMMA CallerWaits ==
    ASSUME TypeControl, Waiting, faults = 0, NEW s \in Asking, ~At(s, "idle")
    PROVE  /\ Caller(s) \in Requests
           /\ pc[Caller(s)] = Op(s) /\ reply[Caller(s)] = "none"
<1>1. s \in Subjects /\ 1 \in DOMAIN Open(s) /\ Open(s)[1] = handler[s].call
    BY OpenFacts, OpenTyped
<1> QED
    BY <1>1, OpenTyped DEF Waiting, Caller, Op

\* What one of the three writers puts: a status of streaming is the one of a run.
LEMMA StreamingPut ==
    ASSUME Safe, ReportInv, Waiting, Unstuck, HandlerStep, faults = 0, asked = {},
           conv'.last = "streaming", conv' # conv
    PROVE  \E q \in Requests : run'[q] = "streaming" \/ Clears(q)'
<1>0. /\ TypeControl /\ TypeData /\ ~Deleting
      /\ handler \in [Subjects -> [pc: Labels, call: Calls \cup {NoCall}, copy: Conversations]]
      /\ Subjects = {"create", "append", "finalize", "archive", "delete"}
    BY TypeParts DEF Safe, Inv, TypeControl, Subjects, Deleting
<1>1. CASE CreatePutsConversation
    <2> DEFINE q == Caller("create")
    <2>1. At("create", "putConversation") /\ UNCHANGED run
        BY <1>1 DEF CreatePutsConversation
    <2>2. q \in Requests /\ pc[q] = "create"
        <3>1. Op("create") = "create"
            BY <1>0, <2>1 DEF TypeControl, At, CallsOf, Calls, SubjectOf, Ops, Appends, Terminal, Op
        <3> QED
            BY <1>0, <2>1, <3>1, CallerWaits DEF At, Asking
    <2>3. run[q] \in {"none", "streaming"}
        BY <2>2 DEF Safe, EndsInv, EndsOfPlace, BeforeEnd
    <2>4. run[q] # "none"
        BY <1>0, <2>1 DEF Safe, KeptInv, RunsKept
    <2> QED
        BY <2>1, <2>2, <2>3, <2>4
<1>2. CASE AppendPutsConversation
    <2> DEFINE q == Caller("append")
    <2>1. At("append", "putConversation") /\ UNCHANGED <<run, pc>>
        BY <1>2 DEF AppendPutsConversation, keepsBff
    <2>2. q \in Requests /\ pc[q] \in Appends
        BY <1>0, <2>1, CallerWaits, CallerTyped DEF At, Asking
    <2>3. CASE pc[q] \in Notes
        BY <2>1, <2>2, <2>3 DEF Clears
    <2>4. CASE pc[q] \notin Notes
        <3>1. pc[q] \in {"user", "answer"}
            BY <2>2, <2>4 DEF Appends, Notes
        <3>2. run[q] \in {"none", "streaming"}
            BY <2>2, <3>1 DEF Safe, EndsInv, EndsOfPlace, BeforeEnd
        <3>3. run[q] # "none"
            BY <1>0, <2>2, <3>1 DEF Safe, KeptInv, RunsKept
        <3> QED
            BY <2>1, <2>2, <3>2, <3>3
    <2> QED
        BY <2>3, <2>4
<1>3. CASE FinalizePutsConversation
    <2>1. handler["finalize"].copy \in Conversations
        BY <1>0
    <2>2. conv'.last = FinalStatus(Op("finalize"))
        BY <1>3, <2>1 DEF FinalizePutsConversation, Conversations
    <2> QED
        BY <2>2 DEF FinalStatus
<1>4. ~ArchivePuts /\ ~DeleteConversation
    BY DEF Safe, KeptInv, OwnerAsked, ArchivePuts, DeleteConversation, At
<1> QED
    BY <1>1, <1>2, <1>3, <1>4
       DEF HandlerStep, CreateReads, CreateChecks, CreatePutsRun,
           AppendReads, AppendReadsRun, AppendPutsMessage,
           FinalizeReads, FinalizePutsRun, FinalizeReadsConversation,
           ArchiveReads, DeleteReads, DeleteMessages, DeleteRuns, store

LEMMA UnstuckStep ==
    ASSUME Safe, ReportInv, Waiting, Unstuck, [Next]_vars
    PROVE  Unstuck'
<1>0. TypeControl /\ TypeData /\ TypeControl' /\ NoError'
    BY SafeParts, NoErrorStep
<1> SUFFICES ASSUME faults' = 0, asked' = {}, conv'.last = "streaming"
             PROVE  \E q \in Requests : run'[q] = "streaming" \/ Clears(q)'
    BY DEF Unstuck
<1>1. faults = 0 /\ asked = {} /\ ~Faulty /\ ~Deleting /\ Undisturbed /\ Undisturbed'
    BY <1>0, History DEF Deleting, Undisturbed
<1>2. CASE conv' = conv
    <2>1. PICK q \in Requests : run[q] = "streaming" \/ Clears(q)
        BY <1>1, <1>2 DEF Unstuck
    <2>2. CASE RequestStep(q)
        <3>1. UNCHANGED run
            BY <2>2, RequestFrame
        <3>2. CASE Clears(q)
            <4>1. ~(pc[q] \in Ops /\ reply[q] = "none")
                BY <1>0, <2>2, RequestAnswered
            <4>2. pc[q] \in Notes
                BY <3>2, <4>1 DEF Clears, Ops
            <4>3. NoteAppended(q) /\ reply[q] # "error"
                BY <1>1, <2>2, <4>2 DEF ReportInv, NoError,
                   RequestStep, BeginRequest, RunCreated, UserAppended, EmitStarted, HarnessEvent,
                   HarnessFails, HarnessEnds, AnswerAppended, RunCompleted, RunEnded, Answered, Notes
            <4>4. Call(q, "cancelled") \/ Call(q, "failed")
                BY <4>3 DEF NoteAppended, Answered
            <4>5. pc'[q] \in Terminal /\ reply'[q] = "none"
                BY <1>0, <4>4 DEF Call, TypeControl, Terminal
            <4> QED
                BY <4>5 DEF Clears
        <3> QED
            BY <2>1, <3>1, <3>2
    <2>3. CASE ~RequestStep(q)
        <3>1. pc'[q] = pc[q] /\ (reply'[q] # reply[q] => HandlerStep)
            BY <1>1, <2>3, Elsewhere DEF Safe
        <3>2. CASE run[q] = "streaming" /\ run'[q] # "streaming"
            <4>1. FinalizePutsRun /\ 1 \in DOMAIN Ends /\ Ends[1] = <<q, run'[q]>>
                BY <1>1, <3>2, RunChanges
            <4>2. At("finalize", "putRun") /\ Pending("finalize") /\ UNCHANGED reply
                BY <4>1 DEF FinalizePutsRun, At, Pending, Unput, Proceed
            <4>3. Ends[1] = handler["finalize"].call
                BY <1>0, <4>2, CallerInLine DEF Ends, Subjects
            <4>4. q = Caller("finalize") /\ Op("finalize") \in Terminal
                BY <1>0, <4>1, <4>2, <4>3, CallerTyped DEF Caller, At
            <4>5. pc[q] = Op("finalize") /\ reply[q] = "none"
                BY <1>0, <1>1, <4>2, <4>4, CallerWaits DEF Asking, At
            <4> QED
                BY <3>1, <4>2, <4>4, <4>5 DEF Clears
        <3>3. CASE Clears(q)
            <4>1. ASSUME pc[q] \in Terminal, reply[q] = "none", reply'[q] # "none" PROVE FALSE
                <5>1. HandlerStep
                    BY <3>1, <4>1
                <5>2. reply'[q] = "ok"
                    <6>1. reply'[q] # "error"
                        BY <1>0, <1>1, <3>1, <4>1 DEF NoError
                    <6> QED
                        BY <1>0, <4>1, <6>1 DEF TypeControl
                <5>3. Present
                    BY <1>1 DEF Safe, KeptInv, PresentCopies
                <5>4. FinalizePutsConversation
                    BY <1>0, <4>1, <5>1, <5>2, <5>3, OkAnswers DEF SubjectOf, Appends, Terminal
                <5>5. handler["finalize"].copy \in Conversations
                    BY <1>0 DEF TypeControl, Subjects
                <5>6. conv'.last = FinalStatus(Op("finalize"))
                    BY <5>4, <5>5 DEF FinalizePutsConversation, Conversations
                <5> QED
                    BY <5>6 DEF FinalStatus
            <4> QED
                BY <3>1, <3>3, <4>1 DEF Clears
        <3> QED
            BY <2>1, <3>2, <3>3
    <2> QED
        BY <2>2, <2>3
<1>3. CASE conv' # conv
    <2>1. HandlerStep
        <3>1. ASSUME NEW q \in Requests, RequestStep(q) \/ Abort(q) PROVE FALSE
            BY <1>3, <3>1, RequestFrame DEF Abort, store
        <3>2. ASSUME UNCHANGED vars \/ \E what \in OwnerCalls : Ask(what) PROVE FALSE
            BY <1>3, <3>2 DEF Ask, vars, store
        <3> QED
            BY <1>1, <3>1, <3>2 DEF Next
    <2> QED
        BY <1>1, <1>3, <2>1, StreamingPut
<1> QED
    BY <1>2, <1>3

LEMMA UnstuckInitially == Init => Waiting /\ Unstuck
<1> SUFFICES ASSUME Init PROVE Waiting /\ Unstuck
    OBVIOUS
<1>1. \A s \in Asking : Open(s) = <<>> /\ DOMAIN Open(s) = {}
    BY DEF Init, Open, At, Idle, Asking, Subjects
<1>2. conv.last # "streaming"
    BY DEF Init
<1> QED
    BY <1>1, <1>2 DEF Waiting, Unstuck

\* When everything is at rest and nothing went wrong, the conversation does not say
\* streaming over runs that have all ended, though its status is put from older copies.
THEOREM NoStuckStatusAlways == Spec => []NoStuckStatus
<1>1. Safe /\ ReportInv /\ Waiting /\ Unstuck /\ [Next]_vars => Waiting' /\ Unstuck'
    BY WaitingStep, UnstuckStep DEF Safe
<1>2. Safe /\ Unstuck => NoStuckStatus
    <2> SUFFICES ASSUME Safe, Unstuck, AtRest, faults = 0, asked = {}, conv.last = "streaming"
                 PROVE  ActiveRuns # {}
        BY DEF NoStuckStatus
    <2>1. PICK q \in Requests : run[q] = "streaming" \/ Clears(q)
        BY DEF Unstuck
    <2>2. ~Clears(q)
        BY DEF AtRest, Clears, Notes, Terminal
    <2>3. q \in ActiveRuns
        BY <2>1, <2>2 DEF ActiveRuns
    <2> QED
        BY <2>3
<1> QED
    BY <1>1, <1>2, UnstuckInitially, ReportAlways, PTL DEF Spec
=============================================================================
