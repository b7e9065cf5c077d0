----------------------------- MODULE AiChatRuns -----------------------------
(***************************************************************************)
(* One AI Chat conversation: the stream requests the BFF serves            *)
(* (attachAiChatStreamRoutes in apps/backend/src/ai-chat-stream.ts) and    *)
(* the control plane that keeps the conversation, its runs and its         *)
(* messages (core/control-plane/internal: ai_chat_run.go, service.go).     *)
(*                                                                         *)
(* A request reads the conversation, creates a run, appends the user       *)
(* message, relays the harness stream, appends the answer, finalizes the   *)
(* run and reports the end to the browser.  Its calls are NATS requests:   *)
(* each subject has one subscription, whose calls one goroutine handles in *)
(* order of arrival, and a handler reads and writes the store in separate  *)
(* statements.  Handlers of different subjects interleave, and every put   *)
(* of the conversation writes back the whole copy its handler read.        *)
(*                                                                         *)
(* The model has one control-plane replica and one conversation that       *)
(* already holds its first user message (CreateAiChatConversation).  The   *)
(* idempotency window of seven days never passes.  Text, tools, artifacts  *)
(* and token counts are one fact: whether the answer has any part.         *)
(***************************************************************************)
EXTENDS Naturals, Sequences, FiniteSets, SequencesExt

CONSTANTS Requests,     \* the stream requests of the conversation's owner
          Keys,         \* idempotency keys (with the client's message id)
          Texts,        \* texts of the requests' user messages
          FirstText,    \* the text the conversation was created with
          OwnerCalls,   \* what else the owner may ask for: archive, delete
          MaxDisturbed  \* how many faults and owner calls a behaviour has

ASSUME OwnerAssumption ==
  OwnerCalls \subseteq {"archive", "delete"} /\ "owner" \notin Requests
ASSUME DisturbedAssumption == MaxDisturbed \in Nat

VARIABLES
  conv,      \* the stored conversation, or NoConversation
  run,       \* run[q]: the stored status of the run request q created
  messages,  \* the stored messages, in the order they were put
  input,     \* input[q]: what the request carries and what it decided to do
  pc,        \* pc[q]: the call request q waits for, or where it stands
  reply,     \* reply[q]: the answer to that call
  parts,     \* parts[q]: the answer has a part
  aborted,   \* aborted[q]: the browser went away
  emitted,   \* emitted[q]: the terminal event the browser was sent
  inbox,     \* inbox[s]: the calls of subject s that are not yet handled
  handler,   \* handler[s]: where the handler of subject s stands
  asked,     \* the owner's calls that were made
  answered,  \* the owner's calls that were answered with success
  faults     \* how many faults there were

store == <<conv, run, messages>>
bff == <<input, pc, reply, parts, aborted, emitted>>
control == <<inbox, handler>>
owner == <<asked, answered>>
vars == <<store, bff, control, owner, faults>>

-----------------------------------------------------------------------------
\* Data

Subjects == {"create", "append", "finalize", "archive", "delete"}
NoConversation == [status |-> "missing", last |-> "idle", version |-> 0]
Terminal == {"completed", "failed", "cancelled"}

\* The calls of a request, by the subject they are sent on.
Appends == {"user", "answer", "cancelNote", "errorNote"}
SubjectOf(op) == IF op \in Appends THEN "append"
                 ELSE IF op \in Terminal THEN "finalize" ELSE op
Ops == {"create"} \cup Appends \cup Terminal
Calls == (Requests \X Ops) \cup ({"owner"} \X OwnerCalls)

CallsOf(s) == {call \in Calls : SubjectOf(call[2]) = s}

Conversations ==
  [status: {"active", "archived", "missing"},
   last: {"idle", "streaming", "failed"}, version: Nat]
NoCall == <<"owner", "none">>
Idle == [pc |-> "idle", call |-> NoCall, copy |-> NoConversation]
Labels == {"idle", "check", "putRun", "putConversation", "readRun", "putMessage",
           "readConversation", "put", "messages", "runs", "conversation"}
At(s, label) == handler[s].pc = label
Message(q, kind) == [request |-> q, kind |-> kind, text |-> input[q].text]

TypeOK ==
  /\ conv \in Conversations
  /\ run \in [Requests -> {"none", "streaming"} \cup Terminal]
  /\ messages \in Seq([request: Requests \cup {"owner"}, kind: Appends,
                       text: Texts \cup {FirstText}])
  /\ input \in [Requests -> [key: Keys, text: Texts, append: BOOLEAN]]
  /\ pc \in [Requests -> Ops \cup {"idle", "starting", "streaming", "over"}]
  /\ reply \in [Requests -> {"none", "ok", "error"}]
  /\ parts \in [Requests -> BOOLEAN]
  /\ aborted \in [Requests -> BOOLEAN]
  /\ emitted \in [Requests -> {"none", "completed", "failed"}]
  /\ DOMAIN inbox = Subjects
  /\ \A s \in Subjects : inbox[s] \in Seq(CallsOf(s))
  /\ handler \in [Subjects -> [pc: Labels, call: Calls \cup {NoCall},
                               copy: Conversations]]
  /\ \A s \in Subjects : At(s, "idle") \/ handler[s].call \in CallsOf(s)
  /\ asked \subseteq OwnerCalls
  /\ answered \subseteq OwnerCalls
  /\ faults \in 0..MaxDisturbed

Init ==
  /\ conv = [status |-> "active", last |-> "idle", version |-> 1]
  /\ run = [q \in Requests |-> "none"]
  /\ messages = <<[request |-> "owner", kind |-> "user", text |-> FirstText]>>
  /\ input \in [Requests -> [key: Keys, text: Texts, append: {FALSE}]]
  /\ pc = [q \in Requests |-> "idle"]
  /\ reply = [q \in Requests |-> "none"]
  /\ parts = [q \in Requests |-> FALSE]
  /\ aborted = [q \in Requests |-> FALSE]
  /\ emitted = [q \in Requests |-> "none"]
  /\ inbox = [s \in Subjects |-> <<>>]
  /\ handler = [s \in Subjects |-> Idle]
  /\ asked = {}
  /\ answered = {}
  /\ faults = 0

-----------------------------------------------------------------------------
\* The stream route of the BFF

\* A call: the message goes to its subject and the request waits for the reply.
Call(q, op) ==
  /\ pc' = [pc EXCEPT ![q] = op]
  /\ inbox' = [inbox EXCEPT ![SubjectOf(op)] = Append(@, <<q, op>>)]
  /\ reply' = [reply EXCEPT ![q] = "none"]

\* The request goes on at "at" without a call.
Goto(q, at) ==
  /\ pc' = [pc EXCEPT ![q] = at]
  /\ reply' = [reply EXCEPT ![q] = "none"]
  /\ UNCHANGED inbox

Answered(q, op, outcome) == pc[q] = op /\ reply[q] = outcome

\* conversationAlreadyHasMessage, on the conversation the request read.
AlreadyHasMessage(text) ==
  /\ messages # <<>>
  /\ Last(messages).kind = "user"
  /\ Last(messages).text = text

\* The request is read and authorized, the provider is resolved, and the run
\* is created, unless the conversation is gone or archived.
BeginRequest(q) ==
  /\ pc[q] = "idle"
  /\ IF conv.status = "active"
     THEN \E skipUserMessageAppend \in BOOLEAN :
            /\ input' = [input EXCEPT ![q].append =
                           /\ ~skipUserMessageAppend
                           /\ ~AlreadyHasMessage(input[q].text)]
            /\ Call(q, "create")
     ELSE Goto(q, "over") /\ UNCHANGED input
  /\ UNCHANGED <<store, parts, aborted, emitted, handler, owner, faults>>

\* aiChatCreateRun answered: an error becomes a problem response.
RunCreated(q) ==
  /\ \/ /\ Answered(q, "create", "ok")
        /\ IF input[q].append THEN Call(q, "user") ELSE Goto(q, "starting")
     \/ Answered(q, "create", "error") /\ Goto(q, "over")
  /\ UNCHANGED <<store, input, parts, aborted, emitted, handler, owner, faults>>

\* The user message was appended, or the route throws and leaves the run.
UserAppended(q) ==
  /\ \/ Answered(q, "user", "ok") /\ Goto(q, "starting")
     \/ Answered(q, "user", "error") /\ Goto(q, "over")
  /\ UNCHANGED <<store, input, parts, aborted, emitted, handler, owner, faults>>

\* The catch block: a cancelled stream and a failed one leave different notes.
Catch(q) == Call(q, IF aborted[q] THEN "cancelNote" ELSE "errorNote")

\* run.started and message.created are sent and the harness is started.
EmitStarted(q) ==
  /\ pc[q] = "starting"
  /\ IF aborted[q] THEN Catch(q) ELSE Goto(q, "streaming")
  /\ UNCHANGED <<store, input, parts, aborted, emitted, handler, owner, faults>>

\* An event of the harness that adds a part to the answer.
HarnessEvent(q) ==
  /\ pc[q] = "streaming"
  /\ IF aborted[q]
     THEN Catch(q) /\ UNCHANGED parts
     ELSE Goto(q, "streaming") /\ parts' = [parts EXCEPT ![q] = TRUE]
  /\ UNCHANGED <<store, input, aborted, emitted, handler, owner, faults>>

\* The harness stream fails: a provider error, or a render spec that is refused.
HarnessFails(q) ==
  /\ pc[q] = "streaming"
  /\ Catch(q)
  /\ UNCHANGED <<store, input, parts, aborted, emitted, handler, owner, faults>>

\* The harness stream ends: nobody looks at the abort signal any more.
HarnessEnds(q) ==
  /\ pc[q] = "streaming"
  /\ Call(q, IF parts[q] THEN "answer" ELSE "completed")
  /\ UNCHANGED <<store, input, parts, aborted, emitted, handler, owner, faults>>

\* Mutant: an append that was given up is sent again.
AnswerAppendedAgain(q) ==
  /\ \/ Answered(q, "answer", "ok") /\ Call(q, "completed")
     \/ Answered(q, "answer", "error") /\ Call(q, "answer")
  /\ UNCHANGED <<store, input, parts, aborted, emitted, handler, owner, faults>>

AnswerAppended(q) ==
  /\ \/ Answered(q, "answer", "ok") /\ Call(q, "completed")
     \/ Answered(q, "answer", "error") /\ Catch(q)
  /\ UNCHANGED <<store, input, parts, aborted, emitted, handler, owner, faults>>

\* Mutant: run.completed is sent with the answer, before the run is finalized.
RunCompletedEarly(q) ==
  /\ \/ /\ Answered(q, "completed", "none") /\ ~aborted[q]
        /\ Goto(q, "over")
        /\ emitted' = [emitted EXCEPT ![q] = "completed"]
     \/ /\ \/ Answered(q, "completed", "error")
           \/ Answered(q, "completed", "ok") /\ aborted[q]
        /\ Catch(q)
        /\ UNCHANGED emitted
  /\ UNCHANGED <<store, input, parts, aborted, handler, owner, faults>>

\* The run is finalized: run.completed is sent, or the sending finds the abort.
RunCompleted(q) ==
  /\ \/ /\ Answered(q, "completed", "ok") /\ ~aborted[q]
        /\ Goto(q, "over")
        /\ emitted' = [emitted EXCEPT ![q] = "completed"]
     \/ /\ \/ Answered(q, "completed", "error")
           \/ Answered(q, "completed", "ok") /\ aborted[q]
        /\ Catch(q)
        /\ UNCHANGED emitted
  /\ UNCHANGED <<store, input, parts, aborted, handler, owner, faults>>

\* Mutant: a cancelled stream leaves its note and is not finalized.
NoteAppendedOnly(q) ==
  /\ \/ Answered(q, "errorNote", "ok") /\ Call(q, "failed")
     \/ /\ reply[q] # "none"
        /\ pc[q] = "cancelNote" \/ Answered(q, "errorNote", "error")
        /\ Goto(q, "over")
  /\ UNCHANGED <<store, input, parts, aborted, emitted, handler, owner, faults>>

\* The catch block's appendTerminalAssistantPart: an error leaves the run as it is.
NoteAppended(q) ==
  /\ \/ Answered(q, "cancelNote", "ok") /\ Call(q, "cancelled")
     \/ Answered(q, "errorNote", "ok") /\ Call(q, "failed")
     \/ /\ Answered(q, "cancelNote", "error") \/ Answered(q, "errorNote", "error")
        /\ Goto(q, "over")
  /\ UNCHANGED <<store, input, parts, aborted, emitted, handler, owner, faults>>

\* The catch block's aiChatFinalizeRun; only a failed run is reported.
RunEnded(q) ==
  /\ \/ /\ pc[q] = "cancelled" /\ reply[q] # "none"
        /\ UNCHANGED emitted
     \/ /\ Answered(q, "failed", "ok") /\ ~aborted[q]
        /\ emitted' = [emitted EXCEPT ![q] = "failed"]
     \/ /\ \/ Answered(q, "failed", "error")
           \/ Answered(q, "failed", "ok") /\ aborted[q]
        /\ UNCHANGED emitted
  /\ Goto(q, "over")
  /\ UNCHANGED <<store, input, parts, aborted, handler, owner, faults>>

\* The browser goes away while the stream is open: cancel() or the request's
\* abort signal.  Before there is a stream nothing listens to the signal.
Abort(q) ==
  /\ pc[q] \notin {"idle", "create", "user", "over"}
  /\ ~aborted[q]
  /\ aborted' = [aborted EXCEPT ![q] = TRUE]
  /\ UNCHANGED <<store, input, pc, reply, parts, emitted, control, owner, faults>>

-----------------------------------------------------------------------------
\* The owner's other requests

MayDisturb == faults + Cardinality(asked) < MaxDisturbed

Ask(what) ==
  /\ what \in OwnerCalls \ asked
  /\ MayDisturb
  /\ asked' = asked \cup {what}
  /\ inbox' = [inbox EXCEPT ![what] = Append(@, <<"owner", what>>)]
  /\ UNCHANGED <<store, bff, handler, answered, faults>>

-----------------------------------------------------------------------------
\* The handlers of the control plane.  A handler is one goroutine per subject.

Caller(s) == handler[s].call[1]
Op(s) == handler[s].call[2]
Present == conv.status # "missing"
keepsBff == <<input, pc, parts, aborted, emitted>>

\* The reply reaches the request only while it waits for this call.
ReplyTo(call, outcome) ==
  IF call[1] = "owner"
  THEN /\ answered' = IF outcome = "ok" THEN answered \cup {call[2]} ELSE answered
       /\ UNCHANGED reply
  ELSE /\ reply' = IF pc[call[1]] = call[2] /\ reply[call[1]] = "none"
                   THEN [reply EXCEPT ![call[1]] = outcome] ELSE reply
       /\ UNCHANGED answered

\* Mutant: the calls of a subject are handled in another order.
LastInLine(s) == Len(inbox[s])

\* The goroutine takes the oldest call of its subject, and either goes on with
\* the copy of the conversation it reads or refuses.
FirstInLine(s) == 1
Oldest(s) == inbox[s][FirstInLine(s)]
Takes(s) ==
  /\ At(s, "idle")
  /\ inbox[s] # <<>>
  /\ inbox' = [inbox EXCEPT ![s] = RemoveAt(@, FirstInLine(s))]
Accept(s, at) ==
  /\ handler' = [handler EXCEPT ![s] = [pc |-> at, call |-> Oldest(s), copy |-> conv]]
  /\ UNCHANGED <<reply, answered>>
Refuse(s) == ReplyTo(Oldest(s), "error") /\ UNCHANGED handler

\* The handler's next statement, and its end.
Proceed(s, at) ==
  /\ handler' = [handler EXCEPT ![s].pc = at]
  /\ UNCHANGED <<reply, answered, inbox>>
ProceedWithCopy(s, at) ==
  /\ handler' = [handler EXCEPT ![s].pc = at, ![s].copy = conv]
  /\ UNCHANGED <<reply, answered, inbox>>
Reply(s, outcome) ==
  /\ handler' = [handler EXCEPT ![s] = Idle]
  /\ ReplyTo(handler[s].call, outcome)
  /\ UNCHANGED inbox

\* CreateAiChatRun

CreateReads ==
  /\ Takes("create")
  /\ IF conv.status = "active"
     THEN Accept("create", "check")
     ELSE Refuse("create")
  /\ UNCHANGED <<store, asked, keepsBff, faults>>

ActiveRuns == {q \in Requests : run[q] = "streaming"}
\* GetAiChatRunByIdempotency: a run, in any state, with the same key.
SubmittedBefore(q) ==
  \E other \in Requests : run[other] # "none" /\ input[other].key = input[q].key

\* Mutant: the idempotency check stops nothing.
CreateChecksActive ==
  /\ At("create", "check")
  /\ IF ActiveRuns # {}
     THEN Reply("create", "error")
     ELSE Proceed("create", "putRun")
  /\ UNCHANGED <<store, asked, keepsBff, faults>>

\* Mutant: only the conversation's newest run is looked at.
CreateChecksLastStatus ==
  /\ At("create", "check")
  /\ IF \/ SubmittedBefore(Caller("create"))
        \/ handler["create"].copy.last = "streaming"
     THEN Reply("create", "error")
     ELSE Proceed("create", "putRun")
  /\ UNCHANGED <<store, asked, keepsBff, faults>>

CreateChecks ==
  /\ At("create", "check")
  /\ IF SubmittedBefore(Caller("create")) \/ ActiveRuns # {}
     THEN Reply("create", "error")
     ELSE Proceed("create", "putRun")
  /\ UNCHANGED <<store, asked, keepsBff, faults>>

CreatePutsRun ==
  /\ At("create", "putRun")
  /\ run' = [run EXCEPT ![Caller("create")] = "streaming"]
  /\ Proceed("create", "putConversation")
  /\ UNCHANGED <<conv, messages, asked, keepsBff, faults>>

CreatePutsConversation ==
  /\ At("create", "putConversation")
  /\ conv' = [handler["create"].copy EXCEPT !.last = "streaming"]
  /\ Reply("create", "ok")
  /\ UNCHANGED <<run, messages, asked, keepsBff, faults>>

\* AppendAiChatMessage.  Parts of an answer that look like a secret are refused.

AppendReads ==
  /\ Takes("append")
  /\ \/ Present /\ Accept("append", "readRun")
     \/ /\ ~Present \/ Oldest("append")[2] = "answer"
        /\ Refuse("append")
  /\ UNCHANGED <<store, asked, keepsBff, faults>>

AppendReadsRun ==
  /\ At("append", "readRun")
  /\ IF run[Caller("append")] # "none" /\ Present
     THEN Proceed("append", "putMessage")
     ELSE Reply("append", "error")
  /\ UNCHANGED <<store, asked, keepsBff, faults>>

AppendPutsMessage ==
  /\ At("append", "putMessage")
  /\ messages' = Append(messages, Message(Caller("append"), Op("append")))
  /\ Proceed("append", "putConversation")
  /\ UNCHANGED <<conv, run, asked, keepsBff, faults>>

AppendPutsConversation ==
  /\ At("append", "putConversation")
  /\ conv' = handler["append"].copy
  /\ Reply("append", "ok")
  /\ UNCHANGED <<run, messages, asked, keepsBff, faults>>

\* FinalizeAiChatRun

FinalizeReads ==
  /\ Takes("finalize")
  /\ IF run[Oldest("finalize")[1]] # "none" /\ Present
     THEN Accept("finalize", "putRun")
     ELSE Refuse("finalize")
  /\ UNCHANGED <<store, asked, keepsBff, faults>>

FinalizePutsRun ==
  /\ At("finalize", "putRun")
  /\ run' = [run EXCEPT ![Caller("finalize")] = Op("finalize")]
  /\ Proceed("finalize", "readConversation")
  /\ UNCHANGED <<conv, messages, asked, keepsBff, faults>>

FinalizeReadsConversation ==
  /\ At("finalize", "readConversation")
  /\ IF Present
     THEN ProceedWithCopy("finalize", "putConversation")
     ELSE Reply("finalize", "ok")
  /\ UNCHANGED <<store, asked, keepsBff, faults>>

\* Mutant: the run's status becomes the conversation's, as in CreateAiChatRun.
RunStatus(op) == op

FinalStatus(op) == IF op = "failed" THEN "failed" ELSE "idle"

FinalizePutsConversation ==
  /\ At("finalize", "putConversation")
  /\ conv' = [handler["finalize"].copy EXCEPT !.last = FinalStatus(Op("finalize"))]
  /\ Reply("finalize", "ok")
  /\ UNCHANGED <<run, messages, asked, keepsBff, faults>>

\* ArchiveAiChatConversation: the BFF always expects version 1.

ArchiveReads ==
  /\ Takes("archive")
  /\ IF Present /\ conv.version = 1
     THEN Accept("archive", "put")
     ELSE Refuse("archive")
  /\ UNCHANGED <<store, asked, keepsBff, faults>>

ArchivePuts ==
  /\ At("archive", "put")
  /\ conv' = [handler["archive"].copy EXCEPT !.status = "archived",
                                             !.version = @ + 1]
  /\ Reply("archive", "ok")
  /\ UNCHANGED <<run, messages, asked, keepsBff, faults>>

\* DeleteAiChatConversation: one exec of several statements, each by itself.

DeleteReads ==
  /\ Takes("delete")
  /\ IF Present THEN Accept("delete", "messages") ELSE Refuse("delete")
  /\ UNCHANGED <<store, asked, keepsBff, faults>>

DeleteMessages ==
  /\ At("delete", "messages")
  /\ messages' = <<>>
  /\ Proceed("delete", "runs")
  /\ UNCHANGED <<conv, run, asked, keepsBff, faults>>

DeleteRuns ==
  /\ At("delete", "runs")
  /\ run' = [q \in Requests |-> "none"]
  /\ Proceed("delete", "conversation")
  /\ UNCHANGED <<conv, messages, asked, keepsBff, faults>>

DeleteConversation ==
  /\ At("delete", "conversation")
  /\ conv' = NoConversation
  /\ Reply("delete", "ok")
  /\ UNCHANGED <<run, messages, asked, keepsBff, faults>>

-----------------------------------------------------------------------------
\* Faults

Fault == MayDisturb /\ faults' = faults + 1

\* The BFF gives a call up, though it is handled later or was handled already.
CallTimesOut(q) ==
  /\ pc[q] \in Ops
  /\ reply[q] = "none"
  /\ Fault
  /\ reply' = [reply EXCEPT ![q] = "error"]
  /\ UNCHANGED <<store, keepsBff, control, owner>>

\* A statement of a handler fails: the caller is told, what was put stays.
StoreFails(s) ==
  /\ Fault
  /\ \/ Takes(s) /\ Refuse(s)
     \/ ~At(s, "idle") /\ Reply(s, "error")
  /\ UNCHANGED <<store, keepsBff, asked>>

\* The control plane restarts: calls in flight are lost, callers time out.
ControlPlaneRestarts ==
  /\ Fault
  /\ handler' = [s \in Subjects |-> Idle]
  /\ inbox' = [s \in Subjects |-> <<>>]
  /\ reply' = [q \in Requests |->
                 IF pc[q] \in Ops /\ reply[q] = "none" THEN "error" ELSE reply[q]]
  /\ UNCHANGED <<store, keepsBff, owner>>

\* The BFF restarts: its requests are gone, calls already sent are handled.
BffRestarts ==
  /\ Fault
  /\ pc' = [q \in Requests |-> IF pc[q] = "idle" THEN "idle" ELSE "over"]
  /\ reply' = [q \in Requests |-> "none"]
  /\ UNCHANGED <<store, input, parts, aborted, emitted, control, owner>>

-----------------------------------------------------------------------------
RequestStep(q) ==
  \/ BeginRequest(q)
  \/ RunCreated(q)
  \/ UserAppended(q)
  \/ EmitStarted(q)
  \/ HarnessEvent(q)
  \/ HarnessFails(q)
  \/ HarnessEnds(q)
  \/ AnswerAppended(q)
  \/ RunCompleted(q)
  \/ NoteAppended(q)
  \/ RunEnded(q)

HandlerStep ==
  \/ CreateReads
  \/ CreateChecks
  \/ CreatePutsRun
  \/ CreatePutsConversation
  \/ AppendReads
  \/ AppendReadsRun
  \/ AppendPutsMessage
  \/ AppendPutsConversation
  \/ FinalizeReads
  \/ FinalizePutsRun
  \/ FinalizeReadsConversation
  \/ FinalizePutsConversation
  \/ ArchiveReads
  \/ ArchivePuts
  \/ DeleteReads
  \/ DeleteMessages
  \/ DeleteRuns
  \/ DeleteConversation

Faulty ==
  \/ \E q \in Requests : CallTimesOut(q)
  \/ \E s \in Subjects : StoreFails(s)
  \/ ControlPlaneRestarts
  \/ BffRestarts

Next ==
  \/ \E q \in Requests : RequestStep(q) \/ Abort(q)
  \/ \E what \in OwnerCalls : Ask(what)
  \/ HandlerStep
  \/ Faulty

Spec == Init /\ [][Next]_vars

\* Goroutines run on, statements return, and a harness stream ends.
Fairness ==
  /\ \A q \in Requests : WF_vars(RequestStep(q))
  /\ WF_vars(HandlerStep)

FairSpec == Spec /\ Fairness

-----------------------------------------------------------------------------
\* Properties

Deleting == "delete" \in asked
Undisturbed == faults = 0 /\ ~Deleting

\* A conversation has at most one active run, whatever requests come, calls
\* time out and processes restart: the check of CreateAiChatRun and its put are
\* two statements, and only the one goroutine of the subject keeps them apart.
OneActiveRun == Cardinality(ActiveRuns) <= 1

\* What the browser was told is what the store says: run.completed is sent when
\* the run is recorded as completed and its answer is stored, in spite of time-
\* outs and restarts, and when nothing went wrong a run that was not reported
\* as completed (an aborted or failed stream) is not recorded as completed.
CompletedIffReported ==
  \A q \in Requests :
    /\ emitted[q] = "completed" /\ ~Deleting =>
         /\ run[q] = "completed"
         /\ parts[q] => Message(q, "answer") \in ToSet(messages)
    /\ pc[q] = "over" /\ emitted[q] # "completed" /\ Undisturbed =>
         run[q] # "completed"

MessageOf(q, kind, i) == i \in DOMAIN messages /\ messages[i] = Message(q, kind)

\* The messages of a run are stored once each and in the order of a dialogue:
\* the user's, the answer, the note about its end; a late append of a call that
\* was given up does not come between them.
MessagesInOrder ==
  \A q \in Requests : \A i, j \in DOMAIN messages :
    messages[j].request = q =>
      /\ MessageOf(q, "user", i) => i <= j
      /\ MessageOf(q, "answer", i) /\ i < j =>
           messages[j].kind \in {"cancelNote", "errorNote"}
      /\ MessageOf(q, "cancelNote", i) \/ MessageOf(q, "errorNote", i) => j <= i

\* A submission that is repeated under its key appends no second user message,
\* also when the first was given up and is handled late.
UserMessageOnce ==
  ~Deleting =>
    \A q1, q2 \in Requests :
      /\ q1 # q2
      /\ input[q1].key = input[q2].key
      /\ Message(q1, "user") \in ToSet(messages)
      => \A i \in DOMAIN messages : ~MessageOf(q2, "user", i)

AtRest ==
  /\ \A s \in Subjects : At(s, "idle") /\ inbox[s] = <<>>
  /\ \A q \in Requests : pc[q] \in {"idle", "over"}

\* lastRunStatus is put back from copies that are older than the run: when
\* nothing went wrong it does not stay at streaming after the run is over.
NoStuckStatus ==
  AtRest /\ faults = 0 /\ asked = {} /\ conv.last = "streaming" => ActiveRuns # {}

\* A recorded end is final, but that a completed run may still turn out to be
\* cancelled (the browser went away) or failed (the reply was lost).  It never
\* becomes active again, and a late "completed" never covers a later outcome.
EndIsFinal ==
  [][\A q \in Requests :
       run[q] \in Terminal =>
         run'[q] \in {run[q], "none"} \cup
           (IF run[q] = "completed" THEN {"failed", "cancelled"} ELSE {})]_vars

\* Every run ends unless a fault or a deletion comes in between.
RunsEnd ==
  \A q \in Requests :
    run[q] = "streaming" ~> run[q] # "streaming" \/ ~Undisturbed

\* What the specification of archiving promises (specs/04-backend/ai-chat.md:
\* archiving sets status=archived and prevents new runs): once the owner was
\* told so, the conversation is archived.
ArchivedStays ==
  "archive" \in answered /\ Present /\ ~Deleting => conv.status = "archived"
=============================================================================
