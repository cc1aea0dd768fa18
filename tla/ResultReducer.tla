---------------------------- MODULE ResultReducer ----------------------------
(***************************************************************************)
(* agent/result.go: the fold of a run's events into its Result — steps,    *)
(* pending approvals, usage totals and the transcript.                     *)
(***************************************************************************)
EXTENDS StepEvents

NoStep == [open |-> FALSE]

\* Step
OpenStep == [open |-> TRUE, text |-> <<>>, reasoning |-> <<>>, content |-> <<>>,
             calls |-> <<>>, results |-> <<>>]

\* newResultReducer
NewReducer(messages) ==
    [transcript |-> messages, initial |-> Len(messages), steps |-> 0, current |-> NoStep,
     currentUsage |-> NoUsage, completedUsage |-> NoUsage, usage |-> NoUsage,
     results |-> <<>>, pending |-> <<>>, sources |-> <<>>, files |-> <<>>,
     object |-> "", messageID |-> NoId, reason |-> ""]

\* The places of the calls with this id; the handlers below use the first.
PlacesOf(id, calls) == {i \in DOMAIN calls : calls[i].type = "toolCall" /\ calls[i].id = id}
FirstPlace(places)  == CHOOSE i \in places : \A j \in places : i <= j
UpdateFirst(calls, id, Change(_)) ==
    IF PlacesOf(id, calls) = {} THEN calls
    ELSE [calls EXCEPT ![FirstPlace(PlacesOf(id, calls))] = Change(@)]

-----------------------------------------------------------------------------
(* Handlers of an open step. *)

\* startToolCall
StartToolCall(step, event) ==
    LET part == ToolCallPart(event.id, event.name, event.args, event.sig, "")
    IN  [step EXCEPT !.calls = Append(@, part), !.content = Append(@, part)]

\* appendToolCall
AppendToolCall(step, event) ==
    LET More(call) == [call EXCEPT !.args = @ \o event.args]
    IN  [step EXCEPT !.calls   = UpdateFirst(@, event.id, More),
                     !.content = UpdateFirst(@, event.id, More)]


\* readyToolCall: the prepared call replaces what was streamed.
ReadyToolCall(step, event) ==
    LET Prepared(call) == [call EXCEPT !.name = event.name,
                                       !.args = IF event.args # <<>> THEN event.args ELSE @,
                                       !.sig  = IF event.sig # NoSig THEN event.sig ELSE @]
    IN  IF PlacesOf(event.id, step.calls) = {}
        THEN StartToolCall(step, event)
        ELSE [step EXCEPT !.calls = UpdateFirst(@, event.id, Prepared)]

\* consumeApproval
MarkApproval(step, event) ==
    [step EXCEPT !.calls = [i \in DOMAIN @ |->
        IF @[i].id = event.id THEN [@[i] EXCEPT !.approval = event.approval] ELSE @[i]]]

\* consumeFile
AppendFile(step, event) == [step EXCEPT !.content = Append(@, FilePart(event.data))]

\* removeApproval: the first pending approval of the call.
RemoveApproval(pending, id) ==
    LET places == {i \in DOMAIN pending : pending[i].id = id}
    IN  IF places = {} THEN pending ELSE RemoveAt(pending, FirstPlace(places))

\* stepMessages: the streamed content with its calls replaced by the prepared
\* ones, then a message for each result.  Text and reasoning are in the content
\* whenever they are not empty, so the fallbacks of the code add nothing.
StepMessages(step, messageID) ==
    LET Place(parts, call) ==
            IF PlacesOf(call.id, parts) = {} THEN Append(parts, call)
            ELSE [parts EXCEPT ![FirstPlace(PlacesOf(call.id, parts))] = call]
        parts == FoldLeft(Place, step.content, step.calls)
    IN  Option(parts # <<>>, Message("assistant", messageID, parts))
        \o [i \in DOMAIN step.results |-> ToolResultMessage(step.results[i])]

-----------------------------------------------------------------------------
(* Handlers of the result. *)

\* consumeToolResult: outside a step the result goes straight to the transcript.
ConsumeToolResult(r, result) ==
    LET kept == [r EXCEPT !.results = Append(@, result),
                          !.pending = RemoveApproval(@, result.id)]
    IN  IF r.current.open
        THEN [kept EXCEPT !.current.results = Append(@, result)]
        ELSE [kept EXCEPT !.transcript = Append(@, ToolResultMessage(result))]

\* Mutant: snapshots are added up as if they were deltas.
ConsumeUsageDeltas(r, usage) ==
    [r EXCEPT !.currentUsage = AddUsage(@, usage),
              !.usage = AddUsage(r.completedUsage, AddUsage(r.currentUsage, usage))]

\* consumeUsage: a snapshot replaces the one before it in the same step.
ConsumeUsage(r, usage) ==
    [r EXCEPT !.currentUsage = usage, !.usage = AddUsage(r.completedUsage, usage)]

\* Mutant: a step is counted when it starts and again when it ends.
FinishStepTwice(r, event) == [r EXCEPT !.steps = @ + 2, !.current = NoStep]

\* finishStep
FinishStep(r, event) ==
    [r EXCEPT !.steps = @ + 1, !.messageID = event.messageID, !.reason = event.reason,
              !.transcript = @ \o StepMessages(r.current, event.messageID),
              !.completedUsage = AddUsage(@, r.currentUsage),
              !.current = NoStep]

\* The event types whose handlers return at once when no step is open.
StepOnly == {"text", "reasoning", "toolCallStart", "toolCallDelta", "ready", "stepEnd"}

\* resultReducer.consume; the events it leaves alone change nothing, among them
\* an invalid call and a denial, which their results report.
Consume(r, event) ==
    IF event.type \in StepOnly /\ ~ r.current.open THEN r
    ELSE
    CASE event.type = "stepStart" -> [r EXCEPT !.current = OpenStep, !.currentUsage = NoUsage]
      [] event.type = "text" ->
           [r EXCEPT !.current.text = @ \o event.text,
                     !.current.content = AppendDelta(@, "text", event.text, NoSig)]
      [] event.type = "reasoning" ->
           [r EXCEPT !.current.reasoning = @ \o event.text,
                     !.current.content = AppendDelta(@, "reasoning", event.text, event.sig)]
      [] event.type = "toolCallStart" -> [r EXCEPT !.current = StartToolCall(@, event)]
      [] event.type = "toolCallDelta" -> [r EXCEPT !.current = AppendToolCall(@, event)]
      [] event.type = "ready"  -> [r EXCEPT !.current = ReadyToolCall(@, event)]
      [] event.type = "result" -> ConsumeToolResult(r, event.result)
      [] event.type = "approvalRequest" ->
           [r EXCEPT !.pending = Append(@, [id |-> event.id, approval |-> event.approval]),
                     !.current = IF @.open THEN MarkApproval(@, event) ELSE @]
      [] event.type = "usage"  -> ConsumeUsage(r, event.usage)
      [] event.type = "source" -> [r EXCEPT !.sources = Append(@, event.url)]
      [] event.type = "file"   ->
           [r EXCEPT !.files = Append(@, event.data),
                     !.current = IF @.open THEN AppendFile(@, event) ELSE @]
      [] event.type = "stepEnd" -> FinishStep(r, event)
      [] event.type = "structuredOutput" -> [r EXCEPT !.object = event.object]
      [] OTHER -> r

\* Result.GeneratedMessages
GeneratedMessages(r) == SubSeq(r.transcript, r.initial + 1, Len(r.transcript))
=============================================================================
