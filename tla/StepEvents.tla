----------------------------- MODULE StepEvents -----------------------------
(***************************************************************************)
(* The events a run emits (aikit/step_event.go), how the agent derives     *)
(* them from a provider's stream (agent/stream.go) and from the tool calls *)
(* of a turn (agent/step.go), and the message vocabulary of histories      *)
(* (aikit/message.go, agent/finalize.go).                                  *)
(*                                                                         *)
(* Text and tool arguments are sequences of tokens, as in StreamEvents.    *)
(***************************************************************************)
EXTENDS ToolCallFold

StepStart(n)              == [type |-> "stepStart", step |-> n]
StepEnd(n, id, reason)    == [type |-> "stepEnd", step |-> n, messageID |-> id, reason |-> reason]
TextStep(text)            == [type |-> "text", text |-> text]
ReasoningStep(text, sig)  == [type |-> "reasoning", text |-> text, sig |-> sig]
UsageStep(usage)          == [type |-> "usage", usage |-> usage]
SourceStep(url)           == [type |-> "source", url |-> url]
FileStep(data)            == [type |-> "file", data |-> data]
StatePatch(valid)         == [type |-> "stateDelta", valid |-> valid]
StructuredOutput(object)  == [type |-> "structuredOutput", object |-> object]
Done                      == [type |-> "done"]

\* toolCallStart, toolCallDelta, ready, invalid and clientRequest
CallStep(type, id, name, args, sig) ==
    [type |-> type, id |-> id, name |-> name, args |-> args, sig |-> sig]

ApprovalRequestStep(call) ==
    [type |-> "approvalRequest", id |-> call.id, name |-> call.name, args |-> call.args,
     approval |-> "approval-" \o call.id]
OutputDeniedStep(id)      == [type |-> "outputDenied", id |-> id]

\* aikit.ToolResult: what the tool said, what the model is shown of it
\* (ModelOutput) and how it came about.
ToolResult(call, output, model, disposition, approval) ==
    [id |-> call.id, name |-> call.name, args |-> call.args, output |-> output,
     model |-> model, disposition |-> disposition, approval |-> approval]
ResultStep(result)        == [type |-> "result", result |-> result]

-----------------------------------------------------------------------------
(* Messages. *)

TextPart(text, sig)      == [type |-> "text", text |-> text, sig |-> sig]
ReasoningPart(text, sig) == [type |-> "reasoning", text |-> text, sig |-> sig]
\* Any media part; source says which of URL, data and file ID is set: one of
\* "url", "data" and "id", or "several", or "none".
File(kind, media, source) == [kind |-> kind, media |-> media, source |-> source]
FilePart(data)           == [type |-> "file", data |-> data]
ToolCallPart(id, name, args, sig, approval) ==
    [type |-> "toolCall", id |-> id, name |-> name, args |-> args, sig |-> sig,
     approval |-> approval]
ToolResultPart(id, name, output, approval) ==
    [type |-> "toolResult", id |-> id, name |-> name, output |-> output, approval |-> approval]
ApprovalResponsePart(id, approved) ==
    [type |-> "approvalResponse", id |-> id, approved |-> approved]

Message(role, messageID, content) == [role |-> role, id |-> messageID, content |-> content]

\* contentAllowedForRole
AllowedContent ==
    [system    |-> {"text"},
     user      |-> {"text", "toolResult", "file", "approvalResponse"},
     assistant |-> {"text", "toolCall", "reasoning", "file"},
     tool      |-> {"toolResult"}]

\* validateContentPart
PartIsValid(part) ==
    CASE part.type = "file"             -> part.data.source \in {"url", "data", "id"}
      [] part.type = "toolCall"         -> part.id # "" /\ part.name # "" /\ part.args # <<>>
      [] part.type = "toolResult"       -> part.id # "" /\ part.name # ""
      [] part.type = "approvalResponse" -> part.id # ""
      [] OTHER                          -> TRUE

\* ValidateMessage
MessageIsValid(m) ==
    /\ m.content # <<>>
    /\ m.id # NoId => m.role = "assistant"
    /\ \A i \in DOMAIN m.content :
         m.content[i].type \in AllowedContent[m.role] /\ PartIsValid(m.content[i])

\* The parts of one type, over a whole history.
PartsOf(messages, type) ==
    LET parts == FlattenSeq([i \in DOMAIN messages |-> messages[i].content])
    IN  SelectSeq(parts, LAMBDA p : p.type = type)

\* validateMessageOrder: a result follows a call of its id, and the last such
\* call before it has its name; an answer follows the call it approves.
OrderIsValid(messages) ==
    LET parts == FlattenSeq([i \in DOMAIN messages |-> messages[i].content])
        Calls(i) == {j \in 1 .. i - 1 : parts[j].type = "toolCall" /\ parts[j].id = parts[i].id}
        Asks(i)  == {j \in 1 .. i - 1 : /\ parts[j].type = "toolCall"
                                       /\ parts[j].approval = parts[i].id}
    IN  \A i \in DOMAIN parts :
          /\ parts[i].type = "toolResult" =>
               \E j \in Calls(i) : parts[j].name = parts[i].name /\ \A k \in Calls(i) : k <= j
          /\ parts[i].type = "approvalResponse" => parts[i].id # "" /\ Asks(i) # {}

\* Runner.validate, of the messages.
AcceptedByRunner(messages) ==
    /\ messages # <<>>
    /\ \A i \in DOMAIN messages : MessageIsValid(messages[i])
    /\ OrderIsValid(messages)

-----------------------------------------------------------------------------
(* agent/stream.go: one provider event. *)

\* applyStreamEvent: the step events it emits.  Text loses its signature;
\* usage is sent as the merge of all reports of the turn.
StepEventsOf(turn, event) ==
    CASE event.type = "text"      -> <<TextStep(event.text)>>
      [] event.type = "reasoning" -> <<ReasoningStep(event.text, event.sig)>>
      [] event.type = "usage"     -> <<UsageStep(MergeUsage(turn.usage, event.usage))>>
      [] event.type = "source"    -> <<SourceStep(event.url)>>
      [] event.type = "file"      -> <<FileStep(event.data)>>
      [] event.type = "finish"    -> <<>>
      [] event.type = "toolCall"  ->
           IF IsNewCall(turn.fold, event)
           THEN <<CallStep("toolCallStart", event.id, event.name, event.args, event.sig)>>
           ELSE Option(event.args # <<>>,
                       CallStep("toolCallDelta", event.id, "", event.args, NoSig))

EmptyTurn == [text |-> <<>>, reasoning |-> <<>>, usage |-> NoUsage, fold |-> EmptyFold,
              messageID |-> NoId, reason |-> ""]

\* applyStreamEvent: the streamResult and the accumulator it updates.
TurnAfter(turn, event) ==
    CASE event.type = "text"      -> [turn EXCEPT !.text = @ \o event.text]
      [] event.type = "reasoning" -> [turn EXCEPT !.reasoning = @ \o event.text]
      [] event.type = "usage"     -> [turn EXCEPT !.usage = MergeUsage(@, event.usage)]
      [] event.type = "toolCall"  -> [turn EXCEPT !.fold = AddDelta(@, event)]
      [] event.type = "finish"    -> [turn EXCEPT !.messageID = event.messageID,
                                                  !.reason = event.reason]
      [] OTHER                    -> turn

-----------------------------------------------------------------------------
(* agent/step.go: one call of a turn, by what becomes of it. *)

CallKinds == {"invalid", "skipped", "done", "failed", "client", "pending", "granted", "denied"}

\* The kinds that suspend the run: the result comes with a later request.
Suspends(kind) == kind \in {"client", "pending"}

ReadyStep(call) == CallStep("ready", call.id, call.name, call.args, call.sig)

\* executeToolCalls, approvedToolCall: the events of a call before its result.
CallEvents(call, kind) ==
    CASE kind = "invalid"                -> <<CallStep("invalid", call.id, call.name, call.args, NoSig)>>
      [] kind = "client"                 -> <<ReadyStep(call), CallStep("clientRequest", call.id,
                                                                call.name, call.args, NoSig)>>
      [] kind \in {"pending", "granted"} -> <<ReadyStep(call), ApprovalRequestStep(call)>>
      [] kind = "denied"                 -> <<ReadyStep(call), ApprovalRequestStep(call),
                                              OutputDeniedStep(call.id)>>
      [] OTHER                           -> <<ReadyStep(call)>>

\* The result of a call that does not suspend the run.  ToModelOutput rewrites
\* what the model is shown, except for a call that could not be prepared.
CallResult(call, kind) ==
    LET Result(output, disposition) ==
            ToolResult(call, output, IF kind = "invalid" THEN output ELSE output \o "-shown", disposition,
                       IF kind \in {"granted", "denied"} THEN ApprovalRequestStep(call).approval ELSE "")
    IN  CASE kind \in {"done", "granted"}   -> Result("done", "success")
          [] kind \in {"invalid", "failed"} -> Result(kind, "error")
          [] OTHER                          -> Result(kind, kind)

\* resumeToolApprovals: an answered request of the history, before any step.
ResumedEvent(call, approved) == IF approved THEN ReadyStep(call) ELSE OutputDeniedStep(call.id)
ResumedResult(call, approved) == CallResult(call, IF approved THEN "granted" ELSE "denied")

\* buildAssistantToolCallMessage: the turn as the next model call will see it.
AssistantToolCallMessage(turn, calls) ==
    LET CallPart(c) == ToolCallPart(c.id, c.name, c.args, c.sig, "")
    IN  Message("assistant", turn.messageID,
            Option(turn.reasoning # <<>>, ReasoningPart(turn.reasoning, NoSig))
            \o Option(turn.text # <<>>, TextPart(turn.text, NoSig))
            \o [i \in DOMAIN calls |-> CallPart(calls[i])])

\* toolResultHistoryMessage
ToolResultMessage(result) ==
    Message("tool", NoId, <<ToolResultPart(result.id, result.name, result.model, result.approval)>>)
=============================================================================
