----------------------------- MODULE AgUiStream ------------------------------
(***************************************************************************)
(* uistream/agui: the AG-UI encoder of one run (encoder*.go,               *)
(* interrupts.go) and the messages it republishes when a run suspends.     *)
(***************************************************************************)
EXTENDS StepEvents

\* newEncoder; options: emitSteps, structuredStart, hasState
NewAgUi(options) ==
    [options |-> options, step |-> 0, textOpen |-> FALSE, reasoningOpen |-> FALSE, textBuf |-> <<>>,
     openTools |-> {}, toolOrder |-> <<>>, toolCalls |-> <<>>, interrupts |-> <<>>,
     stepUsage |-> NoUsage, totalUsage |-> NoUsage, reason |-> ""]

Frame(type)                == [type |-> type]
MessageFrame(type, step)   == [type |-> type, step |-> step]
ContentFrame(type, step, text) == [type |-> type, step |-> step, text |-> text]
ToolFrame(type, id, val)   == [type |-> type, id |-> id, val |-> val]
CustomFrame(name, val)     == [type |-> "CUSTOM", name |-> name, val |-> val]

Encoded(e, frames) == [enc |-> e, frames |-> frames, ok |-> TRUE]
Refused(e)         == [enc |-> e, frames |-> <<>>, ok |-> FALSE]

-----------------------------------------------------------------------------
(* Blocks. *)

\* closeReasoning
ReasoningEnds(e) ==
    IF e.reasoningOpen
    THEN <<MessageFrame("REASONING_MESSAGE_END", e.step), MessageFrame("REASONING_END", e.step)>>
    ELSE <<>>

\* closeTool
ToolEnds(e, id) == Option(id \in e.openTools, ToolFrame("TOOL_CALL_END", id, <<>>))
ToolClosed(e, id) == [e EXCEPT !.openTools = @ \ {id}]

\* Mutant: a run that ends in the middle of an answer leaves its text open.
ContentEndsButText(e) == ReasoningEnds(e)

\* closeOpenContent: reasoning, text, then the tools still streaming arguments, each
\* once and in the order they were started.
ContentEnds(e) ==
    LET First(i) == \A j \in 1 .. i - 1 : e.toolOrder[j] # e.toolOrder[i]
        tools[n \in 0 .. Len(e.toolOrder)] ==
            IF n = 0 THEN <<>>
            ELSE tools[n - 1] \o (IF First(n) THEN ToolEnds(e, e.toolOrder[n]) ELSE <<>>)
    IN  ReasoningEnds(e)
        \o Option(e.textOpen, MessageFrame("TEXT_MESSAGE_END", e.step))
        \o tools[Len(e.toolOrder)]
ContentClosed(e) == [e EXCEPT !.reasoningOpen = FALSE, !.textOpen = FALSE, !.openTools = {}]

\* commitStepUsage
UsageCommitted(e) ==
    IF HasUsageValues(e.stepUsage)
    THEN [e EXCEPT !.totalUsage = AddUsage(@, e.stepUsage), !.stepUsage = NoUsage]
    ELSE e

-----------------------------------------------------------------------------
(* One branch per event. *)

\* stepStart: the tools of earlier steps are forgotten.
OnStepStart(e, event) ==
    Encoded([e EXCEPT !.step = event.step, !.openTools = {}, !.toolOrder = <<>>],
            Option(e.options.emitSteps, MessageFrame("STEP_STARTED", event.step)))

\* wireFinishReason: a reason without a name on the wire keeps the last one.
WireReason(reason) ==
    IF reason \in {"stop", "length", "content_filter", "tool-calls"} THEN reason ELSE ""

\* stepEnd
OnStepEnd(e, event) ==
    LET named == WireReason(event.reason)
    IN  Encoded([UsageCommitted(ContentClosed(e)) EXCEPT !.reason = IF named # "" THEN named ELSE @],
                ContentEnds(e) \o Option(e.options.emitSteps, MessageFrame("STEP_FINISHED", e.step)))

\* textDelta: an answer ends the thinking before it.
OnText(e, event) ==
    Encoded([e EXCEPT !.reasoningOpen = FALSE, !.textOpen = TRUE, !.textBuf = @ \o event.text],
            ReasoningEnds(e)
            \o Option(~ e.textOpen, MessageFrame("TEXT_MESSAGE_START", e.step))
            \o <<ContentFrame("TEXT_MESSAGE_CONTENT", e.step, event.text)>>)

\* reasoningDelta: the text stays open meanwhile.
OnReasoning(e, event) ==
    Encoded([e EXCEPT !.reasoningOpen = TRUE],
            (IF e.reasoningOpen THEN <<>>
             ELSE <<MessageFrame("REASONING_START", e.step),
                    MessageFrame("REASONING_MESSAGE_START", e.step)>>)
            \o <<ContentFrame("REASONING_MESSAGE_CONTENT", e.step, event.text)>>)

\* record: one record for each id of the run.
Record(calls, id, name) ==
    IF \E i \in DOMAIN calls : calls[i].id = id
    THEN [i \in DOMAIN calls |->
            IF calls[i].id = id /\ calls[i].name = "" THEN [calls[i] EXCEPT !.name = name] ELSE calls[i]]
    ELSE Append(calls, [id |-> id, name |-> name, args |-> <<>>])

\* appendArgs
RecordArgs(calls, id, args) ==
    [i \in DOMAIN calls |->
        IF calls[i].id = id THEN [calls[i] EXCEPT !.args = @ \o args] ELSE calls[i]]

\* toolStart
OnToolStart(e, event) ==
    LET isOpen == event.id \in e.openTools
    IN  IF event.id = "" THEN Refused(e)
        ELSE Encoded(
            [e EXCEPT !.reasoningOpen = FALSE, !.openTools = @ \cup {event.id},
                      !.toolOrder = IF isOpen THEN @ ELSE Append(@, event.id),
                      !.toolCalls = RecordArgs(Record(@, event.id, event.name), event.id, event.args)],
            ReasoningEnds(e) \o <<ToolFrame("TOOL_CALL_START", event.id, <<event.name>>)>>
            \o Option(event.args # <<>>, ToolFrame("TOOL_CALL_ARGS", event.id, event.args)))

\* toolArgs: nothing for a call that is not open.
OnToolArgs(e, event) ==
    IF event.args = <<>> \/ event.id \notin e.openTools THEN Encoded(e, <<>>)
    ELSE Encoded([e EXCEPT !.toolCalls = RecordArgs(@, event.id, event.args)],
                 <<ToolFrame("TOOL_CALL_ARGS", event.id, event.args)>>)

\* resultEvent
ResultFrame(id, output) == ToolFrame("TOOL_CALL_RESULT", id, <<output>>)

\* recordInterrupt and recordClientToolInterrupt
Interrupted(e, id, kind) == [e EXCEPT !.interrupts = Append(@, [id |-> id, kind |-> kind])]

\* encoder.Encode
AgUiEncode(e, event) ==
    CASE event.type = "stepStart"     -> OnStepStart(e, event)
      [] event.type = "stepEnd"       -> OnStepEnd(e, event)
      [] event.type = "text"          -> OnText(e, event)
      [] event.type = "reasoning"     -> OnReasoning(e, event)
      [] event.type = "toolCallStart" -> OnToolStart(e, event)
      [] event.type = "toolCallDelta" -> OnToolArgs(e, event)
      [] event.type = "ready"         -> Encoded(ToolClosed(e, event.id), ToolEnds(e, event.id))
      [] event.type = "result" ->
           Encoded(e, <<ResultFrame(event.result.id, event.result.output)>>)
      [] event.type = "invalid" ->
           Encoded(ToolClosed(e, event.id), ToolEnds(e, event.id) \o <<ResultFrame(event.id, "invalid")>>)
      [] event.type = "outputDenied"    -> Encoded(e, <<ResultFrame(event.id, "denied")>>)
      [] event.type = "approvalRequest" -> Encoded(Interrupted(e, event.id, "approval"), <<>>)
      [] event.type = "clientRequest"   -> Encoded(Interrupted(e, event.id, "client_tool"), <<>>)
      [] event.type = "usage" ->
           Encoded([e EXCEPT !.stepUsage = MergeUsage(@, event.usage)], <<>>)
      [] event.type = "source" -> Encoded(e, <<CustomFrame("source", event.url)>>)
      [] event.type = "file"   -> Encoded(e, <<CustomFrame("file", event.data)>>)
      [] event.type = "structuredOutput" ->
           Encoded(e, <<CustomFrame("structured-output.complete", event.object)>>)
      [] event.type = "stateDelta" ->
           IF event.valid THEN Encoded(e, <<Frame("STATE_DELTA")>>) ELSE Refused(e)
      [] event.type = "done"   -> Encoded(e, <<>>)

-----------------------------------------------------------------------------
(* The ends of a run. *)

\* encoder.Start
AgUiStart(e) ==
    Encoded(e, <<Frame("RUN_STARTED")>>
               \o Option(e.options.structuredStart, CustomFrame("structured-output.start", "")))

\* messagesSnapshot: the history of the request, then one assistant message with
\* everything this run said and called.
SnapshotFrame(e) ==
    [type |-> "MESSAGES_SNAPSHOT", text |-> e.textBuf, calls |-> e.toolCalls]

\* usagePayload: what of the usage has a place in the payload.
UsagePayload(usage) == [usage EXCEPT !.noCache = 0, !.text = 0, !.toolUse = 0]

RunFinished(outcome, interrupts, reason, usage) ==
    [type |-> "RUN_FINISHED", outcome |-> outcome, interrupts |-> interrupts, reason |-> reason,
     usage |-> UsagePayload(usage)]

\* encoder.Finish, finishInterrupted and finishSuccess
AgUiFinish(e, failed) ==
    LET closed == UsageCommitted(ContentClosed(e))
        ends   == CASE failed -> <<Frame("RUN_ERROR")>>
                    [] ~ failed /\ e.interrupts # <<>> ->
                         <<SnapshotFrame(e)>> \o Option(e.options.hasState, Frame("STATE_SNAPSHOT"))
                         \o <<RunFinished("interrupt", e.interrupts, "", closed.totalUsage)>>
                    [] ~ failed /\ e.interrupts = <<>> ->
                         <<RunFinished("success", <<>>, e.reason, closed.totalUsage)>>
    IN  Encoded(closed, ContentEnds(e) \o ends)
=============================================================================
