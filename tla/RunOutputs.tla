----------------------------- MODULE RunOutputs ------------------------------
(***************************************************************************)
(* What a run leaves behind: its events folded into a Result               *)
(* (ResultReducer), encoded for a client (AiSdkStream, AgUiStream) by the  *)
(* protocol driver (uistream/pipe.go) or by the AI SDK adapter             *)
(* (ainode/adapter_stream.go), and the histories the next model call and   *)
(* the next request are built from (RequestHistory, UiMessage).            *)
(*                                                                         *)
(* The driver of AgentRun is reduced here to the order of its events: it   *)
(* emits, and the consumer takes one event at a time, in that order.       *)
(***************************************************************************)
EXTENDS ResultReducer, RequestHistory

CONSTANTS Configs,     \* [protocol, driver, options, parallel, prompt, parts, resumed, turns]
          Kinds        \* what may become of a tool call

Sdk == INSTANCE UiMessage
Ui  == INSTANCE AgUiStream

\* What is asked of a configuration: a provider's answer is a sequence of the events that
\* applyStreamEvent handles, and a usage report has a number for each counter.
Usage == [DOMAIN NoUsage -> Int]

IsAnswer(events) ==
    /\ events \in Seq(ToSet(events))
    /\ \A i \in DOMAIN events :
         /\ events[i].type \in {"text", "reasoning", "usage", "source", "file", "finish", "toolCall"}
         /\ events[i].type = "usage" => events[i].usage \in Usage

\* Two calls of an answer do not share an id.
OwnIds(events) ==
    \A i, j \in {k \in DOMAIN events : events[k].type = "toolCall" /\ events[k].id # NoId} :
        events[i].id = events[j].id => events[i].index = events[j].index

\* AG-UI goes through Pipe; the adapter is the AI SDK's own.
ASSUME RunOutputsAssumption ==
    \A c \in Configs : /\ c.turns \in Seq(ToSet(c.turns))
                       /\ \A i \in DOMAIN c.turns : IsAnswer(c.turns[i])
                       /\ c.protocol = "ag-ui" => c.driver = "pipe"

\* Gemini's calls are numbered by the decoder; the other providers promise it.
ASSUME ProviderAssumption ==
    \A c \in Configs : \A i \in DOMAIN c.turns : OwnIds(c.turns[i])

\* A run begins with messages the runner accepts.
ASSUME RunnerAssumption ==
    \A c \in Configs : AcceptedByRunner(c.prompt \o Sdk!ToAIMessages(c.parts))

VARIABLES config,      \* the run's configuration, request and provider answers
          phase,       \* resuming, between (steps), model, tools, closed
          step,        \* steps begun
          rest,        \* still to come: answers to resume, events of the current turn
          turn,        \* agent/stream.go: streamResult
          batch,       \* the calls of the turn: [call, kind, stage]
          history,     \* the messages the next model call is made with
          spent,       \* the usage of the finished turns
          queue,       \* events emitted and not yet consumed
          reducer,     \* the Result
          enc,         \* the protocol encoder
          sink         \* the driver's side: see NewSink

runVars  == <<phase, step, rest, turn, batch, history, spent>>
vars     == <<config, runVars, queue, reducer, enc, sink>>

-----------------------------------------------------------------------------
(* The encoder of the configured protocol. *)

IsAgUi == config.protocol = "ag-ui"

NewEncoder(c)     == IF c.protocol = "ag-ui" THEN Ui!NewAgUi(c.options) ELSE Sdk!NewAiSdk
StartFrames(c, e) == IF c.protocol = "ag-ui" THEN Ui!AgUiStart(e) ELSE Sdk!AiSdkStart(e)
Encode(e, event)  == IF IsAgUi THEN Ui!AgUiEncode(e, event) ELSE Sdk!AiSdkEncode(e, event)
Finish(e, failed) == IF IsAgUi THEN Ui!AgUiFinish(e, failed) ELSE Sdk!AiSdkFinish(e, failed)

\* wire: the frames written; seen: the frames made, written or not.
NewSink(frames) == [open |-> TRUE, broken |-> FALSE, failed |-> FALSE, done |-> FALSE,
                    finishes |-> 0, wire |-> frames, seen |-> frames]

Init ==
    /\ config \in Configs
    /\ rest = config.resumed /\ phase = IF rest = <<>> THEN "between" ELSE "resuming"
    /\ step = 0 /\ turn = EmptyTurn /\ batch = <<>> /\ spent = NoUsage /\ queue = <<>>
    /\ history = config.prompt \o Sdk!ToAIMessages(config.parts)
    /\ reducer = NewReducer(history)
    /\ LET started == StartFrames(config, NewEncoder(config))
       IN  enc = started.enc /\ sink = NewSink(started.frames)

-----------------------------------------------------------------------------
(* The run (agent/runtime.go, agent/step.go). *)

Running == sink.open /\ queue = <<>>
Emits(events) == queue' = events /\ UNCHANGED <<config, reducer, enc, sink>>

\* resumeToolApprovals: an answered call is run or refused, before any
\* step.
ResumeCall ==
    LET answer == Head(rest)
        result == ResumedResult(answer.call, answer.approved)
    IN  /\ Running /\ phase = "resuming"
        /\ rest' = Tail(rest) /\ phase' = IF rest' = <<>> THEN "between" ELSE "resuming"
        /\ Emits(<<ResumedEvent(answer.call, answer.approved), ResultStep(result)>>)
        /\ history' = Append(history, ToolResultMessage(result))
        /\ UNCHANGED <<step, turn, batch, spent>>

\* The next step calls the model.
BeginStep ==
    /\ Running /\ phase = "between" /\ step < Len(config.turns)
    /\ phase' = "model" /\ step' = step + 1
    /\ rest' = config.turns[step + 1] /\ turn' = EmptyTurn /\ batch' = <<>>
    /\ Emits(<<StepStart(step)>>)
    /\ UNCHANGED <<history, spent>>

\* applyStreamEvent on the next event of the answer.
ReadStream ==
    /\ Running /\ phase = "model" /\ rest # <<>>
    /\ rest' = Tail(rest)
    /\ turn' = TurnAfter(turn, Head(rest))
    /\ Emits(StepEventsOf(turn, Head(rest)))
    /\ UNCHANGED <<phase, step, batch, history, spent>>

\* StepEnd, and the end of the run when nothing is left to do: an answer
\* without calls (with its structured output, if the run has a schema) or a
\* call that waits for the client.
EndStep(last) ==
    LET end == StepEnd(step - 1, turn.messageID, turn.reason)
    IN  /\ phase' = IF last THEN "closed" ELSE "between"
        /\ spent' = AddUsage(spent, turn.usage)
        /\ Emits(<<end>>
                 \o Option(last /\ batch = <<>> /\ config.options.structuredStart,
                           StructuredOutput("object"))
                 \o Option(last, Done))
        /\ UNCHANGED <<step, rest, turn, batch, history>>

\* The answer has no calls.
Answered ==
    /\ Running /\ phase = "model" /\ rest = <<>> /\ Completed(turn.fold) = <<>>
    /\ EndStep(TRUE)

\* The calls of the answer go into the history; what becomes of each is the
\* tools' and the hooks' choice.  Arguments that are not JSON are invalid.
CallTools ==
    LET calls == Completed(turn.fold)
        Fits(kind, call) == kind = "invalid" \/ call.args = <<>> \/ ValidJSON(call.args)
    IN  /\ Running /\ phase = "model" /\ rest = <<>> /\ calls # <<>>
        /\ phase' = "tools"
        /\ history' = Append(history, AssistantToolCallMessage(turn, calls))
        /\ \E kinds \in [DOMAIN calls -> Kinds] :
             /\ \A i \in DOMAIN calls : Fits(kinds[i], calls[i])
             /\ batch' = [i \in DOMAIN calls |-> [call |-> calls[i], kind |-> kinds[i],
                                                  stage |-> "waiting"]]
        /\ UNCHANGED <<config, step, rest, turn, spent, queue, reducer, enc, sink>>

\* The events of a call before its result.
Before(i) == CallEvents(batch[i].call, batch[i].kind)

Reached(i, stages) == batch[i].stage \in stages
MoveTo(i, stage)   == batch' = [batch EXCEPT ![i].stage = stage]

\* A call is announced in the order of the answer: one at a time, when the one
\* before it is through, or all before the first result if they run in parallel.
\* In parallel an invalid call is only reported with its result.
Announce(i) ==
    /\ Running /\ phase = "tools" /\ Reached(i, {"waiting"})
    /\ \A j \in 1 .. i - 1 :
         IF config.parallel THEN ~ Reached(j, {"waiting"}) ELSE Reached(j, {"committed"})
    /\ MoveTo(i, "announced")
    /\ Emits(CASE batch[i].kind = "invalid" -> <<>>
               [] batch[i].kind = "client"  -> Before(i)
               [] OTHER                     -> <<ReadyStep(batch[i].call)>>)
    /\ UNCHANGED <<phase, step, rest, turn, history, spent>>

\* approvedToolCall: the approval is asked for, and answered here if there is an
\* approver.
Approve(i) ==
    /\ Running /\ phase = "tools" /\ Reached(i, {"announced"})
    /\ MoveTo(i, "decided")
    /\ Emits(IF batch[i].kind \in {"pending", "granted", "denied"}
             THEN Tail(Before(i)) ELSE <<>>)
    /\ UNCHANGED <<phase, step, rest, turn, history, spent>>

\* The result, in the order of the answer, and what the model is shown of it.
Commit(i) ==
    /\ Running /\ phase = "tools" /\ Reached(i, {"decided"})
    /\ \A j \in DOMAIN batch :
         /\ config.parallel => Reached(j, {"decided", "committed"})
         /\ j < i => Reached(j, {"committed"})
    /\ MoveTo(i, "committed")
    /\ LET result   == CallResult(batch[i].call, batch[i].kind)
           answered == ~ Suspends(batch[i].kind)
       IN  /\ Emits((IF batch[i].kind = "invalid" THEN Before(i) ELSE <<>>)
                    \o Option(answered, ResultStep(result)))
           /\ history' = history \o Option(answered, ToolResultMessage(result))
    /\ UNCHANGED <<phase, step, rest, turn, spent>>

\* The step ends when every call is through; one that waits ends the run.
ToolsDone ==
    /\ Running /\ phase = "tools"
    /\ \A i \in DOMAIN batch : Reached(i, {"committed"})
    /\ EndStep(\E i \in DOMAIN batch : Suspends(batch[i].kind))

\* The application publishes run state, well formed or not.
PublishState ==
    /\ Running /\ phase = "model" /\ IsAgUi /\ config.options.hasState
    /\ ~ \E i \in DOMAIN sink.seen : sink.seen[i].type = "STATE_DELTA"  \* bound: once
    /\ \E valid \in BOOLEAN : Emits(<<StatePatch(valid)>>)
    /\ UNCHANGED runVars

\* The model, a hook or the budget of turns ends the run with an error, which
\* may still come after Done.
Fail ==
    /\ Running
    /\ phase # "closed" \/ sink.done
    /\ phase' = "closed"
    /\ Emits(<<[type |-> "error"]>>)
    /\ UNCHANGED <<step, rest, turn, batch, history, spent>>

RunNext == \/ ResumeCall \/ BeginStep \/ ReadStream \/ Answered \/ CallTools
           \/ \E i \in DOMAIN batch : Announce(i) \/ Approve(i) \/ Commit(i)
           \/ ToolsDone \/ PublishState \/ Fail

-----------------------------------------------------------------------------
(* uistream/pipe.go. *)

IsPipe    == config.driver = "pipe"
RunIsOver == phase = "closed" /\ queue = <<>>

Written(s, frames) == [s EXCEPT !.wire = @ \o frames, !.seen = @ \o frames]

\* Pipe's deferred function: Finish, and its frames unless a write has failed.
Closed(s, e, failed) ==
    LET finish == Finish(e, failed)
    IN  /\ enc'  = finish.enc
        /\ sink' = [(IF s.broken THEN [s EXCEPT !.seen = @ \o finish.frames]
                     ELSE Written(s, finish.frames))
                     EXCEPT !.open = FALSE, !.failed = failed, !.finishes = @ + 1]

\* sequence: the reducer takes an event before the consumer sees it.
Takes(event) == /\ queue' = Tail(queue)
                /\ reducer' = Consume(reducer, event)
                /\ UNCHANGED <<config, runVars>>
Noted(event) == [sink EXCEPT !.done = @ \/ event.type = "done"]

NextEvent == sink.open /\ queue # <<>> /\ Head(queue).type # "error"

\* Encode and write; an encoder that refuses the event ends the stream.
PipeEvent ==
    /\ IsPipe /\ NextEvent /\ Takes(Head(queue))
    /\ LET encoded == Encode(enc, Head(queue))
       IN  IF encoded.ok
           THEN enc' = encoded.enc /\ sink' = Written(Noted(Head(queue)), encoded.frames)
           ELSE Closed(sink, encoded.enc, TRUE)

\* The client is gone: a frame cannot be written, and nothing after it is.
PipeWriteFails ==
    /\ IsPipe /\ NextEvent /\ Takes(Head(queue))
    /\ LET encoded == Encode(enc, Head(queue))
       IN  \E n \in 0 .. Len(encoded.frames) - 1 :
             Closed([Written(Noted(Head(queue)), SubSeq(encoded.frames, 1, n)) EXCEPT !.broken = TRUE],
                    encoded.enc, TRUE)

\* The request is cancelled, or the encoder or the writer panics: the event is
\* not encoded.
PipeCancelled ==
    /\ IsPipe /\ NextEvent /\ Takes(Head(queue))
    /\ Closed(sink, enc, TRUE)

\* The iterator's error.
PipeError ==
    /\ IsPipe /\ sink.open /\ queue # <<>> /\ Head(queue).type = "error"
    /\ queue' = Tail(queue)
    /\ Closed(sink, enc, TRUE)
    /\ UNCHANGED <<config, runVars, reducer>>

\* The end of the iterator; cancellation is looked at once more after it.
PipeEnds ==
    /\ IsPipe /\ sink.open /\ RunIsOver
    /\ \E cancelled \in BOOLEAN : Closed(sink, enc, cancelled)
    /\ UNCHANGED <<config, runVars, queue, reducer>>

-----------------------------------------------------------------------------
(* ainode/adapter_stream.go. *)

\* A finish chunk carries the usage so far, after an error too, unless it has
\* no total (usageMetadata).
AdapterChunk(chunk) ==
    IF chunk.type = "finish"
    THEN [chunk EXCEPT !.usage = IF enc.total.total = 0 THEN NoUsage
                                 ELSE [enc.total EXCEPT !.toolUse = 0]]
    ELSE chunk

\* Adapter.Stream: the builder sees every chunk, also when a write has failed,
\* and there is no Finish.
AdapterWrites(encoded, event, n) ==
    LET chunks == [i \in DOMAIN encoded.frames |-> AdapterChunk(encoded.frames[i])]
    IN  /\ enc'  = encoded.enc
        /\ sink' = [Noted(event) EXCEPT
                      !.seen   = @ \o chunks,
                      !.wire   = IF sink.broken THEN @ ELSE @ \o SubSeq(chunks, 1, n),
                      !.broken = @ \/ n < Len(chunks),
                      !.open   = event.type # "error",
                      !.failed = event.type = "error"]

AdapterEvent ==
    /\ ~ IsPipe /\ NextEvent /\ Takes(Head(queue))
    /\ LET encoded == Encode(enc, Head(queue))
       IN  \E n \in 0 .. Len(encoded.frames) : AdapterWrites(encoded, Head(queue), n)

AdapterError ==
    /\ ~ IsPipe /\ sink.open /\ queue # <<>> /\ Head(queue).type = "error"
    /\ queue' = Tail(queue)
    /\ LET encoded == Finish(enc, TRUE) IN AdapterWrites(encoded, Head(queue), Len(encoded.frames))
    /\ UNCHANGED <<config, runVars, reducer>>

AdapterEnds ==
    /\ ~ IsPipe /\ sink.open /\ RunIsOver
    /\ sink' = [sink EXCEPT !.open = FALSE]
    /\ UNCHANGED <<config, runVars, queue, reducer, enc>>

SinkNext == \/ PipeEvent \/ PipeWriteFails \/ PipeCancelled \/ PipeError \/ PipeEnds
            \/ AdapterEvent \/ AdapterError \/ AdapterEnds

Next == RunNext \/ SinkNext
Spec == Init /\ [][Next]_vars

-----------------------------------------------------------------------------
(* Properties. *)

\* Shapes and bounds; the Result never counts a step the run has not begun.
TypeInvariant ==
    /\ config \in Configs
    /\ phase \in {"resuming", "between", "model", "tools", "closed"}
    /\ step \in 0 .. Len(config.turns)
    /\ reducer.steps \in 0 .. step
    /\ \A i \in DOMAIN batch :
         /\ batch[i].kind \in Kinds
         /\ batch[i].stage \in {"waiting", "announced", "decided", "committed"}
    /\ sink.finishes \in 0 .. 1
    /\ spent \in Usage /\ reducer.usage \in Usage

AgUiStarts   == {"TEXT_MESSAGE_START", "REASONING_MESSAGE_START", "TOOL_CALL_START"}
AgUiContents == {"TEXT_MESSAGE_CONTENT", "REASONING_MESSAGE_CONTENT", "TOOL_CALL_ARGS"}
AgUiEnds     == {"TEXT_MESSAGE_END", "REASONING_MESSAGE_END", "TOOL_CALL_END"}
AgUiTerminals == {"RUN_FINISHED", "RUN_ERROR"}

\* The AG-UI message or call a frame belongs to.
BlockKey(frame) ==
    CASE frame.type \in {"TOOL_CALL_START", "TOOL_CALL_ARGS", "TOOL_CALL_END"} -> <<"tool", frame.id>>
      [] frame.type \in {"TEXT_MESSAGE_START", "TEXT_MESSAGE_CONTENT", "TEXT_MESSAGE_END"} ->
           <<"text", frame.step>>
      [] OTHER -> <<"reasoning", frame.step>>

\* What the first n frames have started and not ended.
StillOpen(frames, n) ==
    {BlockKey(frames[i]) : i \in {j \in 1 .. n :
        /\ frames[j].type \in AgUiStarts
        /\ \A k \in j + 1 .. n :
             ~ (frames[k].type \in AgUiEnds /\ BlockKey(frames[k]) = BlockKey(frames[j]))}}

\* Every message and call is started before its content, ended after it, and
\* ended before the run is.
FramesPair(frames) ==
    \A n \in DOMAIN frames :
        /\ frames[n].type \in AgUiStarts => BlockKey(frames[n]) \notin StillOpen(frames, n - 1)
        /\ frames[n].type \in AgUiContents \cup AgUiEnds => BlockKey(frames[n]) \in StillOpen(frames, n - 1)
        /\ frames[n].type \in AgUiTerminals => StillOpen(frames, n - 1) = {}

BlockCodes == {"block-already-open", "block-without-start", "block-still-open"}
\* The places of the frames that end a run.
Terminals(frames) == {i \in DOMAIN frames : frames[i].type \in AgUiTerminals \cup {"finish"}}

\* Whatever ends the stream, in any order of text, thinking and calls, the
\* client gets paired blocks and one terminal frame, the last one; only an AI
\* SDK run that fails after it was done has two.  The encoder is finished once,
\* and nothing follows a write that failed.
WireIsWellFormed ==
    /\ IF IsAgUi THEN FramesPair(sink.wire) ELSE enc.violations \cap BlockCodes = {}
    /\ IsPipe => sink.finishes = IF sink.open THEN 0 ELSE 1
    /\ sink.open => Cardinality(Terminals(sink.wire)) <= 1
    /\ ~ sink.open /\ ~ sink.broken =>
         /\ Last(sink.wire).type \in AgUiTerminals \cup {"[DONE]"}
         /\ Cardinality(Terminals(sink.wire)) =
              IF ~ IsAgUi /\ sink.done /\ sink.failed THEN 2 ELSE 1
    /\ IsPrefix(sink.wire, sink.seen) /\ (~ sink.broken => sink.wire = sink.seen)

\* Two accounts tell of the same results, in the same order, and of the same
\* calls; within a message the calls may come as they were announced or by index.
\* The arguments of a call refused before it ran are what its deltas said: all of
\* them in one account, those up to the end of a JSON value in the other.
SameTraffic(one, other) ==
    LET calls   == PartsOf(one, "toolCall")    others == PartsOf(other, "toolCall")
        results == PartsOf(one, "toolResult")
        Said(parts) == [i \in DOMAIN parts |-> <<parts[i].id, parts[i].name, parts[i].output>>]
        invalid == {results[i].id : i \in {j \in DOMAIN results : results[j].output = "invalid"}}
        Same(c, d) == /\ c.id = d.id /\ c.name = d.name
                      /\ IsPrefix(c.args, d.args) \/ IsPrefix(d.args, c.args)
                      /\ c.id \notin invalid => c.args = d.args
    IN  /\ Said(results) = Said(PartsOf(other, "toolResult"))
        /\ Len(calls) = Len(others)
        /\ \A i \in DOMAIN calls : \E j \in DOMAIN others : Same(calls[i], others[j])

\* What the next request says of the calls and of their results: the arguments
\* as the client was told them, the output as the tool said it.
CallsSaid(parts, Args(_)) ==
    {<<parts[i].id, parts[i].name, Args(parts[i])>> : i \in DOMAIN parts}
ResultsSaid(results) == {<<results[i].id, results[i].name, results[i].output>> : i \in DOMAIN results}

\* The request the client's message makes: every call of the run with the
\* arguments the history has for it, every result with the tool's own output,
\* each once, in messages the runner accepts.
ReturnsTheRun(returned) ==
    LET calls   == PartsOf(returned, "toolCall")
        results == PartsOf(returned, "toolResult")
        known   == PartsOf(history, "toolCall")
    IN  /\ Len(calls) = Len(known)
        /\ CallsSaid(calls, LAMBDA p : p.args)
             = CallsSaid(known, LAMBDA p : Sdk!ParseToolArgs(p.args))
        /\ Len(results) = Len(PartsOf(history, "toolResult"))
        /\ ResultsSaid(results) = ResultsSaid(reducer.results)
        /\ AcceptedByRunner(config.prompt \o returned)

IdsOf(messages, type) ==
    LET parts == PartsOf(messages, type) IN {parts[i].id : i \in DOMAIN parts}

\* Between steps, and at a clean end, three accounts of the run agree: the
\* Result's transcript, the history of the next model call, and the UI message
\* the client would send back, whose calls all have their arguments again, also
\* those a tool-input-error had cleared.  The runner accepts the transcript
\* exactly when no call came without arguments, and the client's message always;
\* every provider refuses the transcript or is sent its calls and results, and
\* the user's files or a warning for them.  What the server stores keeps at least
\* the results of the tools that succeeded.
Settled == Running /\ phase \in {"between", "closed"}


\* Usage is reported in snapshots within a turn and in turns within a run, and
\* three components fold it on their own.  Whenever the consumer is up to date,
\* the Result counts every finished turn once, and of the current one its last
\* snapshot.
ResultCountsUsageOnce ==
    Running => reducer.usage = AddUsage(spent, IF phase \in {"model", "tools"} THEN turn.usage ELSE NoUsage)

\* The AI SDK finish chunk and RUN_FINISHED carry what the turns spent, too.
WireCountsUsageOnce ==
    LET last == sink.wire[Max(Terminals(sink.wire))].usage
    IN  ~ sink.open /\ ~ sink.broken /\ ~ sink.failed =>
          CASE IsAgUi   -> last = Ui!UsagePayload(spent)
            [] ~ IsAgUi -> last = IF ~ IsPipe /\ spent.total = 0 THEN NoUsage
                                  ELSE [spent EXCEPT !.toolUse = 0]

\* What the AG-UI encoder says of the argument deltas it skips: they belong to a
\* call the client never saw start (toolArgs).  So the arguments a call ran with
\* are all among the deltas the client got.
ArgumentsReachTheClient ==
    Settled /\ IsAgUi =>
        \A i \in DOMAIN reducer.results :
            LET id    == reducer.results[i].id
                own   == SelectSeq(sink.wire, LAMBDA f : f.type = "TOOL_CALL_ARGS" /\ f.id = id)
                began == \E k \in DOMAIN sink.wire : sink.wire[k].type = "TOOL_CALL_START"
                                                      /\ sink.wire[k].id = id
            IN  began => IsPrefix(reducer.results[i].args,
                                  FlattenSeq([k \in DOMAIN own |-> own[k].val]))
=============================================================================
