-------------------------- MODULE ResponsesDecoder --------------------------
(***************************************************************************)
(* provider/openai: the Responses API decoder and the normalisation of the *)
(* non-streaming response.  A frame is one typed chunk; chunks the decoder *)
(* does not know are "ignored".                                            *)
(***************************************************************************)
EXTENDS StreamEvents

Created(id)                    == [kind |-> "created", id |-> id]
CompletedChunk(id, usage, status) == [kind |-> "completed", id |-> id, usage |-> usage,
                                      status |-> status]
TerminalChunk(type)            == [kind |-> "terminal", type |-> type]
ErrorChunk                     == [kind |-> "error"]
OutputDelta(kind, text)        == [kind |-> kind, text |-> text]
ItemAdded(type, id, callId, name) == [kind |-> "item", type |-> type, id |-> id,
                                      callId |-> callId, name |-> name]
ArgsDelta(itemId, args)        == [kind |-> "args", itemId |-> itemId, args |-> args]
SourcesChunk(urls)             == [kind |-> "sources", urls |-> urls]
DoneMarker                     == [kind |-> "doneMarker"]
UnparsedChunk                  == [kind |-> "unparsed"]
IgnoredChunk                   == [kind |-> "ignoredChunk"]

\* mapResponsesFinishReason
MapResponsesReason(status, hasCall) ==
    CASE status = "completed"         -> IF hasCall THEN "tool_calls" ELSE "stop"
      [] status = "max_output_tokens" -> "length"
      [] status = "content_filter"    -> "content_filter"
      [] OTHER                        -> IF hasCall THEN "tool_calls" ELSE "unknown"

\* The counters of handleResponseCompleted; input_tokens includes the cached ones.
ResponsesStreamUsage(u) ==
    [NoUsage EXCEPT !.input = u.input, !.cacheRead = u.cached, !.cacheWrite = u.written,
                    !.noCache = NonNegative(u.input - u.cached - u.written),
                    !.output = u.output, !.reasoning = u.reasoning,
                    !.text = u.output - u.reasoning, !.total = u.total]

\* normalizeResponsesUsage: the same without a negative remainder.
ResponsesSendUsage(u) == [ResponsesStreamUsage(u) EXCEPT !.text = NonNegative(@)]

-----------------------------------------------------------------------------
(* The streaming decoder. *)

ResponsesStart == [messageID |-> NoId, calls |-> [i \in {} |-> 0], order |-> <<>>]

\* indexOfItemID, counted from zero: the first item added under this id.
IndexOfItem(order, id) == (CHOOSE i \in DOMAIN order :
                             order[i] = id /\ \A j \in 1 .. i - 1 : order[j] # id) - 1

\* The message id is that of the first message item; handleOutputItemAdded
\* announces a function call under the next index.
AddItem(state, item) ==
    LET named == IF item.type = "message" /\ state.messageID = NoId
                 THEN [state EXCEPT !.messageID = item.id] ELSE state
        call  == [id |-> item.callId, name |-> item.name]
    IN  IF item.type # "function_call"
        THEN [state |-> named, out |-> <<>>, next |-> "more"]
        ELSE [state |-> [named EXCEPT !.order = Append(@, item.id),
                                      !.calls = [i \in DOMAIN @ \cup {item.id} |->
                                                   IF i = item.id THEN call ELSE @[i]]],
              out   |-> <<ToolCallDelta(Len(state.order), item.callId, item.name, <<>>, NoSig)>>,
              next  |-> "more"]

\* handleFunctionCallArgsDelta: arguments of an item never added are dropped.
ArgsEvents(state, frame) ==
    IF frame.args = <<>> \/ frame.itemId \notin DOMAIN state.calls
    THEN <<>>
    ELSE LET call == state.calls[frame.itemId]
         IN  <<ToolCallDelta(IndexOfItem(state.order, frame.itemId), call.id, call.name,
                             frame.args, NoSig)>>

\* handleResponseCompleted: usage, then the finish event; the stream goes on.
CompletedEvents(state, frame) ==
    [i \in DOMAIN frame.usage |-> UsageEvent(ResponsesStreamUsage(frame.usage[i]))]
    \o <<FinishEvent(state.messageID,
                     MapResponsesReason(frame.status, DOMAIN state.calls # {}), frame.status, 0)>>

\* A failed, cancelled or incomplete response ends the stream with a bare
\* finish event: no usage, no message id.
TerminalEvents(frame) ==
    <<FinishEvent(NoId, MapResponsesReason(frame.type, FALSE), frame.type, 0)>>

\* One turn of the loop of decodeResponsesSSEStream with dispatchChunk.
DecodeResponses(state, frame) ==
    CASE frame.kind = "completed"  -> [state |-> state, out |-> CompletedEvents(state, frame),
                                       next |-> "more"]
      [] frame.kind = "terminal"   -> [state |-> state, out |-> TerminalEvents(frame), next |-> "end"]
      [] frame.kind = "error"      -> [state |-> state, out |-> <<ErrorEvent("provider")>>,
                                       next |-> "end"]
      [] frame.kind = "text"       -> [state |-> state, next |-> "more",
                                       out |-> Option(frame.text # <<>>, TextDelta(frame.text, NoSig))]
      [] frame.kind = "reasoning"  -> [state |-> state, next |-> "more",
                                       out |-> Option(frame.text # <<>>,
                                                      ReasoningDelta(frame.text, NoSig))]
      [] frame.kind = "item"       -> AddItem(state, frame)
      [] frame.kind = "args"       -> [state |-> state, out |-> ArgsEvents(state, frame),
                                       next |-> "more"]
      [] frame.kind = "sources"    -> [state |-> state, next |-> "more",
                                       out |-> [i \in DOMAIN frame.urls |-> SourceEvent(frame.urls[i])]]
      [] frame.kind = "doneMarker" -> [state |-> state, out |-> <<>>, next |-> "end"]
      [] frame.kind = "unparsed"   -> [state |-> state, out |-> <<>>, next |-> "fail"]
      [] frame.kind \in {"created", "ignoredChunk"} ->
           [state |-> state, out |-> <<>>, next |-> "more"]

ResponsesEOF(state) == "end"

-----------------------------------------------------------------------------
(* The non-streaming response. *)

\* responsesNormalization.appendItem for the items that leave a part.
ResponsesPart(item) ==
    CASE item.type = "message"       -> [type |-> "text", text |-> item.text, sig |-> NoSig]
      [] item.type = "reasoning"     -> [type |-> "reasoning", text |-> item.text, sig |-> NoSig]
      [] item.type = "function_call" -> [type |-> "toolCall", id |-> item.callId, name |-> item.name,
                                         args |-> item.args, sig |-> NoSig]
      [] item.type = "image"         -> [type |-> "file", data |-> item.data]

\* normalizeResponsesResponse: an incomplete response is finished for the
\* reason its details give.
NormalizeResponses(payload) ==
    LET Kept(i) == \/ i.type \in {"message", "reasoning"} /\ i.text # <<>>
                   \/ i.type \in {"function_call", "image"}
        kept     == SelectSeq(payload.output, Kept)
        parts    == [i \in DOMAIN kept |-> ResponsesPart(kept[i])]
        messages == SelectSeq(payload.output, LAMBDA i : i.type = "message")
        id       == IF messages = <<>> THEN NoId ELSE messages[1].id
        raw      == IF payload.status = "incomplete" /\ payload.reason # "" THEN payload.reason
                    ELSE payload.status
        hasCall  == \E i \in DOMAIN parts : parts[i].type = "toolCall"
    IN  IF parts = <<>> /\ payload.status # "incomplete"
        THEN [failed |-> TRUE]
        ELSE [failed |-> FALSE, parts |-> parts, text |-> JoinTexts(parts, "text"),
              reasoning |-> JoinTexts(parts, "reasoning"), messageID |-> id,
              reason |-> MapResponsesReason(raw, hasCall), raw |-> raw, warnings |-> 0,
              sources |-> <<>>,
              usage |-> IF payload.usage = NoCounters THEN NoUsage
                        ELSE ResponsesSendUsage(payload.usage[1]),
              files |-> LET images == SelectSeq(parts, LAMBDA p : p.type = "file")
                        IN  [i \in DOMAIN images |-> images[i].data]]
=============================================================================
