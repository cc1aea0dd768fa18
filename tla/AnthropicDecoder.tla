-------------------------- MODULE AnthropicDecoder --------------------------
(***************************************************************************)
(* provider/anthropic: the Messages API decoder and the normalisation of   *)
(* the non-streaming response.  A frame is one typed SSE event; the events *)
(* the decoder ignores (ping, content_block_stop, message_stop) and those  *)
(* whose data does not parse are "ignored".                                *)
(***************************************************************************)
EXTENDS StreamEvents

MessageStart(id, usage)            == [kind |-> "start", id |-> id, usage |-> usage]
BlockStart(index, type, id, name)  == [kind |-> "blockStart", index |-> index, type |-> type,
                                       id |-> id, name |-> name]
BlockDelta(index, delta, data)     == [kind |-> "blockDelta", index |-> index, delta |-> delta,
                                       data |-> data]
MessageDelta(stop, output)         == [kind |-> "messageDelta", stop |-> stop, output |-> output]
ErrorFrame                         == [kind |-> "error"]
IgnoredFrame                       == [kind |-> "ignored"]

KnownBlocks == {"text", "tool_use", "thinking"}

\* mapStopReason
MapStopReason(stop) ==
    CASE stop \in {"end_turn", "stop_sequence"} -> "stop"
      [] stop = "tool_use"   -> "tool_calls"
      [] stop = "max_tokens" -> "length"
      [] OTHER               -> "unknown"

\* handleMessageStart: the input total is the sum of the three counters.
AnthropicStreamUsage(u) ==
    [NoUsage EXCEPT !.input = u.input + u.cached + u.written, !.noCache = u.input,
                    !.cacheRead = u.cached, !.cacheWrite = u.written, !.output = u.output]

\* normalizeMessageResponse: the input total is the uncached input alone.
AnthropicSendUsage(u) == [AnthropicStreamUsage(u) EXCEPT !.input = u.input]

-----------------------------------------------------------------------------
(* The streaming decoder. *)

AnthropicStart == [messageID |-> NoId, blocks |-> [i \in {} |-> 0], warnings |-> 0]

OpenBlock(state, frame) ==
    LET warned == IF frame.type \in KnownBlocks THEN 0 ELSE 1
    IN  [state EXCEPT !.blocks = [i \in DOMAIN @ \cup {frame.index} |->
                                    IF i = frame.index THEN [id |-> frame.id, name |-> frame.name]
                                    ELSE @[i]],
                      !.warnings = @ + warned]

\* handleContentBlockDelta: JSON fragments of a block never opened are dropped,
\* and a signature_delta is not decoded.
BlockDeltaEvents(state, frame) ==
    CASE frame.delta = "text"     -> <<TextDelta(frame.data, NoSig)>>
      [] frame.delta = "thinking" -> <<ReasoningDelta(frame.data, NoSig)>>
      [] frame.delta = "json" /\ frame.index \in DOMAIN state.blocks ->
           <<ToolCallDelta(frame.index, state.blocks[frame.index].id,
                           state.blocks[frame.index].name, frame.data, NoSig)>>
      [] OTHER -> <<>>

\* dispatchSSEEvent and its handlers.  An error event stops the loop, which
\* then returns the context's error, if any.
DecodeAnthropic(state, frame) ==
    CASE frame.kind = "start" ->
           [state |-> [state EXCEPT !.messageID = frame.id],
            out   |-> <<UsageEvent(AnthropicStreamUsage(frame.usage))>>, next |-> "more"]
      [] frame.kind = "blockStart" ->
           [state |-> OpenBlock(state, frame), next |-> "more",
            out   |-> IF frame.type = "tool_use"
                      THEN <<ToolCallDelta(frame.index, frame.id, frame.name, <<>>, NoSig)>>
                      ELSE <<>>]
      [] frame.kind = "blockDelta" ->
           [state |-> state, out |-> BlockDeltaEvents(state, frame), next |-> "more"]
      [] frame.kind = "messageDelta" ->
           [state |-> state, next |-> "more",
            out   |-> (IF frame.output > 0
                       THEN <<UsageEvent([NoUsage EXCEPT !.output = frame.output])>> ELSE <<>>)
                      \o <<FinishEvent(state.messageID, MapStopReason(frame.stop), frame.stop,
                                       state.warnings)>>]
      [] frame.kind = "error"   -> [state |-> state, out |-> <<ErrorEvent("provider")>>,
                                    next |-> "end"]
      [] frame.kind = "ignored" -> [state |-> state, out |-> <<>>, next |-> "more"]

AnthropicEOF(state) == "end"

-----------------------------------------------------------------------------
(* The non-streaming response. *)

\* normalizeMessageResponse: empty text and thinking blocks are left out,
\* blocks of unknown type leave a warning.
NormalizeAnthropic(payload) ==
    LET Kept(b) == b.type = "tool_use" \/ (b.type \in {"text", "thinking"} /\ b.text # <<>>)
        Part(b) ==
            IF b.type = "tool_use"
            THEN [type |-> "toolCall", id |-> b.id, name |-> b.name, args |-> b.args, sig |-> NoSig]
            ELSE [type |-> IF b.type = "text" THEN "text" ELSE "reasoning",
                  text |-> b.text, sig |-> IF b.type = "text" THEN NoSig ELSE b.sig]
        kept  == SelectSeq(payload.content, Kept)
    IN  IF kept = <<>>
        THEN [failed |-> TRUE]
        ELSE [failed |-> FALSE, parts |-> [i \in DOMAIN kept |-> Part(kept[i])],
              text |-> JoinTexts(kept, "text"), reasoning |-> JoinTexts(kept, "thinking"),
              messageID |-> payload.id, reason |-> MapStopReason(payload.stop),
              raw |-> payload.stop,
              warnings |-> Len(SelectSeq(payload.content, LAMBDA b : b.type \notin KnownBlocks)),
              sources |-> <<>>, files |-> <<>>, usage |-> AnthropicSendUsage(payload.usage)]
=============================================================================
