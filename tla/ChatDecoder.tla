---------------------------- MODULE ChatDecoder -----------------------------
(***************************************************************************)
(* provider/openaicompat: the Chat Completions decoder that OpenAI, Gemini *)
(* in compatibility mode and every other compatible backend share, and the *)
(* normalisation of the non-streaming response.                            *)
(*                                                                         *)
(* A frame is the payload of one SSE data field: a chunk, the [DONE]       *)
(* marker, or bytes that do not parse.  A chunk without choices has        *)
(* choice = NoChoice, one without usage has usage = NoCounters.            *)
(***************************************************************************)
EXTENDS StreamEvents

DoneFrame == [kind |-> "done"]
BadFrame  == [kind |-> "bad"]

NoChoice == [finish |-> "", reasoning |-> <<>>, content |-> <<>>, thought |-> FALSE,
             sig |-> NoSig, calls |-> <<>>]

ChatChunk(choice, usage, sources) ==
    [kind |-> "chunk", choice |-> choice, usage |-> usage, sources |-> sources]

\* MapFinishReason
MapFinishReason(raw) ==
    CASE raw = "stop"           -> "stop"
      [] raw = "tool_calls"     -> "tool_calls"
      [] raw = "length"         -> "length"
      [] raw = "content_filter" -> "content_filter"
      [] OTHER                  -> "unknown"

\* What both paths read of the counters u alike: prompt_tokens includes cached
\* and cache-write tokens.
ChatInput(u) ==
    [NoUsage EXCEPT !.input = u.prompt, !.cacheRead = u.cached, !.cacheWrite = u.written,
                    !.noCache = NonNegative(u.prompt - u.cached - u.written), !.total = u.total]

\* emitUsageEvent: the thoughts count stands in for a missing reasoning count.
ChatStreamUsage(u) ==
    LET reasoning == IF u.reasoning # 0 THEN u.reasoning ELSE u.thoughts
    IN  [ChatInput(u) EXCEPT !.output = u.completion, !.reasoning = reasoning,
                             !.text = u.completion - reasoning]

\* normalizeChatUsage knows no thoughts count.  It infers a missing output count
\* and leaves no negative remainder.
ChatSendUsage(u) ==
    LET output == IF u.completion = 0 /\ u.total > u.prompt THEN u.total - u.prompt
                  ELSE u.completion
    IN  [ChatInput(u) EXCEPT !.output = output, !.reasoning = u.reasoning,
                             !.text = NonNegative(output - u.reasoning)]

-----------------------------------------------------------------------------
(* The streaming decoder. *)

ChatStart == [seen |-> FALSE, finished |-> FALSE]

\* emitChunkEvents: the finish event goes out before the content of its chunk.
ChatChunkEvents(chunk) ==
    LET c == chunk.choice
        flagged == c.thought /\ (c.content # <<>> \/ c.sig # NoSig)
        plain   == ~ c.thought /\ c.content # <<>>
    IN  [i \in DOMAIN chunk.usage |-> UsageEvent(ChatStreamUsage(chunk.usage[i]))]
        \o [i \in DOMAIN chunk.sources |-> SourceEvent(chunk.sources[i])]
        \o Option(c.finish # "", FinishEvent(NoId, MapFinishReason(c.finish), c.finish, 0))
        \o Option(c.reasoning # <<>>, ReasoningDelta(c.reasoning, NoSig))
        \o Option(flagged, ReasoningDelta(c.content, c.sig))
        \o Option(plain, TextDelta(c.content, c.sig))
        \o [i \in DOMAIN c.calls |->
              LET t == c.calls[i] IN ToolCallDelta(t.index, t.id, t.name, t.args, t.sig)]

\* One turn of the loop of DecodeSSEStream: the next state, the events sent
\* and whether the loop goes on ("more"), returns nil ("end") or an error.
DecodeChat(state, frame) ==
    CASE frame.kind = "done" ->
           [state |-> state, next |-> "end",
            out   |-> Option(~ state.finished, FinishEvent(NoId, "stop", "stop", 0))]
      [] frame.kind = "bad" -> [state |-> state, out |-> <<>>, next |-> "fail"]
      [] frame.kind = "chunk" ->
           [state |-> [seen |-> TRUE, finished |-> state.finished \/ frame.choice.finish # ""],
            out   |-> ChatChunkEvents(frame), next |-> "more"]

\* A stream without a single data line is an error.
ChatEOF(state) == IF state.seen THEN "end" ELSE "fail"

-----------------------------------------------------------------------------
(* The non-streaming response. *)

\* normalizeChatCompletion of a payload with one choice.
NormalizeChat(payload) ==
    LET parts == Option(payload.content # <<>>,
                        [type |-> "text", text |-> payload.content, sig |-> NoSig])
                 \o Option(payload.reasoning # <<>>,
                           [type |-> "reasoning", text |-> payload.reasoning, sig |-> NoSig])
                 \o [i \in DOMAIN payload.calls |->
                       [type |-> "toolCall", id |-> payload.calls[i].id,
                        name |-> payload.calls[i].name, args |-> payload.calls[i].args,
                        sig |-> NoSig]]
        reason == MapFinishReason(payload.finish)
    IN  IF parts = <<>> /\ reason # "length"
        THEN [failed |-> TRUE]
        ELSE [failed |-> FALSE, parts |-> parts, text |-> payload.content,
              reasoning |-> payload.reasoning, messageID |-> NoId, reason |-> reason,
              raw |-> payload.finish, warnings |-> 0, sources |-> <<>>, files |-> <<>>,
              usage |-> IF payload.usage = NoCounters THEN NoUsage
                        ELSE ChatSendUsage(payload.usage[1])]
=============================================================================
