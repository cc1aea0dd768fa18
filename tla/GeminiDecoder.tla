--------------------------- MODULE GeminiDecoder ----------------------------
(***************************************************************************)
(* provider/gemini: the native decoder and the normalisation of the        *)
(* non-streaming response.  A frame is one chunk with at most one          *)
(* candidate; a part of a candidate is a text, a thought, a function call, *)
(* inline data or something the decoder does not know.  The map of merged  *)
(* grounding metadata is left out.                                         *)
(***************************************************************************)
EXTENDS StreamEvents

NoCandidate == [parts |-> <<>>, finish |-> "", sources |-> <<>>]

GeminiChunk(id, cand, usage) == [kind |-> "chunk", id |-> id, cand |-> cand, usage |-> usage]
GeminiUnparsed               == [kind |-> "unparsed"]
GeminiEmpty                  == [kind |-> "empty"]

\* mapNativeFinishReason
MapNativeReason(raw, hasCalls) ==
    CASE raw = "STOP"                                 -> IF hasCalls THEN "tool_calls" ELSE "stop"
      [] raw = "MAX_TOKENS"                           -> "length"
      [] raw \in {"SAFETY", "RECITATION", "BLOCKLIST"} -> "content_filter"
      [] raw = "MALFORMED_FUNCTION_CALL"              -> "error"
      [] OTHER                                        -> "unknown"

\* nativeUsageToAI, which both paths share: a missing output count is inferred.
NativeUsage(u) ==
    [NoUsage EXCEPT !.input = u.prompt, !.cacheRead = u.cached,
                    !.noCache = NonNegative(u.prompt - u.cached), !.toolUse = u.toolUse,
                    !.output = IF u.completion # 0 THEN u.completion
                               ELSE NonNegative(u.total - u.prompt - u.toolUse),
                    !.reasoning = u.reasoning, !.total = u.total]

\* extractNativeGroundingSources: each source is reported once per stream.
FreshSources(sources, seen) ==
    FoldLeft(LAMBDA fresh, s : IF s \in seen \/ s \in ToSet(fresh) THEN fresh ELSE Append(fresh, s),
             <<>>, sources)

\* The k-th function call of a response; ids are made up, counted from zero.
CallName(k) == CASE k = 0 -> "call_0" [] k = 1 -> "call_1" [] k = 2 -> "call_2"

-----------------------------------------------------------------------------
(* The streaming decoder. *)

GeminiStart == [seen |-> {}, calls |-> 0, warnings |-> 0]

CallsBefore(parts, i) == Cardinality({j \in 1 .. i - 1 : parts[j].type = "call"})

CallCount(parts) == CallsBefore(parts, Len(parts) + 1)

\* The event of part i of a chunk; calls are numbered over the whole stream.
NativePartEvents(state, parts, i) ==
    LET p == parts[i]
        k == state.calls + CallsBefore(parts, i)
    IN  CASE p.type = "call"    -> <<ToolCallDelta(k, CallName(k), p.name, p.args, p.sig)>>
          [] p.type = "thought" -> <<ReasoningDelta(p.text, p.sig)>>
          [] p.type = "text"    -> Option(p.text # <<>>, TextDelta(p.text, p.sig))
          [] p.type = "inline"  -> <<FileDelta(p.data)>>
          [] p.type = "unknown" -> <<>>

\* emitNativeChunkEvents: sources, content, usage, finish.
DecodeNativeChunk(state, chunk) ==
    LET c      == chunk.cand
        after  == [seen     |-> state.seen \cup ToSet(c.sources),
                   calls    |-> state.calls + CallCount(c.parts),
                   warnings |-> state.warnings
                                + Len(SelectSeq(c.parts, LAMBDA p : p.type = "unknown"))]
        fresh  == FreshSources(c.sources, state.seen)
    IN  [state |-> after, next |-> "more",
         out   |-> [i \in DOMAIN fresh |-> SourceEvent(fresh[i])]
                   \o FlattenSeq([i \in DOMAIN c.parts |-> NativePartEvents(state, c.parts, i)])
                   \o [i \in DOMAIN chunk.usage |-> UsageEvent(NativeUsage(chunk.usage[i]))]
                   \o Option(c.finish # "",
                             FinishEvent(chunk.id, MapNativeReason(c.finish, after.calls > 0),
                                         c.finish, after.warnings))]

\* One turn of the loop of decodeNativeSSEStream.  A chunk that does not parse
\* is reported as an error event, and the loop goes on.
DecodeGemini(state, frame) ==
    CASE frame.kind = "chunk"    -> DecodeNativeChunk(state, frame)
      [] frame.kind = "unparsed" -> [state |-> state, out |-> <<ErrorEvent("unparsed")>>,
                                     next |-> "more"]
      [] frame.kind = "empty"    -> [state |-> state, out |-> <<>>, next |-> "more"]

GeminiEOF(state) == "end"

-----------------------------------------------------------------------------
(* The non-streaming response. *)

NativePart(parts, i) ==
    LET p == parts[i]
    IN  CASE p.type = "call"    -> [type |-> "toolCall", id |-> CallName(CallsBefore(parts, i)),
                                    name |-> p.name, args |-> p.args, sig |-> p.sig]
          [] p.type = "thought" -> [type |-> "reasoning", text |-> p.text, sig |-> p.sig]
          [] p.type = "text"    -> [type |-> "text", text |-> p.text, sig |-> p.sig]
          [] p.type = "inline"  -> [type |-> "file", data |-> p.data]

\* normalizeGenerateContent of a payload with one candidate.
NormalizeGemini(payload) ==
    LET Kept(p) == p.type \in {"call", "inline"} \/ (p.type \in {"text", "thought"} /\ p.text # <<>>)
        kept  == SelectSeq(payload.parts, Kept)
        parts == [i \in DOMAIN kept |-> NativePart(kept, i)]
        files == SelectSeq(parts, LAMBDA p : p.type = "file")
    IN  IF kept = <<>>
        THEN [failed |-> TRUE]
        ELSE [failed |-> FALSE, parts |-> parts, text |-> JoinTexts(parts, "text"),
              reasoning |-> JoinTexts(parts, "reasoning"), messageID |-> payload.id,
              reason |-> MapNativeReason(payload.finish, CallCount(kept) > 0),
              raw |-> payload.finish,
              warnings |-> Len(SelectSeq(payload.parts, LAMBDA p : p.type = "unknown")),
              sources |-> FreshSources(payload.sources, {}),
              usage |-> IF payload.usage = NoCounters THEN NoUsage
                        ELSE NativeUsage(payload.usage[1]),
              files |-> [i \in DOMAIN files |-> files[i].data]]
=============================================================================
