-------------------------- MODULE StreamAggregate ---------------------------
(***************************************************************************)
(* The aggregate a StreamingResponse builds while its events are consumed  *)
(* (llm/streaming_response.go) and the response that Send returns, which   *)
(* it stands in for.                                                       *)
(***************************************************************************)
EXTENDS ToolCallFold

EmptyAggregate ==
    [parts |-> <<>>, messageID |-> NoId, reason |-> "", raw |-> "",
     warnings |-> 0, usage |-> NoUsage, sources |-> <<>>, files |-> <<>>,
     fold |-> EmptyFold, toolParts |-> EmptyFold, sawFinish |-> FALSE]

\* A tool call keeps the place of its first delta; the fold fills it later.
ReservedPart == [type |-> "toolCall", id |-> "", name |-> "", args |-> <<>>, sig |-> NoSig]

AbsorbToolCall(agg, event) ==
    LET folded == [agg EXCEPT !.fold = AddDelta(@, event)]
    IN  IF IsNewCall(agg.fold, event)
        THEN [folded EXCEPT !.parts = Append(@, ReservedPart),
                            !.toolParts = [i \in DOMAIN @ \cup {event.index} |->
                                             IF i = event.index THEN Len(agg.parts) + 1 ELSE @[i]]]
        ELSE folded

\* StreamingResponse.absorb
Absorb(agg, event) ==
    CASE event.type \in {"text", "reasoning"} ->
           [agg EXCEPT !.parts = AppendDelta(@, event.type, event.text, event.sig)]
      [] event.type = "toolCall" -> AbsorbToolCall(agg, event)
      [] event.type = "usage"    -> [agg EXCEPT !.usage = MergeUsage(@, event.usage)]
      [] event.type = "source"   -> [agg EXCEPT !.sources = Append(@, event.url)]
      [] event.type = "file"     -> [agg EXCEPT !.files = Append(@, event.data),
                                                !.parts = Append(@, [type |-> "file",
                                                                     data |-> event.data])]
      [] event.type = "finish"   ->
           [agg EXCEPT !.sawFinish = TRUE, !.messageID = event.messageID,
                       !.reason = event.reason, !.raw = event.raw,
                       !.warnings = @ + event.warnings]

\* StreamingResponse.flushToolCalls: on release, every reserved part is filled
\* from the draft of its index.
FlushToolCalls(agg) ==
    LET Filled(part, draft) == [part EXCEPT !.id = draft.id, !.name = draft.name,
                                            !.sig = draft.sig, !.args = draft.args]
        Fill(parts, draft) ==
            IF draft.index \in DOMAIN agg.toolParts
            THEN [parts EXCEPT ![agg.toolParts[draft.index]] = Filled(@, draft)]
            ELSE parts
    IN  [agg EXCEPT !.parts = FoldLeft(Fill, @, Completed(agg.fold))]

-----------------------------------------------------------------------------
(* What a caller reads of an answer. *)

\* The calls of a message, in order, without their signatures.
CallsOf(parts) ==
    LET calls == SelectSeq(parts, LAMBDA p : p.type = "toolCall")
    IN  [i \in DOMAIN calls |-> [id |-> calls[i].id, name |-> calls[i].name,
                                 args |-> calls[i].args]]

\* The thought signatures of the parts that can carry one, for the next request.
SignaturesOf(parts, type) ==
    LET chosen == SelectSeq(parts, LAMBDA p : p.type = type)
    IN  [i \in DOMAIN chosen |-> chosen[i].sig]

\* What a streamed answer says: the aggregate read by field.
Streamed(agg) ==
    [text |-> JoinTexts(agg.parts, "text"), reasoning |-> JoinTexts(agg.parts, "reasoning"),
     calls |-> CallsOf(agg.parts), callSignatures |-> SignaturesOf(agg.parts, "toolCall"),
     thoughtSignatures |-> SignaturesOf(agg.parts, "reasoning"), files |-> agg.files,
     sources |-> agg.sources, messageID |-> agg.messageID, reason |-> agg.reason,
     raw |-> agg.raw, warnings |-> agg.warnings]

\* What the response of Send says.
Sent(response) ==
    [text |-> response.text, reasoning |-> response.reasoning,
     calls |-> CallsOf(response.parts), callSignatures |-> SignaturesOf(response.parts, "toolCall"),
     thoughtSignatures |-> SignaturesOf(response.parts, "reasoning"), files |-> response.files,
     sources |-> response.sources, messageID |-> response.messageID, reason |-> response.reason,
     raw |-> response.raw, warnings |-> response.warnings]

\* The fields in which two records of the same fields differ.
FieldsThatDiffer(one, other) == {f \in DOMAIN one : one[f] # other[f]}
=============================================================================
