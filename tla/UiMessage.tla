------------------------------ MODULE UiMessage ------------------------------
(***************************************************************************)
(* The UI message of an AI SDK stream, as the client rebuilds it from the  *)
(* chunks (process_ui_message_*.go), as the server stores it               *)
(* (persisted_message*.go), and as it comes back with the next request     *)
(* (convert_envelope_to_ai.go).                                            *)
(***************************************************************************)
EXTENDS AiSdkStream

UiPart(type, val)  == [type |-> type, val |-> val]
UiTool(id, name, state, input, output) ==
    [type |-> "tool-invocation", id |-> id, name |-> name, state |-> state,
     input |-> input, output |-> output, approval |-> "", approved |-> FALSE]

\* A call whose approval the client has answered.
UiResponded(call, approved) ==
    [UiTool(call.id, call.name, "approval-responded", call.args, "")
       EXCEPT !.approval = ApprovalRequestStep(call).approval, !.approved = approved]

-----------------------------------------------------------------------------
(* The client: StreamingUIMessageState. *)

\* NewStreamingUIMessageState, continuing a message of the given parts.
NewUiState(parts) == [parts |-> parts, active |-> EmptyFold, partial |-> EmptyFold]

Restricted(f, keys) == [k \in keys |-> f[k]]
With(f, key, value) == [k \in DOMAIN f \cup {key} |-> IF k = key THEN value ELSE f[k]]

\* The first tool part of an id, as a set of at most one place.
ToolPlace(parts, id) ==
    LET places == {i \in DOMAIN parts : parts[i].type = "tool-invocation" /\ parts[i].id = id}
    IN  {i \in places : \A j \in places : i <= j}

\* updateToolPartFields
SetToolPart(s, id, Change(_)) ==
    [s EXCEPT !.parts = [i \in DOMAIN @ |-> IF i \in ToolPlace(@, id) THEN Change(@[i]) ELSE @[i]]]

\* updateOrAddToolPart: what the chunk does not say stays.
PutToolPart(s, part) ==
    IF ToolPlace(s.parts, part.id) = {}
    THEN [s EXCEPT !.parts = Append(@, part)]
    ELSE SetToolPart(s, part.id, LAMBDA old :
             [part EXCEPT !.output   = IF @ = "" THEN old.output ELSE @,
                          !.approval = old.approval, !.approved = old.approved])

\* appendChunkDeltaToPart and the block handlers: a delta of a block that is
\* not open is dropped.
OnBlockChunk(s, chunk) ==
    LET key == <<FamilyOf(chunk.type), chunk.block>>
    IN CASE chunk.type \in BlockStarts ->
              [s EXCEPT !.parts  = Append(@, UiPart(key[1], <<>>)),
                        !.active = With(@, key, Len(s.parts) + 1)]
         [] chunk.type \in BlockFinishes ->
              [s EXCEPT !.active = Restricted(@, DOMAIN @ \ {key})]
         [] chunk.type \in BlockTypes \ (BlockStarts \cup BlockFinishes) ->
              IF key \in DOMAIN s.active
              THEN [s EXCEPT !.parts[s.active[key]].val = @ \o chunk.text] ELSE s

\* handleChunkToolInputDelta: the input shows once the text parses.
OnInputDelta(s, chunk) ==
    IF chunk.id \notin DOMAIN s.partial THEN s
    ELSE LET call == s.partial[chunk.id]
             text == call.text \o chunk.val
         IN  [s EXCEPT !.partial[chunk.id].text = text,
                       !.parts[call.place].input = IF ValidJSON(text) THEN text ELSE @]

\* The tool handlers; an approval request has none.
OnToolChunk(s, chunk) ==
    CASE chunk.type = "tool-input-start" ->
           [s EXCEPT !.parts = Append(@, UiTool(chunk.id, chunk.name, "input-streaming", <<>>, "")),
                     !.partial = With(@, chunk.id, [place |-> Len(s.parts) + 1, text |-> <<>>])]
      [] chunk.type = "tool-input-delta" -> OnInputDelta(s, chunk)
      [] chunk.type = "tool-input-available" ->
           PutToolPart(s, UiTool(chunk.id, chunk.name, "input-available", chunk.val, ""))
      [] chunk.type = "tool-input-error" ->
           PutToolPart(s, UiTool(chunk.id, chunk.name, "output-error", <<>>, "invalid"))
      [] chunk.type = "tool-output-available" ->
           SetToolPart(s, chunk.id, LAMBDA old : [old EXCEPT !.state = "output-available",
                                                             !.output = chunk.val[1]])
      [] chunk.type = "tool-output-error" ->
           SetToolPart(s, chunk.id, LAMBDA old : [old EXCEPT !.state = "output-error",
                                                             !.output = chunk.val[1]])
      [] chunk.type = "tool-output-denied" ->
           SetToolPart(s, chunk.id, LAMBDA old : [old EXCEPT !.state = "output-denied"])
      [] chunk.type = "tool-approval-request" -> s

\* processChunkIntoState; data chunks have no handler here.
ProcessChunk(s, chunk) ==
    CASE chunk.type \in BlockTypes    -> OnBlockChunk(s, chunk)
      [] chunk.type \in ToolTypes     -> OnToolChunk(s, chunk)
      [] chunk.type = "start-step"    -> [s EXCEPT !.parts = Append(@, UiPart("step-start", ""))]
      [] chunk.type = "finish-step"   -> [s EXCEPT !.active = EmptyFold]
      [] chunk.type \in {"source-url", "file"} ->
           [s EXCEPT !.parts = Append(@, UiPart(chunk.type, chunk.val))]
      [] OTHER -> s

\* The message the client has after these chunks.
ClientMessage(parts, chunks) == FoldLeft(ProcessChunk, NewUiState(parts), chunks).parts

-----------------------------------------------------------------------------
(* The server: PersistedMessageBuilder. *)

NewBuilder == [text |-> <<>>, reasoning |-> <<>>, pending |-> EmptyFold, parts |-> <<>>]

\* observeTextStart, observeTextDelta, observeTextEnd and their reasoning twins:
\* one buffer for each family, kept as a part at its end.
StoreBlock(b, chunk) ==
    LET family == FamilyOf(chunk.type)
    IN CASE chunk.type \in BlockStarts -> [b EXCEPT ![family] = <<>>]
         [] chunk.type \in BlockFinishes ->
              [b EXCEPT ![family] = <<>>,
                        !.parts = @ \o Option(b[family] # <<>>, UiPart(family, b[family]))]
         [] chunk.type \in BlockTypes \ (BlockStarts \cup BlockFinishes) ->
              [b EXCEPT ![family] = @ \o chunk.text]

\* observeToolOutput and observeToolTerminal: the part of a call is kept when
\* its outcome comes, and without a name when the call is not pending.
StoreOutcome(b, chunk, state) ==
    LET known == chunk.id \in DOMAIN b.pending
        name  == IF known THEN b.pending[chunk.id].name ELSE ""
        input == IF known THEN b.pending[chunk.id].val ELSE <<>>
        shown == IF state = "denied" THEN "" ELSE chunk.val[1]
    IN  [b EXCEPT !.parts = Append(@, UiTool(chunk.id, name, state, input, shown)),
                  !.pending = Restricted(@, DOMAIN @ \ {chunk.id})]

\* observeToolInput and observeToolInputError
StoreTool(b, chunk) ==
    CASE chunk.type = "tool-input-available" -> [b EXCEPT !.pending = With(@, chunk.id, chunk)]
      [] chunk.type = "tool-input-error" ->
           [b EXCEPT !.parts = Append(@, UiTool(chunk.id, chunk.name, "error", <<>>, "invalid")),
                     !.pending = Restricted(@, DOMAIN @ \ {chunk.id})]
      [] chunk.type = "tool-output-available" -> StoreOutcome(b, chunk, "output-available")
      [] chunk.type = "tool-output-error"     -> StoreOutcome(b, chunk, "error")
      [] chunk.type = "tool-output-denied"    -> StoreOutcome(b, chunk, "denied")
      [] OTHER -> b

\* ObserveChunk; structured output is marked transient and not kept.
ObserveChunk(b, chunk) ==
    CASE chunk.type \in BlockTypes -> StoreBlock(b, chunk)
      [] chunk.type \in ToolTypes  -> IF chunk.id = "" THEN b ELSE StoreTool(b, chunk)
      [] chunk.type = "start-step" -> [b EXCEPT !.parts = Append(@, UiPart("step-start", ""))]
      [] chunk.type \in {"source-url", "file"} ->
           [b EXCEPT !.parts = Append(@, UiPart(chunk.type, chunk.val))]
      [] OTHER -> b

StoredMessage(chunks) == FoldLeft(ObserveChunk, NewBuilder, chunks).parts

-----------------------------------------------------------------------------
(* The next request: ToAIMessages. *)

Answered == {"result", "output-available", "output-denied", "output-error"}
Asked    == {"call", "partial-call", "input-streaming", "input-available",
             "approval-requested", "approval-responded"}

\* toolInvocationParts: other states are skipped.
ToolInvocationParts(part) ==
    Option(part.state \in Asked \cup Answered,
           ToolCallPart(part.id, part.name, part.input, NoSig, part.approval))
    \o Option(part.state \in Answered, ToolResultPart(part.id, part.name, part.output, ""))

\* ToAIContentParts: reasoning, sources and step marks have no case.
ToAIContentParts(parts) ==
    LET One(part) ==
        CASE part.type = "text" -> <<TextPart(part.val, NoSig)>>
          [] part.type = "file" -> <<FilePart(part.val)>>
          [] part.type = "tool-invocation" -> ToolInvocationParts(part)
          [] OTHER -> <<>>
    IN  FlattenSeq([i \in DOMAIN parts |-> One(parts[i])])

\* ToAIMessages, splitToolResults and approvalResponseParts, for one assistant
\* message: its results go into one tool message after it, the answers to its
\* approval requests into a user message after that.
ToAIMessages(parts) ==
    LET content   == ToAIContentParts(parts)
        own       == SelectSeq(content, LAMBDA p : p.type # "toolResult")
        results   == SelectSeq(content, LAMBDA p : p.type = "toolResult")
        responded == SelectSeq(parts, LAMBDA p : p.type = "tool-invocation"
                                                 /\ p.state = "approval-responded")
        Response(part) == ApprovalResponsePart(part.approval, part.approved)
    IN  Option(own # <<>>, Message("assistant", NoId, own))
        \o Option(results # <<>>, Message("tool", NoId, results))
        \o Option(responded # <<>>,
                  Message("user", NoId, [i \in DOMAIN responded |-> Response(responded[i])]))
=============================================================================
