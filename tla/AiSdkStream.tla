----------------------------- MODULE AiSdkStream -----------------------------
(***************************************************************************)
(* uistream/ainode: the AI SDK encoder of one run — the chunk producer     *)
(* (producer*.go), the usage it totals (usage_accumulator.go), the checker *)
(* that watches the chunks (invariants.go) and the encoder that frames     *)
(* them (protocol.go).                                                     *)
(***************************************************************************)
EXTENDS StepEvents

Chunk(type)                    == [type |-> type]
BlockChunk(type, block)        == [type |-> type, block |-> block]
DeltaChunk(type, block, text)  == [type |-> type, block |-> block, text |-> text]
ToolChunk(type, id, name, val) == [type |-> type, id |-> id, name |-> name, val |-> val]

\* What a tool chunk carries when the call's arguments do not parse.
ParseToolArgs(args) == IF ValidJSON(args) THEN args ELSE <<"raw">> \o args

\* NewChunkProducer, NewInvariantChecker
NewAiSdk == [block |-> 0, text |-> FALSE, reasoning |-> FALSE, sig |-> NoSig,
             started |-> {}, ready |-> {}, args |-> EmptyFold,
             total |-> NoUsage, current |-> NoUsage, reason |-> "", finished |-> FALSE,
             openBlocks |-> {}, tools |-> EmptyFold, violations |-> {}]

\* chunksBlockEnd
BlockEnds(p) == Option(p.text, BlockChunk("text-end", p.block))
                \o Option(p.reasoning, BlockChunk("reasoning-end", p.block))
NoBlock(p)   == [p EXCEPT !.text = FALSE, !.reasoning = FALSE]
Advance(p)   == [p EXCEPT !.block = @ + 1]

Produced(p, chunks) == [p |-> p, chunks |-> chunks]

-----------------------------------------------------------------------------
(* The producer: the state it moves to and the chunks it emits. *)

\* chunksStepStart; the calls already announced as ready are not forgotten.
OnStepStart(p) ==
    Produced([NoBlock(Advance(p)) EXCEPT !.sig = NoSig, !.started = {}, !.args = EmptyFold,
                                         !.current = NoUsage],
             <<Chunk("start-step")>>)

\* chunksTextDelta and chunksReasoningDelta: one block is open at a time, and
\* the next one has a new id.
OnDelta(p, event) ==
    LET isText == event.type = "text"
        other  == IF isText THEN p.reasoning ELSE p.text
        ended  == IF other THEN Advance(NoBlock(p)) ELSE p
        opens  == IF isText THEN ~ ended.text ELSE ~ ended.reasoning
        opened == IF isText THEN [ended EXCEPT !.text = TRUE]
                  ELSE [ended EXCEPT !.reasoning = TRUE,
                                     !.sig = IF event.sig # NoSig THEN event.sig ELSE @]
    IN  Produced(opened,
            (IF other THEN BlockEnds(p) ELSE <<>>)
            \o Option(opens, BlockChunk(IF isText THEN "text-start" ELSE "reasoning-start", opened.block))
            \o <<DeltaChunk(IF isText THEN "text-delta" ELSE "reasoning-delta", opened.block, event.text)>>)

\* chunksToolCallStart
OnToolCallStart(p, event) ==
    LET ends  == BlockEnds(p)
        moved == IF ends # <<>> THEN Advance(NoBlock(p)) ELSE p
    IN  IF event.id = "" THEN Produced(p, <<>>)
        ELSE Produced([moved EXCEPT !.started = @ \cup {event.id},
                                    !.args = [i \in DOMAIN @ \cup {event.id} |->
                                                IF i = event.id THEN event.args ELSE @[i]]],
                 ends \o <<ToolChunk("tool-input-start", event.id, event.name, <<>>)>>
                 \o Option(event.args # <<>>,
                           ToolChunk("tool-input-delta", event.id, "", event.args)))

\* chunksToolCallDelta: nothing is added to arguments that already parse.
OnToolCallDelta(p, event) ==
    IF event.id \notin p.started \/ event.args = <<>> \/ ValidJSON(p.args[event.id])
    THEN Produced(p, <<>>)
    ELSE Produced([p EXCEPT !.args[event.id] = @ \o event.args],
                  <<ToolChunk("tool-input-delta", event.id, "", event.args)>>)

\* chunksToolCallReady: once per id and run.
OnReady(p, event) ==
    LET streamed == IF event.id \in DOMAIN p.args THEN p.args[event.id] ELSE <<>>
        args     == IF event.args # <<>> THEN event.args ELSE streamed
    IN  IF event.id = "" \/ event.id \in p.ready THEN Produced(p, <<>>)
        ELSE Produced([p EXCEPT !.ready = @ \cup {event.id}],
                 <<ToolChunk("tool-input-available", event.id, event.name, ParseToolArgs(args))>>)

\* chunksToolResult: a call that was never ready is announced with its result.
OnResult(p, result) ==
    LET announced == result.id = "" \/ result.id \in p.ready
        outcome   == IF result.disposition = "error" THEN "tool-output-error"
                                                     ELSE "tool-output-available"
    IN  Produced([p EXCEPT !.ready = @ \cup ({result.id} \ {""})],
            Option(~ announced, ToolChunk("tool-input-available", result.id, result.name,
                                          ParseToolArgs(result.args)))
            \o <<ToolChunk(outcome, result.id, "", <<result.output>>)>>)

\* Mutant: every snapshot of a step added to the total.
OnUsageDeltas(p, usage) ==
    Produced([p EXCEPT !.total = [f \in DOMAIN @ |-> @[f] + usage[f]], !.current = usage], <<>>)

\* usageAccumulator.apply: the change since the last snapshot of the step.
OnUsage(p, usage) ==
    Produced([p EXCEPT !.total = [f \in DOMAIN @ |-> @[f] + usage[f] - p.current[f]],
                       !.current = usage], <<>>)

\* chunksStepEnd, after the finish reason is kept for the finish chunk.
OnStepEnd(p, event) ==
    Produced([NoBlock(p) EXCEPT !.reason = event.reason],
             BlockEnds(p) \o <<Chunk("finish-step")>>)

\* StepEventDone; the usage fields of UsageInfo, which has no tool-use count.
FinishChunk(reason, usage) == [type |-> "finish", reason |-> reason,
                               usage |-> [usage EXCEPT !.toolUse = 0]]

\* chunksError
OnError(p) ==
    Produced([NoBlock(p) EXCEPT !.reason = "error"],
             BlockEnds(p) \o <<Chunk("error"), FinishChunk("error", NoUsage)>>)

\* ChunkProducer.translateEvent; client requests and run state have no chunk.
TranslateEvent(p, event) ==
    CASE event.type = "stepStart"               -> OnStepStart(p)
      [] event.type \in {"text", "reasoning"}   -> OnDelta(p, event)
      [] event.type = "toolCallStart"           -> OnToolCallStart(p, event)
      [] event.type = "toolCallDelta"           -> OnToolCallDelta(p, event)
      [] event.type = "ready"                   -> OnReady(p, event)
      [] event.type = "result"                  -> OnResult(p, event.result)
      [] event.type = "usage"                   -> OnUsage(p, event.usage)
      [] event.type = "stepEnd"                 -> OnStepEnd(p, event)
      [] event.type = "approvalRequest" ->
           Produced(p, <<ToolChunk("tool-approval-request", event.id, event.name, event.args)>>)
      [] event.type = "outputDenied" ->
           Produced(p, <<ToolChunk("tool-output-denied", event.id, "", <<>>)>>)
      [] event.type = "invalid" ->
           Produced(p, <<ToolChunk("tool-input-error", event.id, event.name, <<"invalid">>)>>)
      [] event.type = "source" -> Produced(p, <<[type |-> "source-url", val |-> event.url]>>)
      [] event.type = "file"   ->  \* chunksFile: the bytes as a data URL
           Produced(p, <<[type |-> "file", val |-> [event.data EXCEPT !.source = "url"]]>>)
      [] event.type = "structuredOutput" ->
           Produced(p, <<[type |-> "data-structured-output", val |-> event.object]>>)
      [] event.type = "done"   -> Produced(p, <<FinishChunk(p.reason, p.total)>>)
      [] OTHER                 -> Produced(p, <<>>)

-----------------------------------------------------------------------------
(* The checker. *)

BlockStarts   == {"text-start", "reasoning-start"}
BlockFinishes == {"text-end", "reasoning-end"}
BlockTypes    == BlockStarts \cup {"text-delta", "reasoning-delta"} \cup BlockFinishes
FamilyOf(type) == IF type \in {"text-start", "text-delta", "text-end"} THEN "text" ELSE "reasoning"

Outputs   == {"tool-output-available", "tool-output-error", "tool-output-denied"}
ToolTypes == Outputs \cup {"tool-input-start", "tool-input-delta", "tool-input-available",
                           "tool-input-error", "tool-approval-request"}

\* observeBlocks and finalizeBlocks
BlockViolations(c, chunk) ==
    LET key == <<FamilyOf(chunk.type), chunk.block>>
    IN CASE chunk.type \in BlockStarts /\ key \in c.openBlocks
              -> {"block-already-open"}
         [] chunk.type \in BlockTypes \ BlockStarts /\ key \notin c.openBlocks
              -> {"block-without-start"}
         [] chunk.type \in {"finish", "finish-step", "start-step"} /\ c.openBlocks # {}
              -> {"block-still-open"}
         [] OTHER -> {}

OpenBlocksAfter(c, chunk) ==
    CASE chunk.type \in BlockStarts   -> c.openBlocks \cup {<<FamilyOf(chunk.type), chunk.block>>}
      [] chunk.type \in BlockFinishes -> c.openBlocks \ {<<FamilyOf(chunk.type), chunk.block>>}
      [] chunk.type \in {"finish", "finish-step", "start-step"} -> {}
      [] OTHER -> c.openBlocks

\* validateToolFields and observeToolLifecycle
ToolViolations(c, chunk) ==
    LET known == chunk.id \in DOMAIN c.tools
        again == known /\ \/ chunk.type = "tool-input-start"
                          \/ chunk.type \in {"tool-input-available", "tool-input-error"}
                             /\ c.tools[chunk.id].input
                          \/ chunk.type \in Outputs /\ c.tools[chunk.id].terminal
        stray == ~ known /\ chunk.type \in Outputs \cup {"tool-input-delta"}
    IN CASE chunk.id = "" -> {"empty-tool-call-id"}
         [] chunk.id # "" /\ again -> {"duplicate-tool-call-id"}
         [] chunk.id # "" /\ stray -> {"unknown-tool-call-id"}
         [] OTHER -> {}

ToolsAfter(c, chunk) ==
    LET known  == chunk.id \in DOMAIN c.tools
        before == IF known THEN c.tools[chunk.id] ELSE [input |-> FALSE, terminal |-> FALSE]
        after  == [input    |-> before.input \/ chunk.type \in {"tool-input-available", "tool-input-error"}
                                \/ (~ known /\ chunk.type = "tool-approval-request"),
                   terminal |-> before.terminal \/ chunk.type \in Outputs]
    IN  IF chunk.id = "" \/ (~ known /\ chunk.type \in Outputs \cup {"tool-input-delta"})
        THEN c.tools
        ELSE [i \in DOMAIN c.tools \cup {chunk.id} |-> IF i = chunk.id THEN after ELSE c.tools[i]]

\* InvariantChecker.Observe
Observe(c, chunk) ==
    IF chunk.type \in ToolTypes
    THEN [c EXCEPT !.tools = ToolsAfter(c, chunk),
                   !.violations = @ \cup ToolViolations(c, chunk)]
    ELSE [c EXCEPT !.openBlocks = OpenBlocksAfter(c, chunk),
                   !.violations = @ \cup BlockViolations(c, chunk)]

-----------------------------------------------------------------------------
(* The encoder: what it is next, the frames it returns, and no refusals. *)

\* encoder.frames: every chunk is observed, and [DONE] follows a finish.
Framed(produced) ==
    LET chunks == produced.chunks
        framed[n \in 0 .. Len(chunks)] ==
            IF n = 0 THEN [enc |-> produced.p, frames |-> <<>>]
            ELSE LET before == framed[n - 1]
                 IN  [enc    |-> Observe(before.enc, chunks[n]),
                      frames |-> before.frames \o <<chunks[n]>>
                                 \o Option(chunks[n].type = "finish", Chunk("[DONE]"))]
    IN  [enc |-> framed[Len(chunks)].enc, frames |-> framed[Len(chunks)].frames, ok |-> TRUE]

\* encoder.Start, Encode and Finish
AiSdkStart(p)         == Framed(Produced(p, <<Chunk("start")>>))
AiSdkEncode(p, event) ==
    LET produced == TranslateEvent(p, event)
    IN  Framed([produced EXCEPT !.p.finished = @ \/ event.type = "done"])
AiSdkFinish(p, failed) ==
    CASE ~ failed /\ p.finished -> Framed(Produced(p, <<>>))
      [] ~ failed /\ ~ p.finished ->
           LET produced == TranslateEvent(p, Done)
           IN  Framed([produced EXCEPT !.p.finished = TRUE])
      [] failed -> Framed(OnError(p))
=============================================================================
