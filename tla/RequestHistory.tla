--------------------------- MODULE RequestHistory ---------------------------
(***************************************************************************)
(* How the four provider encoders put a history on the wire: Chat          *)
(* Completions (openaicompat/request_encoder.go), OpenAI Responses         *)
(* (openai_responses_request_encoder.go), Anthropic Messages               *)
(* (anthropic_language_model.go) and Gemini (native_request_encoder.go).   *)
(*                                                                         *)
(* An encoding is what of the history the request carries, as messages     *)
(* whose parts are the parts kept, with the number of warnings and whether *)
(* the request was refused instead.                                        *)
(***************************************************************************)
EXTENDS StepEvents

Encoding(items, warnings, refused) ==
    [items |-> items, warnings |-> warnings, refused |-> refused]

\* Each message encoded by itself, one after the other.
EncodeEach(messages, Encode(_)) ==
    LET Join(sofar, m) == LET e == Encode(m)
                          IN  Encoding(sofar.items \o e.items, sofar.warnings + e.warnings,
                                       sofar.refused \/ e.refused)
    IN  FoldLeft(Join, Encoding(<<>>, 0, FALSE), messages)

Item(role, parts) == [role |-> role, parts |-> parts]
Items(role, parts) == Option(parts # <<>>, Item(role, parts))

\* The parts a predicate picks, and how many it does.
Picked(m, Test(_)) == SelectSeq(m.content, Test)
Count(m, Test(_))  == Len(Picked(m, Test))

IsFile(part)      == part.type = "file"
IsText(part)      == part.type = "text"
IsCall(part)      == part.type = "toolCall"
IsResult(part)    == part.type = "toolResult"
IsRecording(part) == part.type = "file" /\ part.data.kind \in {"audio", "video"}

-----------------------------------------------------------------------------
(* Chat Completions. *)

\* encodeFilePart: a file known by its id alone is dropped with a warning.
ChatFileDropped(part) == IsFile(part) /\ ~ IsRecording(part) /\ part.data.source = "id"

\* encodeToolResultMessage: the first result of a tool message, or none.
ChatToolMessage(m) ==
    Encoding(<<Item("tool", SubSeq(Picked(m, IsResult), 1, 1))>>, 0, FALSE)

\* encodeContentMessage: text and files, then the calls; reasoning and results
\* are left out.
ChatContentMessage(m) ==
    LET Content(part) == IsText(part) \/ (IsFile(part) /\ ~ ChatFileDropped(part))
    IN  Encoding(<<Item(m.role, Picked(m, Content) \o Picked(m, IsCall))>>,
                 Count(m, ChatFileDropped), Count(m, IsRecording) > 0)

ChatMessages(messages) ==
    EncodeEach(messages, LAMBDA m : IF m.role = "tool" THEN ChatToolMessage(m)
                                                       ELSE ChatContentMessage(m))

-----------------------------------------------------------------------------
(* OpenAI Responses. *)

\* encodeSystemMessage and encodeUserMessage: what has no place is skipped with
\* a warning; a recording, or a file with no single source, is refused.
ResponsesSpoken(m) ==
    LET Spoken(part) == IsText(part) \/ (m.role = "user" /\ IsFile(part))
        Wrong(part)  == m.role = "user"
                        /\ (IsRecording(part) \/ (IsFile(part) /\ part.data.source = "several"))
    IN  Encoding(Items(m.role, Picked(m, Spoken)),
                 Count(m, LAMBDA part : ~ Spoken(part)), Count(m, Wrong) > 0)

\* encodeAssistantMessage: text and calls in order; an image cannot be replayed.
ResponsesAssistant(m) ==
    Encoding(Items("assistant", Picked(m, LAMBDA part : IsText(part) \/ IsCall(part))), 0,
             Count(m, LAMBDA part : IsFile(part) /\ part.data.kind = "image") > 0)

ResponsesInput(messages) ==
    EncodeEach(messages, LAMBDA m :
        CASE m.role \in {"system", "user"} -> ResponsesSpoken(m)
          [] m.role = "assistant" -> ResponsesAssistant(m)
          [] m.role = "tool"      -> Encoding(Items("tool", Picked(m, IsResult)), 0, FALSE))

-----------------------------------------------------------------------------
(* Anthropic Messages. *)

\* encodeFilePart: inline images and PDFs only; audio and video never.
AnthropicFileDropped(part) ==
    IsFile(part) /\ (IsRecording(part) \/ part.data.source \in {"url", "id"}
                     \/ part.data.media \notin {"image", "pdf"})

\* encodeMessages: the role as it is, messages without blocks left out.  The
\* body cannot be marshalled when arguments are not JSON.
AnthropicMessage(m) ==
    LET Kept(part) == ~ AnthropicFileDropped(part) /\ part.type # "approvalResponse"
    IN  Encoding(Items(m.role, Picked(m, Kept)), Count(m, AnthropicFileDropped),
                 Count(m, LAMBDA part : IsCall(part) /\ part.args # <<>>
                                        /\ ~ ValidJSON(part.args)) > 0)

AnthropicMessages(messages) == EncodeEach(messages, AnthropicMessage)

-----------------------------------------------------------------------------
(* Gemini. *)

\* The leading system messages go into the instruction; a later one has no place.
LeadingSystem(messages) ==
    CHOOSE n \in 0 .. Len(messages) :
        /\ \A i \in 1 .. n : messages[i].role = "system"
        /\ n < Len(messages) => messages[n + 1].role # "system"

\* encodeUserParts, encodeAssistantParts and encodeToolParts: calls and results
\* go by name, without their ids.
GeminiContent(m) ==
    LET Kept(part) == CASE m.role = "user"      -> IsText(part) \/ IsFile(part)
                        [] m.role = "assistant" -> ~ IsResult(part)
                        [] m.role = "tool"      -> IsResult(part)
        parts   == Picked(m, Kept)
        Nameless(part) == IF IsCall(part) \/ IsResult(part) THEN [part EXCEPT !.id = ""] ELSE part
        wire    == IF m.role = "assistant" THEN "model" ELSE "user"
    IN  Encoding(<<Item(wire, [i \in DOMAIN parts |-> Nameless(parts[i])])>>, 0, FALSE)

GeminiContents(messages) ==
    LET rest == SubSeq(messages, LeadingSystem(messages) + 1, Len(messages))
    IN  EncodeEach(SelectSeq(rest, LAMBDA m : m.role # "system"), GeminiContent)

-----------------------------------------------------------------------------
(* What a request must not lose. *)

Encodings(messages) == {ChatMessages(messages), ResponsesInput(messages),
                        AnthropicMessages(messages), GeminiContents(messages)}

\* The parts of one type that the request carries, in order.
Carried(encoding, Test(_)) ==
    FlattenSeq([i \in DOMAIN encoding.items |-> SelectSeq(encoding.items[i].parts, Test)])

\* The same calls and results as in the history, in the same order.
CarriesToolTraffic(encoding, messages) ==
    LET Traffic(parts) == [i \in DOMAIN parts |-> <<parts[i].type, parts[i].name>>]
        IsTraffic(part) == IsCall(part) \/ IsResult(part)
        all == FlattenSeq([i \in DOMAIN messages |-> messages[i].content])
    IN  Traffic(Carried(encoding, IsTraffic)) = Traffic(SelectSeq(all, IsTraffic))

\* Every file of the user is sent, or warned of.
AccountsForFiles(encoding, messages) ==
    LET spoken == SelectSeq(messages, LAMBDA m : m.role = "user")
    IN  Len(PartsOf(spoken, "file")) <= Len(Carried(encoding, IsFile)) + encoding.warnings
=============================================================================
