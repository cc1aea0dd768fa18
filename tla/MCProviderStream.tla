-------------------------- MODULE MCProviderStream --------------------------
(* A small instance of ProviderStream: for each provider a few answers, as   *)
(* the server streams them and as it would have sent them whole, and one     *)
(* answer cut short in every way.                                            *)
EXTENDS ProviderStream

Answer(provider, frames, payload) ==
    [provider |-> provider, frames |-> frames, atOnce |-> TRUE, ending |-> "eof", timed |-> FALSE,
     payload |-> <<payload>>]

\* The first n frames of an answer, and then the given ending.
Cut(answer, n, ending, timed) ==
    [answer EXCEPT !.frames = SubSeq(@, 1, n), !.atOnce = FALSE, !.ending = ending, !.timed = timed,
                   !.payload = <<>>]

Open == <<"open">>
Close == <<"close">>
Whole == Open \o Close

-----------------------------------------------------------------------------
(* Chat Completions: usage arrives on a last chunk without choices.          *)

ChatUsage == [prompt |-> 9, cached |-> 2, written |-> 1, completion |-> 4, reasoning |-> 1,
              thoughts |-> 0, total |-> 13]
ChatCall(i, id, name, args) == [index |-> i, id |-> id, name |-> name, args |-> args, sig |-> NoSig]
Says(choice) == ChatChunk(choice, NoCounters, <<>>)
UsageChunk(u) == ChatChunk(NoChoice, <<u>>, <<>>)

ChatText == Answer("chat",
    <<Says([NoChoice EXCEPT !.reasoning = <<"r">>]), Says([NoChoice EXCEPT !.content = <<"a">>]),
      Says([NoChoice EXCEPT !.content = <<"b">>, !.finish = "stop"]), UsageChunk(ChatUsage), DoneFrame>>,
    [content |-> <<"a", "b">>, reasoning |-> <<"r">>, calls |-> <<>>, finish |-> "stop",
     usage |-> <<ChatUsage>>])

\* Two calls in parallel, the second of which repeats its whole arguments.
ChatCalls == Answer("chat",
    <<Says([NoChoice EXCEPT !.content = <<"a">>,
                            !.calls = <<ChatCall(0, "x", "f", Open), ChatCall(1, "y", "g", Whole)>>]),
      Says([NoChoice EXCEPT !.calls = <<ChatCall(1, "", "", Whole), ChatCall(0, "", "", Close)>>]),
      Says([NoChoice EXCEPT !.finish = "tool_calls"]), DoneFrame>>,
    [content |-> <<"a">>, reasoning |-> <<>>, finish |-> "tool_calls", usage |-> NoCounters,
     calls |-> <<ChatCall(0, "x", "f", Whole), ChatCall(1, "y", "g", Whole)>>])

\* A short answer with the given counters.
ChatCounted(u) == Answer("chat",
    <<Says([NoChoice EXCEPT !.content = <<"a">>, !.finish = "stop"]), UsageChunk(u), DoneFrame>>,
    [content |-> <<"a">>, reasoning |-> <<>>, calls |-> <<>>, finish |-> "stop", usage |-> <<u>>])

\* A source, and no finish reason before the marker.
ChatSourced == Answer("chat",
    <<ChatChunk([NoChoice EXCEPT !.content = <<"a">>], NoCounters, <<"u">>), DoneFrame>>,
    [content |-> <<"a">>, reasoning |-> <<>>, calls |-> <<>>, finish |-> "", usage |-> NoCounters])

\* Reasoning counted as thoughts, a missing output count, more reasoning than output.
OnlyThoughts   == [ChatUsage EXCEPT !.reasoning = 0, !.thoughts = 3]
NoOutputCount  == [ChatUsage EXCEPT !.completion = 0, !.reasoning = 0]
MostlyThinking == [ChatUsage EXCEPT !.completion = 2, !.reasoning = 5]

\* A signed call, as Gemini's compatible endpoint sends it.
ChatSigned == Answer("chat",
    <<Says([NoChoice EXCEPT !.calls = <<[ChatCall(0, "x", "f", Whole) EXCEPT !.sig = "s"]>>,
                            !.finish = "tool_calls"]), DoneFrame>>,
    [content |-> <<>>, reasoning |-> <<>>, finish |-> "tool_calls", usage |-> NoCounters,
     calls |-> <<ChatCall(0, "x", "f", Whole)>>])

\* Thoughts flagged on the content, and no finish reason before the marker.  The
\* code knows no such flag on a whole answer.
ChatThought ==
    [ChatText EXCEPT !.payload = <<>>,
        !.frames = <<Says([NoChoice EXCEPT !.content = <<"t">>, !.thought = TRUE, !.sig = "s"]),
                     Says([NoChoice EXCEPT !.content = <<"a">>]), DoneFrame>>]

-----------------------------------------------------------------------------
(* Anthropic Messages.                                                       *)

AnthropicIn == [input |-> 5, cached |-> 2, written |-> 1, output |-> 1]
AnthropicOut == [AnthropicIn EXCEPT !.output = 7]
Hello == MessageStart("m1", AnthropicIn)
Block(type, text, sig) == [type |-> type, text |-> text, sig |-> sig]
ToolBlock(id, name) == [type |-> "tool_use", id |-> id, name |-> name, args |-> Whole, text |-> <<>>]

AnthropicText == Answer("anthropic",
    <<Hello, BlockStart(0, "thinking", "", ""), BlockDelta(0, "thinking", <<"r">>),
      BlockStart(1, "text", "", ""), BlockDelta(1, "text", <<"a">>), BlockDelta(1, "text", <<"b">>),
      MessageDelta("end_turn", 7), IgnoredFrame>>,
    [id |-> "m1", stop |-> "end_turn", usage |-> AnthropicOut,
     content |-> <<Block("thinking", <<"r">>, "s"), Block("text", <<"a", "b">>, "")>>])

AnthropicCalls == Answer("anthropic",
    <<Hello, BlockStart(0, "server_tool", "", ""),
      BlockStart(1, "tool_use", "x", "f"), BlockDelta(1, "json", Open), BlockDelta(1, "json", Close),
      BlockStart(2, "tool_use", "y", "g"), BlockDelta(2, "json", Whole), MessageDelta("tool_use", 7)>>,
    [id |-> "m1", stop |-> "tool_use", usage |-> AnthropicOut,
     content |-> <<Block("server_tool", <<>>, ""), ToolBlock("x", "f"), ToolBlock("y", "g")>>])

\* Nothing cached, and a call whose empty input no fragment spells out.
AnthropicBare == Answer("anthropic",
    <<MessageStart("m1", [AnthropicIn EXCEPT !.cached = 0, !.written = 0]),
      BlockStart(0, "tool_use", "x", "f"), MessageDelta("tool_use", 7)>>,
    [id |-> "m1", stop |-> "tool_use", content |-> <<ToolBlock("x", "f")>>,
     usage |-> [AnthropicOut EXCEPT !.cached = 0, !.written = 0]])

AnthropicError ==
    [AnthropicText EXCEPT !.frames = <<Hello, BlockDelta(0, "json", Open), ErrorFrame, IgnoredFrame>>,
                          !.payload = <<>>]

-----------------------------------------------------------------------------
(* OpenAI Responses: the arguments of two items interleave.                  *)

ResponsesUsage == [input |-> 9, cached |-> 2, written |-> 1, output |-> 4, reasoning |-> 1, total |-> 13]
Message(id, text) == [type |-> "message", id |-> id, text |-> text]
FunctionCall(id, name) == [type |-> "function_call", id |-> id, callId |-> id, name |-> name, args |-> Whole]

ResponsesText == Answer("responses",
    <<Created("r1"), OutputDelta("reasoning", <<"r">>), ItemAdded("message", "m1", "", ""),
      OutputDelta("text", <<"a">>), SourcesChunk(<<>>), OutputDelta("text", <<"b">>), IgnoredChunk,
      CompletedChunk("r1", <<ResponsesUsage>>, "completed"), DoneMarker>>,
    [output |-> <<[type |-> "reasoning", id |-> "", text |-> <<"r">>], Message("m1", <<"a", "b">>)>>,
     status |-> "completed", reason |-> "", usage |-> <<ResponsesUsage>>])

ResponsesCalls == Answer("responses",
    <<ItemAdded("message", "m1", "", ""), OutputDelta("text", <<"a">>),
      ItemAdded("function_call", "x", "x", "f"), ItemAdded("function_call", "y", "y", "g"),
      ArgsDelta("y", Open), ArgsDelta("x", Whole), ArgsDelta("z", Whole), ArgsDelta("y", Close),
      CompletedChunk("r1", NoCounters, "completed")>>,
    [output |-> <<Message("m1", <<"a">>), FunctionCall("x", "f"), FunctionCall("y", "g")>>,
     status |-> "completed", reason |-> "", usage |-> NoCounters])

\* A search with its sources, an image, and more reasoning than output.
ResponsesRich ==
    LET u == [ResponsesUsage EXCEPT !.reasoning = 5]
    IN  Answer("responses",
            <<SourcesChunk(<<"u">>), IgnoredChunk, ItemAdded("message", "m1", "", ""),
              OutputDelta("text", <<"a">>), CompletedChunk("r1", <<u>>, "completed"), DoneMarker>>,
            [output |-> <<[type |-> "image", id |-> "i1", data |-> "png"], Message("m1", <<"a">>)>>,
             status |-> "completed", reason |-> "", usage |-> <<u>>])

\* An answer cut off at its limit.
ResponsesIncomplete == Answer("responses",
    <<ItemAdded("message", "m1", "", ""), OutputDelta("text", <<"a">>),
      TerminalChunk("response.incomplete")>>,
    [output |-> <<Message("m1", <<"a">>)>>, status |-> "incomplete",
     reason |-> "max_output_tokens", usage |-> <<ResponsesUsage>>])

\* A failed response, an error, and a chunk that does not parse.
ResponsesBroken(last) == [ResponsesText EXCEPT !.frames = <<Created("r1"), last>>, !.payload = <<>>]

-----------------------------------------------------------------------------
(* Gemini: thoughts, calls, inline data, sources reported twice.             *)

GeminiUsage == [prompt |-> 9, cached |-> 2, toolUse |-> 0, completion |-> 0, reasoning |-> 1, total |-> 13]
Candidate(parts, finish, sources) == [parts |-> parts, finish |-> finish, sources |-> sources]
TextPart(type, text, sig) == [type |-> type, text |-> text, sig |-> sig]
CallPart(name) == [type |-> "call", name |-> name, args |-> Whole, sig |-> "s", text |-> <<>>]
InlinePart == [type |-> "inline", data |-> "png", text |-> <<>>]
UnknownPart == [type |-> "unknown", text |-> <<>>]

GeminiText == Answer("gemini",
    <<GeminiChunk("g1", Candidate(<<TextPart("thought", <<"r">>, "s"), TextPart("text", <<"a">>, "")>>,
                                  "", <<"u">>), NoCounters),
      GeminiEmpty,
      GeminiChunk("g1", Candidate(<<TextPart("text", <<"b">>, ""), InlinePart, UnknownPart>>,
                                  "STOP", <<"u", "v">>), <<GeminiUsage>>)>>,
    [id |-> "g1", finish |-> "STOP", sources |-> <<"u", "v">>, usage |-> <<GeminiUsage>>,
     parts |-> <<TextPart("thought", <<"r">>, "s"), TextPart("text", <<"a", "b">>, ""), InlinePart,
                 UnknownPart>>])

GeminiCalls == Answer("gemini",
    <<GeminiChunk("g1", Candidate(<<CallPart("f"), CallPart("g")>>, "", <<>>), NoCounters),
      GeminiChunk("g1", Candidate(<<CallPart("f")>>, "STOP", <<>>), NoCounters)>>,
    [id |-> "g1", finish |-> "STOP", sources |-> <<>>, usage |-> NoCounters,
     parts |-> <<CallPart("f"), CallPart("g"), CallPart("f")>>])

\* The decoder goes on after a chunk that does not parse, the n-th one here.
GeminiBroken(n) ==
    [GeminiText EXCEPT !.frames = SubSeq(@, 1, n - 1) \o <<GeminiUnparsed>> \o SubSeq(@, n, Len(@)),
                       !.payload = <<>>]

-----------------------------------------------------------------------------
MCCalls ==
    {ChatText, ChatCalls, ChatThought, ChatSigned, ChatSourced,
     ChatCounted(OnlyThoughts), ChatCounted(NoOutputCount), ChatCounted(MostlyThinking),
     AnthropicText, AnthropicCalls, AnthropicBare, AnthropicError,
     ResponsesText, ResponsesCalls, ResponsesRich, ResponsesIncomplete,
     ResponsesBroken(TerminalChunk("response.incomplete")),
     ResponsesBroken(ErrorChunk), ResponsesBroken(UnparsedChunk),
     GeminiText, GeminiCalls, GeminiBroken(1), GeminiBroken(2),
     Cut(ChatText, 0, "eof", FALSE), Cut(ChatText, 2, "stall", TRUE), Cut(ChatText, 2, "stall", FALSE),
     Cut(ChatText, 1, "panic", FALSE), Cut(ResponsesCalls, 3, "reset", TRUE),
     Cut(AnthropicText, 3, "stall", FALSE), Cut(GeminiText, 1, "reset", FALSE)}

\* For the runs that look for one counterexample.
ThoughtsCalls == {ChatCounted(OnlyThoughts)}
ShortCalls == {Cut(ChatText, 4, "eof", TRUE)}
=============================================================================
