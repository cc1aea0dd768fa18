---------------------------- MODULE MCRunOutputs -----------------------------
(***************************************************************************)
(* Instances of RunOutputs: short answers that mix text, thinking, usage   *)
(* and calls in the orders providers do, one or two to a run.              *)
(***************************************************************************)
EXTENDS RunOutputs

Tokens(input, output) == [NoUsage EXCEPT !.input = input, !.output = output,
                                         !.total = input + output]

\* Text, a thought that interrupts it, text again.
TalkTurn == <<TextDelta(<<"a">>, NoSig), ReasoningDelta(<<"r">>, "s"), TextDelta(<<"b">>, NoSig),
              UsageEvent(Tokens(2, 1)), FinishEvent("m1", "stop", "stop", 0)>>

\* A thought, then a call in two fragments, between two reports of usage.
CallTurn == <<ReasoningDelta(<<"r">>, "s"), UsageEvent([Tokens(3, 0) EXCEPT !.cacheRead = 1]),
              ToolCallDelta(0, "c1", "t", <<"open">>, "s"),
              ToolCallDelta(0, "", "", <<"close">>, NoSig),
              UsageEvent([Tokens(0, 4) EXCEPT !.total = 7]),
              FinishEvent("m2", "tool-calls", "tool_calls", 0)>>

\* Two calls, interleaved, one of them with its arguments sent twice.
PairTurn == <<TextDelta(<<"a">>, NoSig),
              ToolCallDelta(0, "c2", "t", <<"open", "close">>, NoSig),
              ToolCallDelta(1, "c3", "u", <<"open">>, NoSig),
              ToolCallDelta(0, "c2", "", <<"open", "close">>, NoSig),
              ToolCallDelta(1, "c3", "", <<"close">>, NoSig),
              UsageEvent([Tokens(1, 1) EXCEPT !.toolUse = 1, !.noCache = 1]),
              FinishEvent(NoId, "tool-calls", "tool_calls", 0)>>

\* A source, a file, and a call without arguments.
BareTurn == <<SourceEvent("url"), FileDelta(File("file", "image", "data")),
              ToolCallDelta(0, "c4", "t", <<>>, NoSig), FinishEvent("m4", "stop", "stop", 0)>>

\* Two calls whose fragments come with the second one first, the other cut short.
CutTurn == <<ToolCallDelta(1, "c6", "u", <<"open", "close">>, NoSig),
             ToolCallDelta(0, "c5", "t", <<"open">>, NoSig),
             FinishEvent("m5", "length", "length", 0)>>

PlainOptions == [emitSteps |-> FALSE, structuredStart |-> FALSE, hasState |-> FALSE]
FullOptions  == [emitSteps |-> TRUE, structuredStart |-> TRUE, hasState |-> TRUE]

Asks(parts) == Message("user", NoId, parts)
Question    == TextPart(<<"q">>, NoSig)
Prompts     == {<<Asks(<<Question>>)>>,
                <<Message("system", NoId, <<Question>>), Asks(<<Question>>), Message("system", NoId, <<Question>>),
                  Asks(<<FilePart(File("image", "image", "data")), FilePart(File("file", "pdf", "id"))>>)>>,
                <<Asks(<<FilePart(File("file", "image", "url")), FilePart(File("file", "pdf", "url"))>>),
                  Asks(<<FilePart(File("file", "other", "data")), FilePart(File("audio", "audio", "data"))>>)>>}
Call(id) == [id |-> id, name |-> "t", args |-> <<"open", "close">>, sig |-> NoSig]

Config(protocol, driver, options, parallel, prompt, resumed, turns) ==
    [protocol |-> protocol, driver |-> driver, options |-> options, parallel |-> parallel,
     prompt |-> prompt, resumed |-> resumed, turns |-> turns,
     parts |-> [i \in DOMAIN resumed |-> Sdk!UiResponded(resumed[i].call, resumed[i].approved)]]

\* A client's answers to two approval requests of an earlier run.
Answers == {<<>>, <<[call |-> Call("c8"), approved |-> TRUE], [call |-> Call("c9"), approved |-> FALSE]>>}

Plain == <<Asks(<<Question>>)>>
MCConfigs ==
       {Config(p, "pipe", o, FALSE, Plain, a, <<CallTurn, TalkTurn>>) :
          p \in {"ai-sdk", "ag-ui"}, o \in {PlainOptions, FullOptions}, a \in Answers}
  \cup {Config(p, "pipe", PlainOptions, b, Plain, <<>>, t) :
          p \in {"ai-sdk", "ag-ui"}, b \in BOOLEAN,
          t \in {<<PairTurn, TalkTurn>>, <<BareTurn, CallTurn>>, <<CutTurn, TalkTurn>>}}
  \cup {Config("ai-sdk", "pipe", PlainOptions, FALSE, q, <<>>, <<CallTurn, TalkTurn>>) : q \in Prompts}
  \cup {Config("ai-sdk", "adapter", PlainOptions, TRUE, Plain, a, <<CallTurn, BareTurn>>) : a \in Answers}
=============================================================================
