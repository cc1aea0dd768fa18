---------------------------- MODULE StreamEvents ----------------------------
(***************************************************************************)
(* The normalised events every provider decoder emits                      *)
(* (aikit/stream_event.go), and the token counters they carry              *)
(* (aikit/usage.go).                                                       *)
(*                                                                         *)
(* Text is a sequence of tokens, so that loss, repetition and reordering   *)
(* of deltas are visible; <<>> is the empty string.  The arguments of a    *)
(* tool call are a sequence of fragments: "open" and "close" are the two   *)
(* halves of a JSON object, "scalar" is a number.                          *)
(***************************************************************************)
EXTENDS Integers, SequencesExt

NoSig == ""
NoId  == ""

TextDelta(text, sig)      == [type |-> "text", text |-> text, sig |-> sig]
ReasoningDelta(text, sig) == [type |-> "reasoning", text |-> text, sig |-> sig]
ToolCallDelta(index, id, name, args, sig) ==
    [type |-> "toolCall", index |-> index, id |-> id, name |-> name, args |-> args, sig |-> sig]
UsageEvent(usage)  == [type |-> "usage", usage |-> usage]
SourceEvent(url)   == [type |-> "source", url |-> url]
FileDelta(data)    == [type |-> "file", data |-> data]
ErrorEvent(cause)  == [type |-> "error", cause |-> cause]
FinishEvent(messageID, reason, raw, warnings) ==
    [type |-> "finish", messageID |-> messageID, reason |-> reason, raw |-> raw, warnings |-> warnings]

Option(condition, event) == IF condition THEN <<event>> ELSE <<>>

\* A usage field is a pointer: <<>> is nil, <<u>> the counters u.
NoCounters == <<>>

\* The text of the parts of one type, in order.
JoinTexts(parts, type) ==
    LET chosen == SelectSeq(parts, LAMBDA p : p.type = type)
    IN  FlattenSeq([i \in DOMAIN chosen |-> chosen[i].text])

\* aikit.AppendText and AppendReasoning: a delta joins the last part if that
\* has the same type and signature.
AppendDelta(parts, type, text, sig) ==
    LET n == Len(parts)
        joins == n > 0 /\ parts[n].type = type /\ parts[n].sig = sig
    IN  CASE text = <<>> -> parts
          [] text # <<>> /\ joins   -> [parts EXCEPT ![n].text = @ \o text]
          [] text # <<>> /\ ~ joins -> Append(parts, [type |-> type, text |-> text, sig |-> sig])

-----------------------------------------------------------------------------
(* Usage counters. *)

NoUsage == [input |-> 0, noCache |-> 0, cacheRead |-> 0, cacheWrite |-> 0,
            output |-> 0, text |-> 0, reasoning |-> 0, total |-> 0, toolUse |-> 0]

NonNegative(n) == IF n < 0 THEN 0 ELSE n

\* Usage.Merge: partial reports of one call; a later zero never clobbers.
MergeUsage(usage, incoming) ==
    [f \in DOMAIN usage |-> IF incoming[f] # 0 THEN incoming[f] ELSE usage[f]]

\* Usage.Add: the total of independently reported usages.
AddUsage(usage, other) == [f \in DOMAIN usage |-> usage[f] + other[f]]

\* Usage.HasValues
HasUsageValues(usage) == \E f \in DOMAIN usage : usage[f] # 0
=============================================================================
