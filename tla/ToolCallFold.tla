---------------------------- MODULE ToolCallFold ----------------------------
(***************************************************************************)
(* aikit.ToolCallFold: tool calls assembled from streaming deltas.  Both   *)
(* the agent's accumulator (agent/tool_call_accumulator.go) and direct     *)
(* completions (llm/streaming_response.go) use it.                         *)
(*                                                                         *)
(* A fold is a function from the tool-call indexes seen so far to drafts.  *)
(***************************************************************************)
EXTENDS StreamEvents

EmptyFold == [i \in {} |-> 0]

\* A later non-empty value wins over an earlier one.
Latest(current, next) == IF next # "" THEN next ELSE current

\* scanBalances over the whole text: no bracket is left open.
Balanced(args) ==
    Len(SelectSeq(args, LAMBDA f : f = "open")) = Len(SelectSeq(args, LAMBDA f : f = "close"))

StartsStructured(args) == args # <<>> /\ Head(args) = "open"

ValidJSON(args) == args \in {<<"open", "close">>, <<"scalar">>}

\* A root scalar is never recognised as complete: its prefix looks finished too.
IsComplete(args) == Balanced(args) /\ StartsStructured(args) /\ ValidJSON(args)

\* Mutant: arguments go on accumulating after a complete object.
AppendArgsUngated(draft, delta) ==
    [draft EXCEPT !.args = @ \o delta, !.complete = IsComplete(draft.args \o delta)]

\* foldedToolCall.appendArgs: once complete, further arguments are ignored.
AppendArgs(draft, delta) ==
    IF delta = <<>> \/ draft.complete
    THEN draft
    ELSE [draft EXCEPT !.args = @ \o delta, !.complete = IsComplete(draft.args \o delta)]

IsNewCall(fold, event) == event.index \notin DOMAIN fold

\* ToolCallFold.Add
AddDelta(fold, event) ==
    LET opened  == [id |-> event.id, name |-> event.name, sig |-> event.sig,
                    args |-> <<>>, complete |-> FALSE]
        updated == LET d == fold[event.index]
                   IN  [d EXCEPT !.id   = Latest(@, event.id),
                                 !.name = Latest(@, event.name),
                                 !.sig  = IF @ = NoSig THEN event.sig ELSE @]
        draft   == AppendArgs(IF IsNewCall(fold, event) THEN opened ELSE updated, event.args)
    IN  [i \in DOMAIN fold \cup {event.index} |-> IF i = event.index THEN draft ELSE fold[i]]

\* ToolCallFold.Completed: every draft, ordered by index.
Completed(fold) ==
    LET order == SetToSortSeq(DOMAIN fold, <)
    IN  [k \in DOMAIN order |-> [index |-> order[k], id |-> fold[order[k]].id,
                                 name |-> fold[order[k]].name, sig |-> fold[order[k]].sig,
                                 args |-> fold[order[k]].args]]
=============================================================================
