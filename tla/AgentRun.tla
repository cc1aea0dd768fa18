------------------------------ MODULE AgentRun ------------------------------
(***************************************************************************)
(* One agent run: the driver goroutine started by driveStream, the bounded *)
(* event channel, and the consumer ranging over StepStream.Events, which   *)
(* may stop, panic, or be cancelled at any time.                           *)
(*                                                                         *)
(* The driver is a program counter pc over the locations of runLoop.  Most *)
(* locations emit one event.  An emission is two steps, because the code   *)
(* looks at the context and runs the stream-event hooks first and only     *)
(* then enters the select: between the two anything may happen.  What      *)
(* follows a successful and a refused emission is given by the tables      *)
(* After and Refused.                                                      *)
(*                                                                         *)
(* Tools run one at a time here (executeToolCalls); ToolBatch models the   *)
(* concurrent path.                                                        *)
(***************************************************************************)
EXTENDS Integers, Sequences, FiniteSets

CONSTANTS
    MaxTurns,     \* Runner.MaxTurns: the budget of model calls
    Capacity,     \* capacity of the event channel (64 in the code)
    MaxChunks,    \* bound: stream chunks a provider sends in one turn
    MaxCalls,     \* bound: tool calls of one turn
    MaxResumed    \* bound: answered approvals in the input history

ASSUME AgentRunAssumption ==
    /\ MaxTurns \in Nat \ {0}
    /\ Capacity \in Nat \ {0}
    /\ MaxChunks \in Nat
    /\ MaxCalls \in Nat
    /\ MaxResumed \in Nat

VARIABLES
    pc,             \* where the driver is
    pend,           \* the event in the select of emit, or NoEvent
    ch,             \* the event channel; it is closed once pc = "exited"
    step,           \* the loop variable of runLoop
    modelCalls,     \* run.modelCalls
    streams,        \* provider calls really made (history variable)
    modelTurnHooks, \* whether the run has a ModelTurnHook
    buffering,      \* run.bufferingTurn
    buffer,         \* run.bufferedStreamEvents
    chunks,         \* chunks the provider may still send in this turn
    calls,          \* tool calls not yet handled
    control,        \* controlErr of executeToolCalls
    hookErr,        \* run.hookErr is set
    err,            \* the error about to be emitted or returned
    cancelled,      \* the context of the run is done
    cons,           \* the consumer: "ranging", "draining" or "finished"
    runErr,         \* runErr of Runner.sequence
    state,          \* StepStream.State()
    delivered,      \* what was yielded to the consumer (history variable)
    lost,           \* what emitTerminalError discarded (history variable)
    rejected        \* steps a ModelTurnHook rejected (history variable)

turnVars == <<buffering, buffer, chunks, calls, control>>
budgetVars == <<step, modelCalls, streams, rejected>>
channelVars == <<pend, ch, lost>>
errorVars == <<hookErr, err>>
consumerVars == <<cons, runErr, state, delivered>>
vars == <<pc, turnVars, budgetVars, channelVars, errorVars, modelTurnHooks,
          cancelled, consumerVars>>

Causes == {"hook", "cancelled", "failure", "maxTurns", "panic"}

EventTypes ==
    {"StepStart", "Chunk", "ToolCallReady", "ToolCallInvalid", "ToolResult",
     "ClientToolRequest", "ApprovalRequest", "OutputDenied", "StepEnd",
     "StructuredOutput", "Done", "Error"}

Events == [type : EventTypes, step : 0..MaxTurns, cause : Causes \cup {"none"}]
NoEvent == [type |-> "None", step |-> 0, cause |-> "none"]

(* What each emitting location sends. *)
Emits ==
    [resumeReady |-> "ToolCallReady", resumeDenied |-> "OutputDenied",
     resumeResult |-> "ToolResult", resumeError |-> "Error",
     stepStart |-> "StepStart", delta |-> "Chunk",
     runError |-> "Error", stopAfterError |-> "Error",
     textEnd |-> "StepEnd", textOutput |-> "StructuredOutput", done |-> "Done",
     toolInvalid |-> "ToolCallInvalid", toolReady |-> "ToolCallReady",
     clientRequest |-> "ClientToolRequest", approvalRequest |-> "ApprovalRequest",
     toolDenied |-> "OutputDenied", toolResult |-> "ToolResult",
     suspendEnd |-> "StepEnd", suspendDone |-> "Done",
     toolEnd |-> "StepEnd", toolOutput |-> "StructuredOutput", toolDone |-> "Done"]

EmitPoints == DOMAIN Emits \cup {"flush"}

(* Where the driver goes once the event is in the channel. *)
After ==
    [resumeReady |-> "resumeResult", resumeDenied |-> "resumeResult",
     resumeResult |-> "resume", resumeError |-> "return",
     stepStart |-> "prepare", delta |-> "consume", flush |-> "flush",
     runError |-> "return", stopAfterError |-> "stop",
     textEnd |-> "text", textOutput |-> "done", done |-> "return",
     toolInvalid |-> "toolResult", toolReady |-> "tool",
     clientRequest |-> "suspend", approvalRequest |-> "approval",
     toolDenied |-> "toolResult", toolResult |-> "tools",
     suspendEnd |-> "suspendDone", suspendDone |-> "stop",
     toolEnd |-> "stopWhen", toolOutput |-> "toolDone", toolDone |-> "stop"]

(* Mutant: a refused emission returns nil instead of stopError. *)
RefusedSilently(loc) == "return"

(* Where the driver goes when emit returned false: the consumer is gone, or *)
(* a stream-event hook failed.  The locations not listed stop the run.      *)
Refused(loc) ==
    CASE loc \in {"resumeReady", "resumeResult"} ->
            IF cancelled THEN "resumeCancelled" ELSE "turn"
      [] loc \in {"resumeDenied", "toolDenied", "suspendEnd"} -> After[loc]
      [] loc = "resumeError" -> "return"
      [] loc = "approvalRequest" -> IF cancelled THEN "toolFailed" ELSE "panic"
      [] OTHER -> "stop"

Locations ==
    EmitPoints \cup
    {"resume", "resumeCancelled", "turn", "prepare", "consume", "accept", "text",
     "tools", "tool", "suspend", "approval", "toolFailed", "stopWhen", "output",
     "outputStream", "panic", "stop", "fail", "discard", "return", "exited"}

EventAt(loc) ==
    IF loc = "flush" THEN Head(buffer)
    ELSE [type |-> Emits[loc], step |-> step,
          cause |-> IF Emits[loc] = "Error" THEN err ELSE "none"]

Init ==
    /\ pc = "resume"
    /\ pend = NoEvent
    /\ ch = <<>>
    /\ step = 0 /\ modelCalls = 0 /\ streams = 0
    /\ modelTurnHooks \in BOOLEAN
    /\ buffering = FALSE /\ buffer = <<>>
    /\ chunks = 0
    /\ calls \in 0..MaxResumed
    /\ control = "none" /\ err = "none"
    /\ hookErr = FALSE /\ cancelled = FALSE
    /\ cons = "ranging" /\ runErr = "none" /\ state = "NotDrained"
    /\ delivered = <<>> /\ lost = <<>> /\ rejected = {}

-----------------------------------------------------------------------------
(* Emission: run.emit, run.emitObserved and run.emitStreamChunk. *)

(* Mutant: StepStart is emitted although the turn is being held back. *)
ChunksBuffered(loc) == buffering /\ loc = "delta"

Buffered(loc) == buffering /\ loc \in {"stepStart", "delta"}

AtEmission ==
    /\ pc \in EmitPoints
    /\ ~Buffered(pc)
    /\ pc = "flush" => buffer # <<>>

(* The context is live and the stream-event hooks accept: enter the select. *)
EnterSelect ==
    /\ AtEmission /\ pend = NoEvent
    /\ ~cancelled /\ ~hookErr
    /\ pend' = EventAt(pc)
    /\ UNCHANGED <<pc, ch, lost, turnVars, budgetVars, errorVars, modelTurnHooks,
                   cancelled, consumerVars>>

(* Mutant: the send does not wait for room in the channel. *)
SendUnbounded ==
    /\ pend # NoEvent
    /\ ch' = Append(ch, pend)
    /\ pend' = NoEvent
    /\ pc' = After[pc]
    /\ buffer' = IF pc = "flush" THEN Tail(buffer) ELSE buffer
    /\ calls' = IF pc \in {"resumeResult", "toolResult"} THEN calls - 1 ELSE calls
    /\ UNCHANGED <<lost, buffering, chunks, control, budgetVars, errorVars,
                   modelTurnHooks, cancelled, consumerVars>>

(* The select picks the channel.  It may do so although the context ended   *)
(* in the meantime.                                                         *)
Send ==
    /\ pend # NoEvent /\ Len(ch) < Capacity
    /\ ch' = Append(ch, pend)
    /\ pend' = NoEvent
    /\ pc' = After[pc]
    /\ buffer' = IF pc = "flush" THEN Tail(buffer) ELSE buffer
    /\ calls' = IF pc \in {"resumeResult", "toolResult"} THEN calls - 1 ELSE calls
    /\ UNCHANGED <<lost, buffering, chunks, control, budgetVars, errorVars,
                   modelTurnHooks, cancelled, consumerVars>>

(* emit returns false: the context was done before the hooks ran or while   *)
(* the select waited, an earlier hook failure stands, or a hook fails now.  *)
Refuse(hookFails) ==
    /\ AtEmission
    /\ IF hookFails
       THEN pend = NoEvent /\ ~cancelled /\ ~hookErr
       ELSE cancelled \/ (pend = NoEvent /\ hookErr)
    /\ hookErr' = (hookErr \/ hookFails)
    /\ pend' = NoEvent
    /\ pc' = Refused(pc)
    /\ buffer' = IF pc = "flush" THEN <<>> ELSE buffer
    /\ UNCHANGED <<ch, lost, buffering, chunks, calls, control, budgetVars, err,
                   modelTurnHooks, cancelled, consumerVars>>

(* emitStreamChunk under a ModelTurnHook holds the event back. *)
BufferChunk ==
    /\ Buffered(pc)
    /\ buffer' = Append(buffer, EventAt(pc))
    /\ pc' = After[pc]
    /\ UNCHANGED <<channelVars, buffering, chunks, calls, control, budgetVars,
                   errorVars, modelTurnHooks, cancelled, consumerVars>>

-----------------------------------------------------------------------------
(* The control steps between emissions. *)

Goto(from, to) ==
    /\ pc = from /\ pc' = to
    /\ UNCHANGED <<channelVars, modelTurnHooks, cancelled, consumerVars>>

(* Moves on with nothing but the error to report changed. *)
FailWith(from, to, cause) ==
    /\ Goto(from, to)
    /\ err' = cause
    /\ UNCHANGED <<turnVars, budgetVars, hookErr>>

Step(from, to) ==
    /\ Goto(from, to)
    /\ UNCHANGED <<turnVars, budgetVars, errorVars>>

(* prepareRunHistory and resumeToolApprovals: every answered approval of    *)
(* the history is executed (or reported as denied) before the first turn.   *)
ResumeApprovals ==
    \/ calls = 0 /\ Step("resume", "turn")
    \/ calls > 0 /\ ~cancelled /\ Step("resume", "resumeReady")
    \/ calls > 0 /\ Step("resume", "resumeDenied")
    \/ cancelled /\ FailWith("resume", "fail", "cancelled")
    \/ ~cancelled /\ FailWith("resume", "resumeError", "failure")
    \/ FailWith("resumeCancelled", "fail", "cancelled")

(* The head of the turn loop. *)
BeginTurn ==
    /\ step < MaxTurns
    /\ Goto("turn", "stepStart")
    /\ buffering' = modelTurnHooks
    /\ buffer' = <<>>
    /\ UNCHANGED <<chunks, calls, control, budgetVars, errorVars>>

ExhaustTurns ==
    /\ step >= MaxTurns
    /\ FailWith("turn", "runError", "maxTurns")

(* PrepareStep, the BeforeCompletion hooks, the budget and model.Stream.    *)
(* The reservation at this place never fails: see TurnsLeaveBudget.         *)
HookStopsCall ==
    FailWith("prepare", "runError", IF hookErr THEN "hook" ELSE "failure")

(* Mutant: the budget check is forgotten. *)
ReserveUnchecked == modelCalls' = modelCalls + 1

ReserveModelCall ==
    /\ modelCalls < MaxTurns
    /\ modelCalls' = modelCalls + 1

(* Mutant: BeforeCompletion does not look at an earlier hook failure. *)
CallModelAfterHookFailure(ok) ==
    /\ ReserveModelCall
    /\ streams' = streams + 1
    /\ Goto("prepare", IF ok THEN "consume" ELSE "runError")
    /\ err' = IF ok THEN err ELSE "failure"
    /\ chunks' = MaxChunks
    /\ UNCHANGED <<buffering, buffer, calls, control, step, rejected, hookErr>>

CallModel(ok) ==
    /\ ~hookErr
    /\ ReserveModelCall
    /\ streams' = streams + 1
    /\ Goto("prepare", IF ok THEN "consume" ELSE "runError")
    /\ err' = IF ok THEN err ELSE "failure"
    /\ chunks' = MaxChunks
    /\ UNCHANGED <<buffering, buffer, calls, control, step, rejected, hookErr>>

(* A caller's callback panics: PrepareStep, StopWhen, the model or a tool. *)
CallbackPanics ==
    \E loc \in {"prepare", "stopWhen", "output", "tool", "approval"} :
        Step(loc, "panic")

DiscardTurnBuffer == buffering' = FALSE /\ buffer' = <<>>

(* consumeStream: one select per chunk of the provider stream. *)
StreamChunk ==
    /\ chunks > 0
    /\ Goto("consume", "delta")
    /\ chunks' = chunks - 1
    /\ UNCHANGED <<buffering, buffer, calls, control, budgetVars, errorVars>>

StreamEnds ==
    /\ Goto("consume", "accept")
    /\ calls' \in 0..MaxCalls
    /\ control' = "none"
    /\ UNCHANGED <<buffering, buffer, chunks, budgetVars, errorVars>>

(* The context ended, a delta hook stopped the run, or the provider sent an *)
(* error event.                                                             *)
StreamInterrupted ==
    /\ \/ cancelled /\ Goto("consume", "stop") /\ UNCHANGED errorVars
       \/ Goto("consume", "stop") /\ hookErr' = TRUE /\ UNCHANGED err
       \/ Goto("consume", "stopAfterError") /\ err' = "failure" /\ UNCHANGED hookErr
    /\ DiscardTurnBuffer
    /\ UNCHANGED <<chunks, calls, control, budgetVars>>

(* The completion-response and model-turn hooks. *)
HookStopsTurn ==
    /\ Goto("accept", "runError")
    /\ err' = "failure"
    /\ DiscardTurnBuffer
    /\ UNCHANGED <<chunks, calls, control, budgetVars, hookErr>>

(* Mutant: a retried turn does not count. *)
RetryKeepsStep ==
    /\ modelTurnHooks /\ calls = 0
    /\ Goto("accept", "turn")
    /\ rejected' = rejected \cup {step}
    /\ UNCHANGED step
    /\ DiscardTurnBuffer
    /\ UNCHANGED <<chunks, calls, control, modelCalls, streams, errorVars>>

RetryTurn ==
    /\ modelTurnHooks /\ calls = 0
    /\ Goto("accept", "turn")
    /\ rejected' = rejected \cup {step}
    /\ step' = step + 1
    /\ DiscardTurnBuffer
    /\ UNCHANGED <<chunks, calls, control, modelCalls, streams, errorVars>>

AcceptTurn ==
    /\ Goto("accept", "flush")
    /\ buffering' = FALSE
    /\ UNCHANGED <<buffer, chunks, calls, control, budgetVars, errorVars>>

(* Mutant: a text turn skips its StepEnd. *)
FlushSkipsStepEnd ==
    /\ buffer = <<>>
    /\ Step("flush", IF calls = 0 THEN "text" ELSE "tools")

FlushDone ==
    /\ buffer = <<>>
    /\ Step("flush", IF calls = 0 THEN "textEnd" ELSE "tools")

(* finishTextStep after its StepEnd: the text is the structured output. *)
FinishText ==
    \/ Step("text", "done")
    \/ Step("text", "textOutput")
    \/ FailWith("text", "stopAfterError", "failure")

-----------------------------------------------------------------------------
(* Tools, one call at a time. *)

(* A failure outranks a suspension, otherwise the first error stays. *)
PreferControlErr(current, next) ==
    IF current = "none" \/ (current = "suspended" /\ next = "failed")
    THEN next ELSE current

(* The call ends without a result; break also skips the remaining calls. *)
CallFails(from, to, outcome, break) ==
    /\ Goto(from, to)
    /\ control' = PreferControlErr(control, outcome)
    /\ calls' = IF break THEN 0 ELSE calls - 1
    /\ UNCHANGED <<buffering, buffer, chunks, budgetVars, errorVars>>

NextToolCall ==
    /\ calls > 0
    /\ \/ Step("tools", "toolInvalid")
       \/ Step("tools", "toolReady")
       \/ CallFails("tools", "tools", "failed", TRUE)

(* After ToolCallReady: skip or execute, ask the client, or ask for approval. *)
DispatchTool ==
    \/ Step("tool", "clientRequest")
    \/ Step("tool", "approvalRequest")
    \/ Step("tool", "toolResult")
    \/ cancelled /\ Step("tool", "toolFailed")
    \/ CallFails("suspend", "tools", "suspended", FALSE)
    \/ CallFails("toolFailed", "tools", "failed", FALSE)

(* Without a responder the run suspends, else its answer decides. *)
ResolveApproval ==
    \/ Step("approval", "suspend")
    \/ Step("approval", "toolDenied")
    \/ Step("approval", "toolResult")
    \/ cancelled /\ Step("approval", "toolFailed")

(* An after-tool hook stops the run, or the output transform fails: the     *)
(* result is still emitted in the second case.                              *)
ToolOutputFails ==
    \/ \E from \in {"tool", "approval"} : CallFails(from, "tools", "failed", TRUE)
    \/ \E from \in {"tool", "approval"} :
        /\ Goto(from, "toolResult")
        /\ control' = PreferControlErr(control, "failed")
        /\ UNCHANGED <<buffering, buffer, chunks, calls, budgetVars, errorVars>>

(* executeToolStep once all calls are handled. *)
ToolsDone ==
    /\ calls = 0
    /\ \/ control = "none" /\ Step("tools", "toolEnd")
       \/ control = "suspended" /\ Step("tools", "suspendEnd")
       \/ control = "failed" /\ FailWith("tools", "stopAfterError", "failure")

StopWhenHolds == Step("stopWhen", "output")

Continue ==
    /\ Goto("stopWhen", "turn")
    /\ step' = step + 1
    /\ UNCHANGED <<turnVars, modelCalls, streams, rejected, errorVars>>

(* emitStructuredOutput: one more model call of the same budget. *)
NoStructuredOutput == Step("output", "toolDone")

OutputBudgetSpent ==
    /\ modelCalls >= MaxTurns
    /\ FailWith("output", "stopAfterError", "maxTurns")

CallForOutput(ok) ==
    /\ ReserveModelCall
    /\ streams' \in IF ok THEN {streams + 1} ELSE {streams, streams + 1}
    /\ Goto("output", IF ok THEN "outputStream" ELSE "stopAfterError")
    /\ err' = IF ok THEN err ELSE "failure"
    /\ UNCHANGED <<turnVars, step, rejected, hookErr>>

OutputStream ==
    \/ cancelled /\ Step("outputStream", "stop")
    \/ Step("outputStream", "toolOutput")
    \/ FailWith("outputStream", "stopAfterError", "failure")

-----------------------------------------------------------------------------
(* The end of the driver. *)

(* Mutant: the driver always reports its context's end when it stops. *)
StopErrorAlways == IF hookErr THEN "hook" ELSE "cancelled"

StopError == IF hookErr THEN "hook" ELSE IF cancelled THEN "cancelled" ELSE "none"

Stop ==
    FailWith("stop", IF StopError = "none" THEN "return" ELSE "fail", StopError)

Panic == FailWith("panic", "fail", "panic")

(* emitTerminalError never blocks: it sends, or it drops the oldest event   *)
(* and tries again.  The consumer may have made room in between.            *)
SendTerminalError ==
    /\ pc = "fail" /\ Len(ch) < Capacity
    /\ ch' = Append(ch, [type |-> "Error", step |-> step, cause |-> err])
    /\ pc' = "return"
    /\ UNCHANGED <<pend, lost, turnVars, budgetVars, errorVars, modelTurnHooks,
                   cancelled, consumerVars>>

(* Mutant: the channel counts as full while one place is left. *)
TerminalErrorBlockedEarly == Len(ch) >= Capacity - 1 /\ Step("fail", "discard")

TerminalErrorBlocked == Len(ch) = Capacity /\ Step("fail", "discard")

(* Mutant: nothing is discarded, so the retry finds the channel full again. *)
DiscardNothing ==
    /\ pc = "discard" /\ pc' = "fail"
    /\ UNCHANGED <<ch, lost, pend, turnVars, budgetVars, errorVars, modelTurnHooks,
                   cancelled, consumerVars>>

DiscardOldest ==
    /\ pc = "discard" /\ pc' = "fail"
    /\ ch' = IF ch = <<>> THEN ch ELSE Tail(ch)
    /\ lost' = IF ch = <<>> THEN lost ELSE Append(lost, Head(ch))
    /\ UNCHANGED <<pend, turnVars, budgetVars, errorVars, modelTurnHooks,
                   cancelled, consumerVars>>

CloseChannel == Step("return", "exited")

DriverNext ==
    \/ EnterSelect \/ Send \/ BufferChunk
    \/ \E hookFails \in BOOLEAN : Refuse(hookFails)
    \/ ResumeApprovals
    \/ BeginTurn \/ ExhaustTurns
    \/ HookStopsCall \/ CallbackPanics
    \/ \E ok \in BOOLEAN : CallModel(ok)
    \/ StreamChunk \/ StreamEnds \/ StreamInterrupted
    \/ HookStopsTurn \/ RetryTurn \/ AcceptTurn \/ FlushDone
    \/ FinishText
    \/ NextToolCall \/ DispatchTool \/ ResolveApproval \/ ToolOutputFails \/ ToolsDone
    \/ StopWhenHolds \/ Continue
    \/ NoStructuredOutput \/ OutputBudgetSpent \/ OutputStream
    \/ \E ok \in BOOLEAN : CallForOutput(ok)
    \/ Stop \/ Panic
    \/ SendTerminalError \/ TerminalErrorBlocked \/ DiscardOldest \/ CloseChannel

-----------------------------------------------------------------------------
(* The consumer: Runner.sequence. *)

driverVars == <<pc, pend, lost, turnVars, budgetVars, errorVars, modelTurnHooks>>

Seen(type, events) == \E i \in DOMAIN events : events[i].type = type

TakeEvent ==
    /\ cons = "ranging" /\ ch # <<>>
    /\ ch' = Tail(ch)
    /\ delivered' = Append(delivered, Head(ch))
    /\ UNCHANGED driverVars

(* The range body takes the event and asks for more. *)
Receive ==
    /\ TakeEvent
    /\ Head(ch).type # "Error"
    /\ UNCHANGED <<cancelled, cons, runErr, state>>

(* A terminal error is yielded, then the run is cancelled and drained. *)
ReceiveError ==
    /\ TakeEvent
    /\ Head(ch).type = "Error"
    /\ runErr' = Head(ch).cause
    /\ cancelled' = TRUE
    /\ cons' = "draining"
    /\ UNCHANGED state

(* The range body breaks: after Done that is a normal end. *)
Break ==
    /\ TakeEvent
    /\ Head(ch).type # "Error"
    /\ runErr' = IF Seen("Done", delivered') THEN "none" ELSE "cancelled"
    /\ cancelled' = TRUE
    /\ cons' = "draining"
    /\ UNCHANGED state

(* Mutant: the deferred function does not account for a panic. *)
BodyPanicsUnnoticed ==
    /\ TakeEvent
    /\ runErr' = IF Head(ch).type = "Error" THEN Head(ch).cause ELSE "none"
    /\ cancelled' = TRUE
    /\ cons' = "finished"
    /\ state' = "Aborted"

(* The range body panics: the deferred function runs, nothing is drained. *)
BodyPanics ==
    /\ TakeEvent
    /\ runErr' = IF Head(ch).type = "Error" THEN Head(ch).cause ELSE "cancelled"
    /\ cancelled' = TRUE
    /\ cons' = "finished"
    /\ state' = "Aborted"

Drain ==
    /\ cons = "draining" /\ ch # <<>>
    /\ ch' = Tail(ch)
    /\ UNCHANGED <<driverVars, cancelled, consumerVars>>

(* The channel is closed and empty: the deferred function of sequence sets  *)
(* the terminal state.                                                      *)
FinishRange ==
    /\ cons # "finished" /\ ch = <<>> /\ pc = "exited"
    /\ cons' = "finished"
    /\ cancelled' = TRUE
    /\ state' = IF runErr = "none" THEN "Completed" ELSE "Aborted"
    /\ UNCHANGED <<driverVars, ch, runErr, delivered>>

ConsumerNext == Receive \/ ReceiveError \/ Break \/ BodyPanics \/ Drain \/ FinishRange

(* The caller cancels the context it passed to the runner. *)
Cancel ==
    /\ ~cancelled
    /\ cancelled' = TRUE
    /\ UNCHANGED <<driverVars, ch, consumerVars>>

Terminated ==
    /\ cons = "finished" /\ pc = "exited"
    /\ UNCHANGED vars

Next == DriverNext \/ ConsumerNext \/ Cancel \/ Terminated

Spec == Init /\ [][Next]_vars

FairSpec == Spec /\ WF_vars(DriverNext) /\ WF_vars(ConsumerNext)
-----------------------------------------------------------------------------
(* Properties. *)

(* Every variable stays in its type; the channel never exceeds its capacity *)
(* and the step never exceeds the turn budget.                              *)
TypeInvariant ==
    /\ pc \in Locations
    /\ pend \in Events \cup {NoEvent}
    /\ ch \in Seq(Events) /\ Len(ch) <= Capacity
    /\ step \in 0..MaxTurns /\ modelCalls \in Nat /\ streams \in Nat
    /\ modelTurnHooks \in BOOLEAN /\ buffering \in BOOLEAN
    /\ buffer \in Seq(Events)
    /\ chunks \in 0..MaxChunks /\ calls \in Nat
    /\ control \in {"none", "suspended", "failed"}
    /\ hookErr \in BOOLEAN /\ cancelled \in BOOLEAN
    /\ err \in Causes \cup {"none"}
    /\ cons \in {"ranging", "draining", "finished"}
    /\ runErr \in Causes \cup {"none"}
    /\ state \in {"NotDrained", "Completed", "Aborted"}
    /\ delivered \in Seq(Events) /\ lost \in Seq(Events)
    /\ rejected \subseteq 0..MaxTurns

(* Everything the channel took and did not lose, in order. *)
Emitted == delivered \o ch

(* MaxTurns is the hard total of provider calls: first calls, continuations, *)
(* retried turns and the structured-output call share it.                    *)
ModelCallsWithinBudget == streams <= modelCalls /\ modelCalls <= MaxTurns

(* The turn counter never runs behind the calls: a turn that the loop admits *)
(* finds budget for its call, so of the two checks only that of the loop and *)
(* that of the structured-output call can fail.                              *)
TurnsLeaveBudget == pc = "prepare" => modelCalls < MaxTurns

(* Nothing follows an Error in what the consumer sees, and only the error of *)
(* a cancelled context can follow Done.                                      *)
TerminalOrder ==
    \A i \in 1..Len(Emitted) :
        /\ Emitted[i].type = "Error" => i >= Len(delivered)
        /\ Emitted[i].type = "Done" /\ i < Len(Emitted) =>
             cancelled /\ Emitted[i + 1].type = "Error"

(* A range that ends as StreamCompleted has seen Done, unless the run ended *)
(* before its first turn.                                                   *)
CompletedRunsAreDone ==
    state = "Completed" /\ Seen("StepStart", delivered) => Seen("Done", delivered)

(* The terminal state and the error agree: a run is reported as completed   *)
(* exactly when it has no error, also when the range body panicked.         *)
OutcomeMatchesError ==
    /\ (cons = "finished") <=> (state # "NotDrained")
    /\ state = "Completed" => runErr = "none"
    /\ state = "Aborted" => runErr # "none"

(* Making room for the terminal error costs at most one event. *)
AtMostOneEventLost == Len(lost) <= 1

(* Steps are bracketed in what the consumer sees, as long as nothing was    *)
(* lost: step numbers grow, a StepEnd closes the step that is open, and Done *)
(* comes when no step is open.                                               *)
StepsBracketed ==
    LET Starts(n) == {i \in 1..n : delivered[i].type = "StepStart"}
        Ends(n) == {i \in 1..n : delivered[i].type = "StepEnd"}
    IN  lost = <<>> =>
        \A i \in 1..Len(delivered) :
            /\ delivered[i].type = "StepStart" =>
                 \A j \in Starts(i - 1) : delivered[j].step < delivered[i].step
            /\ delivered[i].type = "StepEnd" =>
                 /\ Cardinality(Starts(i)) = Cardinality(Ends(i))
                 /\ \E j \in Starts(i) : delivered[j].step = delivered[i].step
            /\ delivered[i].type = "Done" =>
                 Cardinality(Starts(i)) = Cardinality(Ends(i))

(* No event of a turn that a ModelTurnHook rejected is ever emitted. *)
RejectedTurnsInvisible ==
    \A i \in 1..Len(Emitted) :
        Emitted[i].type \in {"StepStart", "Chunk"} => Emitted[i].step \notin rejected

(* Once a stream-event or delta hook has failed, no provider call starts and *)
(* nothing but the terminal error enters the channel.                        *)
HookFailureFences ==
    [][hookErr => /\ streams' = streams
                  /\ Len(ch') > Len(ch) => ch'[Len(ch')].type = "Error"]_vars

(* The run always ends and its outcome is reported, whether the consumer    *)
(* ranges to the end, breaks, panics, or cancels.                           *)
RunEnds == <>(pc = "exited" /\ state # "NotDrained")

(* What the documentation says, and the code does not do.                   *)

(* docs/core/hooks.md: an error in a steering hook fails the run as         *)
(* HookError; it never surfaces as a panic of the driver.                   *)
HookFailureIsNoPanic == hookErr => runErr # "panic"
=============================================================================
