--------------------------- MODULE AgentRunProofs ----------------------------
(***************************************************************************)
(* Proofs about AgentRun, for every turn budget, channel capacity and bound *)
(* on the provider's input.  IndInv adds to the types what holds at each    *)
(* group of locations: a turn is within the budget, a tool call is left to  *)
(* handle, an error is in hand, and a waiting emission means that no hook   *)
(* has failed yet.                                                          *)
(***************************************************************************)
EXTENDS AgentRun, FiniteSetTheorems, SequenceTheorems, TLAPS

(* The locations of one turn, those that handle a tool call, and those with *)
(* an error in hand.                                                        *)
TurnLocations ==
    {"stepStart", "prepare", "delta", "consume", "accept", "flush", "text",
     "textEnd", "textOutput", "done", "tools", "tool", "toolInvalid", "toolReady",
     "clientRequest", "suspend", "approvalRequest", "approval", "toolDenied",
     "toolFailed", "toolResult", "suspendEnd", "suspendDone", "toolEnd", "stopWhen",
     "output", "outputStream", "toolOutput", "toolDone"}

CallLocations ==
    {"resumeReady", "resumeDenied", "resumeResult", "tool", "toolInvalid",
     "toolReady", "clientRequest", "suspend", "approvalRequest", "approval",
     "toolDenied", "toolFailed", "toolResult"}

ErrorLocations == {"resumeError", "runError", "stopAfterError", "fail", "discard"}

(* What a step from one location to another must not break. *)
Leads(from, to) ==
    /\ to \in Locations
    /\ to \in TurnLocations => from \in TurnLocations
    /\ to \in CallLocations => from \in CallLocations
    /\ to \notin ErrorLocations

(* The emitting locations, one by one. *)
LEMMA EmitPointsAre ==
    EmitPoints =
    {"resumeReady", "resumeDenied", "resumeResult", "resumeError", "stepStart",
     "delta", "flush", "runError", "stopAfterError", "textEnd", "textOutput", "done",
     "toolInvalid", "toolReady", "clientRequest", "approvalRequest", "toolDenied",
     "toolResult", "suspendEnd", "suspendDone", "toolEnd", "toolOutput", "toolDone"}
  BY DEF EmitPoints, Emits

(* Where an emission leads, and what it sends. *)
LEMMA Tables ==
    ASSUME NEW loc \in EmitPoints
    PROVE  /\ Leads(loc, After[loc])
           /\ Leads(loc, Refused(loc))
           /\ loc # "flush" => Emits[loc] \in EventTypes
           /\ loc # "flush" /\ Emits[loc] = "Error" => loc \in ErrorLocations
  <1>1. Leads(loc, After[loc])
    BY EmitPointsAre DEF After, Leads, Locations, TurnLocations, CallLocations, ErrorLocations
  <1>2. Leads(loc, Refused(loc))
    BY <1>1, EmitPointsAre
    DEF Refused, Leads, Locations, TurnLocations, CallLocations, ErrorLocations
  <1>3. loc # "flush" => Emits[loc] \in EventTypes
    BY EmitPointsAre DEF Emits, EventTypes
  <1>4. loc # "flush" /\ Emits[loc] = "Error" => loc \in ErrorLocations
    BY EmitPointsAre DEF Emits, ErrorLocations
  <1>5. QED
    BY <1>1, <1>2, <1>3, <1>4

-----------------------------------------------------------------------------
(* The inductive invariant. *)

(* An Error event always names its cause. *)
Caused == {e \in Events : e.type = "Error" => e.cause # "none"}

TypesDriver ==
    /\ pc \in Locations
    /\ step \in 0..MaxTurns /\ modelCalls \in Nat /\ streams \in Nat
    /\ modelTurnHooks \in BOOLEAN /\ buffering \in BOOLEAN
    /\ buffer \in Seq(Caused)
    /\ chunks \in 0..MaxChunks /\ calls \in Nat
    /\ control \in {"none", "suspended", "failed"}
    /\ hookErr \in BOOLEAN
    /\ err \in Causes \cup {"none"}
    /\ rejected \subseteq 0..MaxTurns

TypesChannel ==
    /\ pend \in Caused \cup {NoEvent}
    /\ ch \in Seq(Caused) /\ Len(ch) <= Capacity
    /\ lost \in Seq(Events)

TypesConsumer ==
    /\ cancelled \in BOOLEAN
    /\ cons \in {"ranging", "draining", "finished"}
    /\ runErr \in Causes \cup {"none"}
    /\ state \in {"NotDrained", "Completed", "Aborted"}
    /\ delivered \in Seq(Events)

WithinTurns == pc \in TurnLocations => step < MaxTurns
CallLeft == pc \in CallLocations => calls > 0
ErrorInHand == pc \in ErrorLocations => err # "none"

(* A waiting emission passed its hooks, and no other code of the driver has *)
(* run since.                                                               *)
WaitingMeansNoFailure ==
    pend # NoEvent => AtEmission /\ ~hookErr

DriverInv == TypesDriver /\ WithinTurns /\ CallLeft /\ ErrorInHand /\ ModelCallsWithinBudget

IndInv ==
    /\ DriverInv
    /\ TypesChannel
    /\ WaitingMeansNoFailure
    /\ TypesConsumer
    /\ OutcomeMatchesError

-----------------------------------------------------------------------------
(* Control steps: no emission is waiting, and the channel and the consumer  *)
(* are left alone.                                                          *)

LEMMA NothingWaiting == ASSUME IndInv, pc \notin EmitPoints PROVE pend = NoEvent
  BY DEF IndInv, WaitingMeansNoFailure, AtEmission

LEMMA GotoKeeps ==
    ASSUME IndInv, pend = NoEvent, NEW from, NEW to, Goto(from, to), DriverInv'
    PROVE  IndInv'
  <1>1. pend' = NoEvent /\ ch' = ch /\ lost' = lost /\ cancelled' = cancelled
        /\ cons' = cons /\ runErr' = runErr /\ state' = state /\ delivered' = delivered
    BY DEF Goto, channelVars, consumerVars
  <1>2. TypesChannel' /\ WaitingMeansNoFailure' /\ TypesConsumer'
    BY <1>1 DEF IndInv, TypesChannel, WaitingMeansNoFailure, TypesConsumer
  <1>3. OutcomeMatchesError'
    BY <1>1 DEF IndInv, OutcomeMatchesError
  <1>4. QED
    BY <1>2, <1>3 DEF IndInv

LEMMA StepKeeps ==
    ASSUME IndInv, pend = NoEvent, NEW from, NEW to \in Locations, Step(from, to),
           to \in TurnLocations => from \in TurnLocations,
           to \in CallLocations => from \in CallLocations \/ calls > 0,
           to \in ErrorLocations => from \in ErrorLocations
    PROVE  IndInv'
  <1>1. Goto(from, to)
    BY DEF Step
  <1>2. DriverInv'
    BY DEF IndInv, DriverInv, Step, Goto, turnVars, budgetVars, errorVars, TypesDriver,
           WithinTurns, CallLeft, ErrorInHand, ModelCallsWithinBudget
  <1>3. QED
    BY <1>1, <1>2, GotoKeeps

LEMMA FailWithKeeps ==
    ASSUME IndInv, pend = NoEvent, NEW from, NEW to \in Locations,
           NEW cause \in Causes \cup {"none"}, FailWith(from, to, cause),
           to \notin TurnLocations, to \notin CallLocations,
           to \in ErrorLocations => cause # "none"
    PROVE  IndInv'
  <1>1. Goto(from, to)
    BY DEF FailWith
  <1>2. DriverInv'
    BY DEF IndInv, DriverInv, FailWith, Goto, turnVars, budgetVars, TypesDriver,
           WithinTurns, CallLeft, ErrorInHand, ModelCallsWithinBudget
  <1>3. QED
    BY <1>1, <1>2, GotoKeeps

LEMMA CallFailsKeeps ==
    ASSUME IndInv, pend = NoEvent, NEW from \in CallLocations \cup {"tools"},
           NEW outcome \in {"suspended", "failed"}, NEW break \in BOOLEAN,
           from = "tools" => calls > 0,
           from \in TurnLocations,
           CallFails(from, "tools", outcome, break)
    PROVE  IndInv'
  <1>1. Goto(from, "tools") /\ pc = from
    BY DEF CallFails, Goto
  <1>2. calls > 0
    BY <1>1 DEF IndInv, DriverInv, CallLeft
  <1>3. control' \in {"none", "suspended", "failed"}
    BY DEF CallFails, PreferControlErr, IndInv, DriverInv, TypesDriver
  <1>4. calls' \in Nat
    BY <1>2 DEF CallFails, IndInv, DriverInv, TypesDriver
  <1>5. "tools" \in Locations /\ "tools" \notin CallLocations \cup ErrorLocations
    BY DEF Locations, CallLocations, ErrorLocations
  <1>6. DriverInv'
    BY <1>1, <1>3, <1>4, <1>5
    DEF IndInv, DriverInv, CallFails, Goto, budgetVars, errorVars, TypesDriver,
        WithinTurns, CallLeft, ErrorInHand, ModelCallsWithinBudget
  <1>7. QED
    BY <1>1, <1>6, GotoKeeps

-----------------------------------------------------------------------------
(* The actions of the driver between emissions, group by group. *)

(* The locations without an emission, that is, where nothing can wait.      *)
LEMMA QuietLocations ==
    {"resume", "resumeCancelled", "turn", "prepare", "consume", "accept", "text",
     "tools", "tool", "suspend", "approval", "toolFailed", "stopWhen", "output",
     "outputStream", "panic", "stop", "fail", "discard", "return", "exited"}
    \cap EmitPoints = {}
  BY EmitPointsAre

LEMMA ResumeKeeps == ASSUME IndInv, ResumeApprovals PROVE IndInv'
  <1>1. pend = NoEvent
    BY NothingWaiting, QuietLocations DEF ResumeApprovals, Step, FailWith, Goto
  <1>2. CASE calls = 0 /\ Step("resume", "turn")
    BY <1>1, <1>2, StepKeeps
    DEF Locations, EmitPoints, TurnLocations, CallLocations, ErrorLocations
  <1>3. CASE calls > 0 /\ Step("resume", "resumeReady")
    BY <1>1, <1>3, StepKeeps, EmitPointsAre
    DEF Locations, TurnLocations, CallLocations, ErrorLocations
  <1>4. CASE calls > 0 /\ Step("resume", "resumeDenied")
    BY <1>1, <1>4, StepKeeps, EmitPointsAre
    DEF Locations, TurnLocations, CallLocations, ErrorLocations
  <1>5. CASE FailWith("resume", "fail", "cancelled")
             \/ FailWith("resumeCancelled", "fail", "cancelled")
    BY <1>1, <1>5, FailWithKeeps
    DEF Locations, TurnLocations, CallLocations, ErrorLocations, Causes
  <1>6. CASE FailWith("resume", "resumeError", "failure")
    BY <1>1, <1>6, FailWithKeeps, EmitPointsAre
    DEF Locations, TurnLocations, CallLocations, ErrorLocations, Causes
  <1>7. QED
    BY <1>2, <1>3, <1>4, <1>5, <1>6 DEF ResumeApprovals

(* The loop head: this is where the turn budget is enforced. *)
LEMMA TurnKeeps == ASSUME IndInv, BeginTurn \/ ExhaustTurns PROVE IndInv'
  <1>1. CASE BeginTurn
    <2>1. Goto("turn", "stepStart") /\ pend = NoEvent
      BY <1>1, NothingWaiting, QuietLocations DEF BeginTurn, Goto
    <2>2. "stepStart" \in Locations \ (CallLocations \cup ErrorLocations)
      BY EmitPointsAre DEF Locations, CallLocations, ErrorLocations
    <2>3. <<>> \in Seq(Caused)
      OBVIOUS
    <2>4. DriverInv'
      BY <1>1, <2>2, <2>3
      DEF IndInv, DriverInv, BeginTurn, Goto, budgetVars, errorVars, TypesDriver,
          WithinTurns, CallLeft, ErrorInHand, ModelCallsWithinBudget
    <2>5. QED
      BY <2>1, <2>4, GotoKeeps
  <1>2. CASE ExhaustTurns
    <2>1. pend = NoEvent
      BY <1>2, NothingWaiting, QuietLocations DEF ExhaustTurns, FailWith, Goto
    <2>2. QED
      BY <1>2, <2>1, FailWithKeeps, EmitPointsAre
      DEF ExhaustTurns, Locations, TurnLocations, CallLocations, ErrorLocations, Causes
  <1>3. QED
    BY <1>1, <1>2

(* Before the provider call, and where a callback panics. *)
LEMMA PrepareKeeps ==
    ASSUME IndInv, HookStopsCall \/ CallbackPanics
    PROVE  IndInv'
  <1>1. CASE HookStopsCall
    <2>1. pend = NoEvent
      BY <1>1, NothingWaiting, QuietLocations DEF HookStopsCall, FailWith, Goto
    <2>2. PICK cause \in Causes : FailWith("prepare", "runError", cause)
      BY <1>1 DEF HookStopsCall, Causes
    <2>3. QED
      BY <2>1, <2>2, FailWithKeeps, EmitPointsAre
      DEF Locations, TurnLocations, CallLocations, ErrorLocations, Causes
  <1>2. CASE CallbackPanics
    <2>1. PICK loc \in {"prepare", "stopWhen", "output", "tool", "approval"} :
            Step(loc, "panic")
      BY <1>2 DEF CallbackPanics
    <2>2. pend = NoEvent
      BY <2>1, NothingWaiting, QuietLocations DEF Step, Goto
    <2>3. QED
      BY <2>1, <2>2, StepKeeps
      DEF Locations, TurnLocations, CallLocations, ErrorLocations
  <1>3. QED
    BY <1>1, <1>2

(* The provider calls: each one takes a unit of the budget first. *)
LEMMA CallModelKeeps ==
    ASSUME IndInv, NEW ok \in BOOLEAN, CallModel(ok)
    PROVE  IndInv'
  <1> DEFINE to == IF ok THEN "consume" ELSE "runError"
  <1>1. Goto("prepare", to) /\ pend = NoEvent
    BY NothingWaiting, QuietLocations DEF CallModel, Goto
  <1>2. to \in Locations \ CallLocations /\ (to \in ErrorLocations => ~ok)
    BY EmitPointsAre DEF Locations, CallLocations, ErrorLocations
  <1>3. ModelCallsWithinBudget'
    BY AgentRunAssumption
    DEF IndInv, DriverInv, TypesDriver, CallModel, ReserveModelCall, ModelCallsWithinBudget
  <1>4. TypesDriver'
    BY <1>2, AgentRunAssumption
    DEF IndInv, DriverInv, TypesDriver, CallModel, ReserveModelCall, Goto, Causes
  <1>5. WithinTurns'
    BY DEF IndInv, DriverInv, WithinTurns, TurnLocations, CallModel, Goto
  <1>6. CallLeft' /\ ErrorInHand'
    BY <1>2 DEF CallLeft, ErrorInHand, CallModel, Goto
  <1>7. QED
    BY <1>1, <1>3, <1>4, <1>5, <1>6, GotoKeeps DEF DriverInv

LEMMA CallForOutputKeeps ==
    ASSUME IndInv, NEW ok \in BOOLEAN, CallForOutput(ok)
    PROVE  IndInv'
  <1> DEFINE to == IF ok THEN "outputStream" ELSE "stopAfterError"
  <1>1. Goto("output", to) /\ pend = NoEvent
    BY NothingWaiting, QuietLocations DEF CallForOutput, Goto
  <1>2. to \in Locations \ CallLocations /\ (to \in ErrorLocations => ~ok)
    BY EmitPointsAre DEF Locations, CallLocations, ErrorLocations
  <1>3. ModelCallsWithinBudget'
    BY AgentRunAssumption
    DEF IndInv, DriverInv, TypesDriver, CallForOutput, ReserveModelCall,
        ModelCallsWithinBudget
  <1>4. streams' \in Nat /\ modelCalls' \in Nat
    BY DEF IndInv, DriverInv, TypesDriver, CallForOutput, ReserveModelCall
  <1>5. TypesDriver'
    BY <1>2, <1>4
    DEF IndInv, DriverInv, TypesDriver, CallForOutput, Goto, Causes, turnVars
  <1>6. WithinTurns'
    BY DEF IndInv, DriverInv, WithinTurns, TurnLocations, CallForOutput, Goto
  <1>7. CallLeft' /\ ErrorInHand'
    BY <1>2 DEF CallLeft, ErrorInHand, CallForOutput, Goto
  <1>8. QED
    BY <1>1, <1>3, <1>5, <1>6, <1>7, GotoKeeps DEF DriverInv

LEMMA OutputKeeps ==
    ASSUME IndInv, NoStructuredOutput \/ OutputBudgetSpent \/ OutputStream
    PROVE  IndInv'
  <1>1. pend = NoEvent
    BY NothingWaiting, QuietLocations
    DEF NoStructuredOutput, OutputBudgetSpent, OutputStream, Step, FailWith, Goto
  <1>2. CASE Step("output", "toolDone") \/ Step("outputStream", "toolOutput")
             \/ Step("outputStream", "stop")
    BY <1>1, <1>2, StepKeeps, EmitPointsAre
    DEF Locations, TurnLocations, CallLocations, ErrorLocations
  <1>3. CASE FailWith("output", "stopAfterError", "maxTurns")
             \/ FailWith("outputStream", "stopAfterError", "failure")
    BY <1>1, <1>3, FailWithKeeps, EmitPointsAre
    DEF Locations, TurnLocations, CallLocations, ErrorLocations, Causes
  <1>4. QED
    BY <1>2, <1>3 DEF NoStructuredOutput, OutputBudgetSpent, OutputStream

(* Reading the provider's stream and deciding on the turn. *)
LEMMA ConsumeKeeps ==
    ASSUME IndInv, StreamChunk \/ StreamEnds \/ StreamInterrupted
    PROVE  IndInv'
  <1>1. pc = "consume" /\ pend = NoEvent
    BY NothingWaiting, QuietLocations DEF StreamChunk, StreamEnds, StreamInterrupted, Goto
  <1>2. PICK to \in {"delta", "accept", "stop", "stopAfterError"} :
          /\ Goto("consume", to)
          /\ to \in ErrorLocations => err' = "failure"
    BY DEF StreamChunk, StreamEnds, StreamInterrupted, ErrorLocations
  <1>3. to \in Locations \ CallLocations
    BY EmitPointsAre DEF Locations, CallLocations
  <1>4. TypesDriver'
    <2>1. chunks' \in 0..MaxChunks
      BY AgentRunAssumption
      DEF IndInv, DriverInv, TypesDriver, StreamChunk, StreamEnds, StreamInterrupted
    <2>2. calls' \in Nat /\ control' \in {"none", "suspended", "failed"}
      BY AgentRunAssumption
      DEF IndInv, DriverInv, TypesDriver, StreamChunk, StreamEnds, StreamInterrupted
    <2>3. hookErr' \in BOOLEAN /\ err' \in Causes \cup {"none"}
      BY DEF IndInv, DriverInv, TypesDriver, StreamChunk, StreamEnds, StreamInterrupted,
             errorVars, Causes
    <2>4. buffering' \in BOOLEAN /\ buffer' \in Seq(Caused)
      <3>1. UNCHANGED <<buffering, buffer>> \/ (buffering' = FALSE /\ buffer' = <<>>)
        BY DEF StreamChunk, StreamEnds, StreamInterrupted, DiscardTurnBuffer
      <3>2. <<>> \in Seq(Caused)
        OBVIOUS
      <3>3. QED
        BY <3>1, <3>2 DEF IndInv, DriverInv, TypesDriver
    <2>5. UNCHANGED budgetVars
      BY DEF StreamChunk, StreamEnds, StreamInterrupted
    <2>6. QED
      BY <1>2, <1>3, <2>1, <2>2, <2>3, <2>4, <2>5
      DEF IndInv, DriverInv, TypesDriver, Goto, budgetVars
  <1>5. WithinTurns' /\ ModelCallsWithinBudget'
    BY <1>1, <1>2
    DEF IndInv, DriverInv, WithinTurns, TurnLocations, ModelCallsWithinBudget, budgetVars,
        StreamChunk, StreamEnds, StreamInterrupted
  <1>6. CallLeft' /\ ErrorInHand'
    BY <1>2, <1>3 DEF CallLeft, ErrorInHand, Goto
  <1>7. QED
    BY <1>1, <1>2, <1>4, <1>5, <1>6, GotoKeeps DEF DriverInv

LEMMA AcceptKeeps ==
    ASSUME IndInv, HookStopsTurn \/ RetryTurn \/ AcceptTurn
    PROVE  IndInv'
  <1>1. pc = "accept" /\ pend = NoEvent
    BY NothingWaiting, QuietLocations DEF HookStopsTurn, RetryTurn, AcceptTurn, Goto
  <1>2. step \in 0..MaxTurns /\ step < MaxTurns
    BY <1>1 DEF IndInv, DriverInv, TypesDriver, WithinTurns, TurnLocations
  <1>3. PICK to \in {"runError", "turn", "flush"} :
          /\ Goto("accept", to)
          /\ to \in ErrorLocations => err' = "failure"
          /\ to = "flush" => UNCHANGED budgetVars
    BY DEF HookStopsTurn, RetryTurn, AcceptTurn, ErrorLocations
  <1>4. to \in Locations \ CallLocations
    BY EmitPointsAre DEF Locations, CallLocations
  <1>5. TypesDriver'
    <2>1. step' \in 0..MaxTurns
      BY <1>2, AgentRunAssumption DEF HookStopsTurn, RetryTurn, AcceptTurn, budgetVars
    <2>2. rejected' \subseteq 0..MaxTurns
      BY <1>2 DEF IndInv, DriverInv, TypesDriver, HookStopsTurn, RetryTurn, AcceptTurn, budgetVars
    <2>3. buffering' \in BOOLEAN /\ buffer' \in Seq(Caused)
      <3>1. buffering' = FALSE /\ buffer' \in {buffer, <<>>}
        BY DEF HookStopsTurn, RetryTurn, AcceptTurn, DiscardTurnBuffer
      <3>2. <<>> \in Seq(Caused)
        OBVIOUS
      <3>3. QED
        BY <3>1, <3>2 DEF IndInv, DriverInv, TypesDriver
    <2>4. UNCHANGED <<chunks, calls, control, modelCalls, streams, hookErr, modelTurnHooks>>
      BY DEF HookStopsTurn, RetryTurn, AcceptTurn, budgetVars, errorVars, Goto
    <2>5. err' \in Causes \cup {"none"}
      BY DEF IndInv, DriverInv, TypesDriver, HookStopsTurn, RetryTurn, AcceptTurn,
             errorVars, Causes
    <2>6. QED
      BY <1>3, <1>4, <2>1, <2>2, <2>3, <2>4, <2>5
      DEF IndInv, DriverInv, TypesDriver, Goto
  <1>6. WithinTurns' /\ ModelCallsWithinBudget'
    BY <1>2, <1>3
    DEF IndInv, DriverInv, WithinTurns, TurnLocations, ModelCallsWithinBudget, budgetVars,
        HookStopsTurn, RetryTurn, AcceptTurn, Goto
  <1>7. CallLeft' /\ ErrorInHand'
    BY <1>3, <1>4 DEF CallLeft, ErrorInHand, Goto
  <1>8. QED
    BY <1>1, <1>3, <1>5, <1>6, <1>7, GotoKeeps DEF DriverInv

(* The end of a text turn, and the flush of a turn that was held back. *)
LEMMA TextKeeps == ASSUME IndInv, FlushDone \/ FinishText PROVE IndInv'
  <1>1. CASE FlushDone
    <2>1. PICK to \in {"textEnd", "tools"} : Step("flush", to)
      BY <1>1 DEF FlushDone
    <2>2. pend = NoEvent
      BY <1>1, <2>1
      DEF FlushDone, Step, Goto, IndInv, WaitingMeansNoFailure, AtEmission
    <2>3. QED
      BY <2>1, <2>2, StepKeeps, EmitPointsAre
      DEF Locations, TurnLocations, CallLocations, ErrorLocations
  <1>2. CASE FinishText
    <2>1. pend = NoEvent
      BY <1>2, NothingWaiting, QuietLocations DEF FinishText, Step, FailWith, Goto
    <2>2. CASE Step("text", "done") \/ Step("text", "textOutput")
      BY <2>1, <2>2, StepKeeps, EmitPointsAre
      DEF Locations, TurnLocations, CallLocations, ErrorLocations
    <2>3. CASE FailWith("text", "stopAfterError", "failure")
      BY <2>1, <2>3, FailWithKeeps, EmitPointsAre
      DEF Locations, TurnLocations, CallLocations, ErrorLocations, Causes
    <2>4. QED
      BY <1>2, <2>2, <2>3 DEF FinishText
  <1>3. QED
    BY <1>1, <1>2

(* Tool calls. *)
LEMMA ToolsKeep ==
    ASSUME IndInv,
           NextToolCall \/ DispatchTool \/ ResolveApproval \/ ToolOutputFails \/ ToolsDone
    PROVE  IndInv'
  <1>1. pend = NoEvent
    BY NothingWaiting, QuietLocations
    DEF NextToolCall, DispatchTool, ResolveApproval, ToolOutputFails, ToolsDone,
        CallFails, Step, FailWith, Goto
  <1>2. CASE NextToolCall
    <2>1. CASE Step("tools", "toolInvalid") \/ Step("tools", "toolReady")
      BY <1>1, <1>2, <2>1, StepKeeps, EmitPointsAre
      DEF NextToolCall, Locations, TurnLocations, CallLocations, ErrorLocations
    <2>2. CASE CallFails("tools", "tools", "failed", TRUE)
      BY <1>1, <1>2, <2>2, CallFailsKeeps DEF NextToolCall, TurnLocations
    <2>3. QED
      BY <1>2, <2>1, <2>2 DEF NextToolCall
  <1>3. CASE DispatchTool
    <2>1. CASE \E to \in {"clientRequest", "approvalRequest", "toolResult", "toolFailed"} :
                 Step("tool", to)
      BY <1>1, <2>1, StepKeeps, EmitPointsAre
      DEF Locations, TurnLocations, CallLocations, ErrorLocations
    <2>2. CASE CallFails("suspend", "tools", "suspended", FALSE)
               \/ CallFails("toolFailed", "tools", "failed", FALSE)
      BY <1>1, <2>2, CallFailsKeeps DEF TurnLocations, CallLocations
    <2>3. QED
      BY <1>3, <2>1, <2>2 DEF DispatchTool
  <1>4. CASE ResolveApproval
    <2>1. PICK to \in {"suspend", "toolDenied", "toolResult", "toolFailed"} :
            Step("approval", to)
      BY <1>4 DEF ResolveApproval
    <2>2. QED
      BY <1>1, <2>1, StepKeeps, EmitPointsAre
      DEF Locations, TurnLocations, CallLocations, ErrorLocations
  <1>5. CASE ToolOutputFails
    <2>1. ASSUME NEW from \in {"tool", "approval"},
                 CallFails(from, "tools", "failed", TRUE)
          PROVE  IndInv'
      BY <1>1, <2>1, CallFailsKeeps DEF TurnLocations, CallLocations
    <2>2. ASSUME NEW from \in {"tool", "approval"}, Goto(from, "toolResult"),
                 control' = PreferControlErr(control, "failed"),
                 UNCHANGED <<buffering, buffer, chunks, calls, budgetVars, errorVars>>
          PROVE  IndInv'
      <3>1. from \in TurnLocations \cap CallLocations /\ pc = from
        BY <2>2 DEF TurnLocations, CallLocations, Goto
      <3>2. "toolResult" \in Locations \ ErrorLocations
        BY EmitPointsAre DEF Locations, ErrorLocations
      <3>3. control' \in {"none", "suspended", "failed"}
        BY <2>2 DEF PreferControlErr, IndInv, DriverInv, TypesDriver
      <3>4. DriverInv'
        BY <2>2, <3>1, <3>2, <3>3
        DEF IndInv, DriverInv, Goto, budgetVars, errorVars, TypesDriver, WithinTurns,
            CallLeft, ErrorInHand, ModelCallsWithinBudget
      <3>5. QED
        BY <1>1, <2>2, <3>4, GotoKeeps
    <2>3. QED
      BY <1>5, <2>1, <2>2 DEF ToolOutputFails
  <1>6. CASE ToolsDone
    <2>1. CASE Step("tools", "toolEnd") \/ Step("tools", "suspendEnd")
      BY <1>1, <2>1, StepKeeps, EmitPointsAre
      DEF Locations, TurnLocations, CallLocations, ErrorLocations
    <2>2. CASE FailWith("tools", "stopAfterError", "failure")
      BY <1>1, <2>2, FailWithKeeps, EmitPointsAre
      DEF Locations, TurnLocations, CallLocations, ErrorLocations, Causes
    <2>3. QED
      BY <1>6, <2>1, <2>2 DEF ToolsDone
  <1>7. QED
    BY <1>2, <1>3, <1>4, <1>5, <1>6

(* After the tools: stop, or one more turn. *)
LEMMA StopWhenKeeps == ASSUME IndInv, StopWhenHolds \/ Continue PROVE IndInv'
  <1>1. pc = "stopWhen" /\ pend = NoEvent
    BY NothingWaiting, QuietLocations DEF StopWhenHolds, Continue, Step, Goto
  <1>2. CASE StopWhenHolds
    BY <1>1, <1>2, StepKeeps
    DEF StopWhenHolds, Locations, TurnLocations, CallLocations, ErrorLocations
  <1>3. CASE Continue
    <2>1. step < MaxTurns /\ step \in 0..MaxTurns
      BY <1>1 DEF IndInv, DriverInv, TypesDriver, WithinTurns, TurnLocations
    <2>2. step' \in 0..MaxTurns
      BY <1>3, <2>1, AgentRunAssumption DEF Continue
    <2>3. "turn" \in Locations \ (TurnLocations \cup CallLocations \cup ErrorLocations)
      BY DEF Locations, TurnLocations, CallLocations, ErrorLocations
    <2>4. DriverInv'
      BY <1>3, <2>2, <2>3
      DEF IndInv, DriverInv, Continue, Goto, turnVars, errorVars, TypesDriver,
          WithinTurns, CallLeft, ErrorInHand, ModelCallsWithinBudget
    <2>5. QED
      BY <1>1, <1>3, <2>4, GotoKeeps DEF Continue
  <1>4. QED
    BY <1>2, <1>3

(* The end of the driver. *)
LEMMA EndKeeps ==
    ASSUME IndInv, Stop \/ Panic \/ TerminalErrorBlocked \/ CloseChannel
    PROVE  IndInv'
  <1>1. pend = NoEvent
    BY NothingWaiting, QuietLocations
    DEF Stop, Panic, TerminalErrorBlocked, CloseChannel, Step, FailWith, Goto
  <1>2. CASE Stop
    <2>1. StopError \in Causes \cup {"none"}
      BY DEF StopError, Causes
    <2>2. QED
      BY <1>1, <1>2, <2>1, FailWithKeeps
      DEF Stop, Locations, TurnLocations, CallLocations, ErrorLocations
  <1>3. CASE Panic
    BY <1>1, <1>3, FailWithKeeps
    DEF Panic, Locations, TurnLocations, CallLocations, ErrorLocations, Causes
  <1>4. CASE TerminalErrorBlocked \/ CloseChannel
    BY <1>1, <1>4, StepKeeps
    DEF TerminalErrorBlocked, CloseChannel, Locations, TurnLocations, CallLocations,
        ErrorLocations
  <1>5. QED
    BY <1>2, <1>3, <1>4

-----------------------------------------------------------------------------
(* Emissions. *)

LEMMA EventAtIsCaused ==
    ASSUME IndInv, pc \in EmitPoints, pc = "flush" => buffer # <<>>
    PROVE  EventAt(pc) \in Caused
  <1>1. CASE pc = "flush"
    <2>1. Head(buffer) \in Caused
      BY <1>1 DEF IndInv, DriverInv, TypesDriver
    <2>2. QED
      BY <1>1, <2>1 DEF EventAt
  <1>2. CASE pc # "flush"
    <2>1. /\ Emits[pc] \in EventTypes
          /\ Emits[pc] = "Error" => err # "none"
      BY <1>2, Tables DEF IndInv, DriverInv, ErrorInHand
    <2>2. step \in 0..MaxTurns /\ err \in Causes \cup {"none"}
      BY DEF IndInv, DriverInv, TypesDriver
    <2>3. EventAt(pc) = [type |-> Emits[pc], step |-> step,
                         cause |-> IF Emits[pc] = "Error" THEN err ELSE "none"]
      BY <1>2 DEF EventAt
    <2>4. QED
      BY <2>1, <2>2, <2>3 DEF Caused, Events
  <1>3. QED
    BY <1>1, <1>2

LEMMA EnterSelectKeeps == ASSUME IndInv, EnterSelect PROVE IndInv'
  <1>1. pc \in EmitPoints /\ (pc = "flush" => buffer # <<>>) /\ ~hookErr
    BY DEF EnterSelect, AtEmission
  <1>2. pend' \in Caused
    BY <1>1, EventAtIsCaused DEF EnterSelect
  <1>3. UNCHANGED <<pc, ch, lost, turnVars, budgetVars, errorVars, modelTurnHooks,
                    cancelled, consumerVars>>
    BY DEF EnterSelect
  <1>4. TypesChannel' /\ WaitingMeansNoFailure'
    <2>1. AtEmission'
      BY <1>3 DEF EnterSelect, AtEmission, Buffered, turnVars
    <2>2. QED
      BY <1>1, <1>2, <1>3, <2>1
      DEF IndInv, TypesChannel, WaitingMeansNoFailure, errorVars
  <1>5. DriverInv'
    BY <1>3
    DEF IndInv, DriverInv, TypesDriver, WithinTurns, CallLeft, ErrorInHand,
        ModelCallsWithinBudget, turnVars, budgetVars, errorVars
  <1>6. TypesConsumer' /\ OutcomeMatchesError'
    BY <1>3 DEF IndInv, TypesConsumer, OutcomeMatchesError, consumerVars
  <1>7. QED
    BY <1>4, <1>5, <1>6 DEF IndInv

(* The driver moves along one of the tables. *)
LEMMA EmissionOver ==
    ASSUME IndInv, pc \in EmitPoints, Leads(pc, pc'),
           buffer' \in Seq(Caused), calls' \in Nat, hookErr' \in BOOLEAN,
           pc' \in CallLocations => calls' = calls,
           UNCHANGED <<buffering, chunks, control, budgetVars, err, modelTurnHooks>>
    PROVE  DriverInv'
  <1>1. TypesDriver'
    BY DEF IndInv, DriverInv, TypesDriver, Leads, budgetVars
  <1>2. WithinTurns' /\ ModelCallsWithinBudget'
    BY DEF IndInv, DriverInv, WithinTurns, Leads, ModelCallsWithinBudget, budgetVars
  <1>3. CallLeft' /\ ErrorInHand'
    BY DEF IndInv, DriverInv, CallLeft, ErrorInHand, Leads
  <1>4. QED
    BY <1>1, <1>2, <1>3 DEF DriverInv

LEMMA SendKeeps == ASSUME IndInv, Send PROVE IndInv'
  <1>1. /\ pend \in Caused /\ pc \in EmitPoints
        /\ (pc = "flush" => buffer # <<>>)
    BY DEF Send, IndInv, WaitingMeansNoFailure, AtEmission, TypesChannel
  <1>2. Leads(pc, pc')
    BY <1>1, Tables DEF Send
  <1>3. buffer' \in Seq(Caused)
    <2>1. buffer \in Seq(Caused)
      BY DEF IndInv, DriverInv, TypesDriver
    <2>2. QED
      BY <1>1, <2>1 DEF Send
  <1>4. calls' \in Nat
    BY DEF Send, IndInv, DriverInv, TypesDriver, CallLeft, CallLocations
  <1>5. pc' \in CallLocations => calls' = calls
    BY DEF Send, After, CallLocations
  <1>6. UNCHANGED <<buffering, chunks, control, budgetVars, err, hookErr, modelTurnHooks>>
    BY DEF Send, errorVars
  <1>7. DriverInv'
    <2>1. hookErr' \in BOOLEAN
      BY <1>6 DEF IndInv, DriverInv, TypesDriver
    <2>2. QED
      BY <1>1, <1>2, <1>3, <1>4, <1>5, <1>6, <2>1, EmissionOver
  <1>8. TypesChannel'
    <2>1. ch' \in Seq(Caused) /\ Len(ch') = Len(ch) + 1
      BY <1>1 DEF Send, IndInv, TypesChannel
    <2>2. Len(ch) < Capacity /\ Len(ch) \in Nat
      BY DEF Send, IndInv, TypesChannel
    <2>3. Len(ch') <= Capacity
      BY <2>1, <2>2, AgentRunAssumption
    <2>4. QED
      BY <2>1, <2>3 DEF Send, IndInv, TypesChannel
  <1>9. WaitingMeansNoFailure' /\ TypesConsumer' /\ OutcomeMatchesError'
    BY DEF Send, IndInv, WaitingMeansNoFailure, TypesConsumer, OutcomeMatchesError,
           consumerVars
  <1>10. QED
    BY <1>7, <1>8, <1>9 DEF IndInv

LEMMA RefuseKeeps ==
    ASSUME IndInv, NEW hookFails \in BOOLEAN, Refuse(hookFails)
    PROVE  IndInv'
  <1>1. pc \in EmitPoints
    BY DEF Refuse, AtEmission
  <1>2. Leads(pc, pc')
    BY <1>1, Tables DEF Refuse
  <1>3. buffer' \in Seq(Caused)
    <2>1. <<>> \in Seq(Caused) /\ buffer \in Seq(Caused)
      BY DEF IndInv, DriverInv, TypesDriver
    <2>2. QED
      BY <2>1 DEF Refuse
  <1>4. hookErr' \in BOOLEAN
    BY DEF Refuse, IndInv, DriverInv, TypesDriver
  <1>5. DriverInv'
    <2>1. calls' = calls /\ calls \in Nat
      BY DEF Refuse, IndInv, DriverInv, TypesDriver
    <2>2. UNCHANGED <<buffering, chunks, control, budgetVars, err, modelTurnHooks>>
      BY DEF Refuse
    <2>3. QED
      BY <1>1, <1>2, <1>3, <1>4, <2>1, <2>2, EmissionOver
  <1>6. TypesChannel' /\ WaitingMeansNoFailure'
    BY DEF Refuse, IndInv, TypesChannel, WaitingMeansNoFailure
  <1>7. TypesConsumer' /\ OutcomeMatchesError'
    BY DEF Refuse, IndInv, TypesConsumer, OutcomeMatchesError, consumerVars
  <1>8. QED
    BY <1>5, <1>6, <1>7 DEF IndInv

LEMMA BufferChunkKeeps == ASSUME IndInv, BufferChunk PROVE IndInv'
  <1>1. pc \in {"stepStart", "delta"}
    BY DEF BufferChunk, Buffered
  <1>2. pc \in EmitPoints /\ pc' = After[pc] /\ pc # "flush"
    BY <1>1, EmitPointsAre DEF BufferChunk
  <1>3. EventAt(pc) \in Caused
    BY <1>2, EventAtIsCaused
  <1>4. buffer' \in Seq(Caused)
    BY <1>3 DEF BufferChunk, IndInv, DriverInv, TypesDriver
  <1>5. DriverInv'
    <2>1. calls' = calls /\ calls \in Nat /\ hookErr' \in BOOLEAN
      BY DEF BufferChunk, IndInv, DriverInv, TypesDriver, errorVars
    <2>2. UNCHANGED <<buffering, chunks, control, budgetVars, err, modelTurnHooks>>
      BY DEF BufferChunk, errorVars
    <2>3. Leads(pc, pc')
      BY <1>2, Tables
    <2>4. QED
      BY <1>2, <1>4, <2>1, <2>2, <2>3, EmissionOver
  <1>6. WaitingMeansNoFailure'
    BY DEF BufferChunk, channelVars, IndInv, WaitingMeansNoFailure, AtEmission
  <1>7. TypesChannel' /\ TypesConsumer' /\ OutcomeMatchesError'
    BY DEF BufferChunk, channelVars, IndInv, TypesChannel, TypesConsumer,
           OutcomeMatchesError, consumerVars
  <1>8. QED
    BY <1>5, <1>6, <1>7 DEF IndInv

-----------------------------------------------------------------------------
(* The terminal error, the consumer, and the caller's cancellation. *)

LEMMA TerminalErrorKeeps ==
    ASSUME IndInv, SendTerminalError \/ DiscardOldest
    PROVE  IndInv'
  <1>1. pend = NoEvent /\ pc \in {"fail", "discard"}
    BY NothingWaiting, QuietLocations DEF SendTerminalError, DiscardOldest
  <1>2. err # "none" /\ err \in Causes \cup {"none"} /\ step \in 0..MaxTurns
    BY <1>1 DEF IndInv, DriverInv, TypesDriver, ErrorInHand, ErrorLocations
  <1>3. ch \in Seq(Caused) /\ Len(ch) \in Nat /\ Len(ch) <= Capacity /\ lost \in Seq(Events)
    BY DEF IndInv, TypesChannel
  <1>4. pc' \in {"return", "fail"} /\ pend' = NoEvent
    BY <1>1 DEF SendTerminalError, DiscardOldest
  <1>5. UNCHANGED <<turnVars, budgetVars, errorVars, modelTurnHooks, cancelled, consumerVars>>
    BY DEF SendTerminalError, DiscardOldest
  <1>6. TypesChannel'
    <2>1. CASE SendTerminalError
      <3>1. [type |-> "Error", step |-> step, cause |-> err] \in Caused
        BY <1>2 DEF Caused, Events, EventTypes
      <3>2. ch' \in Seq(Caused) /\ Len(ch') = Len(ch) + 1 /\ Len(ch) < Capacity
        BY <1>3, <2>1, <3>1 DEF SendTerminalError
      <3>3. Len(ch') <= Capacity
        BY <1>3, <3>2, AgentRunAssumption
      <3>4. QED
        BY <1>3, <1>4, <2>1, <3>2, <3>3 DEF SendTerminalError, TypesChannel
    <2>2. CASE DiscardOldest
      <3>1. CASE ch = <<>>
        BY <1>3, <1>4, <2>2, <3>1 DEF DiscardOldest, TypesChannel
      <3>2. CASE ch # <<>>
        <4>1. /\ Tail(ch) \in Seq(Caused) /\ Len(Tail(ch)) = Len(ch) - 1
              /\ Head(ch) \in Caused
          BY <1>3, <3>2
        <4>2. Len(Tail(ch)) <= Capacity
          BY <1>3, <4>1, AgentRunAssumption
        <4>3. Append(lost, Head(ch)) \in Seq(Events)
          BY <1>3, <4>1 DEF Caused
        <4>4. QED
          BY <1>4, <2>2, <3>2, <4>1, <4>2, <4>3 DEF DiscardOldest, TypesChannel
      <3>3. QED
        BY <3>1, <3>2
    <2>3. QED
      BY <2>1, <2>2
  <1>7. DriverInv'
    <2>1. pc' \in Locations \ (TurnLocations \cup CallLocations)
      BY <1>4 DEF Locations, TurnLocations, CallLocations
    <2>2. QED
      BY <1>2, <1>5, <2>1
      DEF IndInv, DriverInv, TypesDriver, WithinTurns, CallLeft, ErrorInHand,
          ModelCallsWithinBudget, turnVars, budgetVars, errorVars
  <1>8. WaitingMeansNoFailure' /\ TypesConsumer' /\ OutcomeMatchesError'
    BY <1>4, <1>5
    DEF IndInv, WaitingMeansNoFailure, TypesConsumer, OutcomeMatchesError, consumerVars
  <1>9. QED
    BY <1>6, <1>7, <1>8 DEF IndInv

(* What the driver knows does not depend on the consumer. *)
LEMMA DriverUntouched ==
    ASSUME IndInv, UNCHANGED driverVars
    PROVE  DriverInv' /\ WaitingMeansNoFailure'
  BY DEF IndInv, driverVars, DriverInv, TypesDriver, WithinTurns, CallLeft, ErrorInHand,
         ModelCallsWithinBudget, WaitingMeansNoFailure, AtEmission, Buffered,
         turnVars, budgetVars, errorVars

LEMMA TailOfChannel ==
    ASSUME IndInv, UNCHANGED driverVars, ch # <<>>, ch' = Tail(ch)
    PROVE  TypesChannel' /\ Head(ch) \in Caused
  <1>1. ch \in Seq(Caused) /\ Len(ch) \in Nat /\ Len(ch) <= Capacity
    BY DEF IndInv, TypesChannel
  <1>2. Tail(ch) \in Seq(Caused) /\ Len(Tail(ch)) = Len(ch) - 1 /\ Head(ch) \in Caused
    BY <1>1
  <1>3. Len(Tail(ch)) <= Capacity
    BY <1>1, <1>2, AgentRunAssumption
  <1>4. QED
    BY <1>2, <1>3 DEF IndInv, TypesChannel, driverVars

LEMMA TakeEventKeeps ==
    ASSUME IndInv, Receive \/ ReceiveError \/ Break \/ BodyPanics
    PROVE  IndInv'
  <1>1. /\ cons = "ranging" /\ ch # <<>> /\ ch' = Tail(ch) /\ UNCHANGED driverVars
        /\ delivered' = Append(delivered, Head(ch))
    BY DEF Receive, ReceiveError, Break, BodyPanics, TakeEvent
  <1>2. DriverInv' /\ WaitingMeansNoFailure' /\ TypesChannel' /\ Head(ch) \in Caused
    BY <1>1, DriverUntouched, TailOfChannel
  <1>3. Head(ch).cause \in Causes \cup {"none"}
        /\ (Head(ch).type = "Error" => Head(ch).cause # "none")
    BY <1>2 DEF Caused, Events
  <1>4. delivered' \in Seq(Events)
    BY <1>1, <1>2 DEF IndInv, TypesConsumer, Caused
  <1>5. runErr' \in Causes \cup {"none"}
    BY <1>3 DEF Receive, ReceiveError, Break, BodyPanics, IndInv, TypesConsumer, Causes
  <1>6. TypesConsumer'
    BY <1>4, <1>5 DEF Receive, ReceiveError, Break, BodyPanics, IndInv, TypesConsumer
  <1>7. state = "NotDrained"
    BY <1>1 DEF IndInv, OutcomeMatchesError
  <1>8. OutcomeMatchesError'
    BY <1>1, <1>3, <1>7
    DEF Receive, ReceiveError, Break, BodyPanics, IndInv, OutcomeMatchesError
  <1>9. QED
    BY <1>2, <1>6, <1>8 DEF IndInv

LEMMA DrainKeeps == ASSUME IndInv, Drain PROVE IndInv'
  <1>1. ch # <<>> /\ ch' = Tail(ch) /\ UNCHANGED <<driverVars, cancelled, consumerVars>>
    BY DEF Drain
  <1>2. DriverInv' /\ WaitingMeansNoFailure' /\ TypesChannel'
    BY <1>1, DriverUntouched, TailOfChannel
  <1>3. TypesConsumer' /\ OutcomeMatchesError'
    BY <1>1 DEF IndInv, TypesConsumer, OutcomeMatchesError, consumerVars
  <1>4. QED
    BY <1>2, <1>3 DEF IndInv

LEMMA FinishRangeKeeps == ASSUME IndInv, FinishRange PROVE IndInv'
  <1>1. DriverInv' /\ WaitingMeansNoFailure'
    BY DriverUntouched DEF FinishRange
  <1>2. TypesChannel' /\ TypesConsumer' /\ OutcomeMatchesError'
    BY DEF FinishRange, driverVars, IndInv, TypesChannel, TypesConsumer,
           OutcomeMatchesError
  <1>3. QED
    BY <1>1, <1>2 DEF IndInv

(* The context of the run ends, or nothing changes. *)
LEMMA CancelKeeps ==
    ASSUME IndInv, UNCHANGED <<driverVars, ch, consumerVars>>, cancelled' \in BOOLEAN
    PROVE  IndInv'
  <1>1. DriverInv' /\ WaitingMeansNoFailure'
    BY DriverUntouched
  <1>2. TypesChannel' /\ TypesConsumer' /\ OutcomeMatchesError'
    BY DEF driverVars, consumerVars, IndInv, TypesChannel, TypesConsumer,
           OutcomeMatchesError
  <1>3. QED
    BY <1>1, <1>2 DEF IndInv

-----------------------------------------------------------------------------
(* The theorems. *)

LEMMA InitHolds == Init => IndInv
  <1> SUFFICES ASSUME Init PROVE IndInv
    OBVIOUS
  <1>1. <<>> \in Seq(Caused) /\ <<>> \in Seq(Events) /\ Len(<<>>) = 0
    OBVIOUS
  <1>2. TypesDriver
    <2>1. pc \in Locations
      BY DEF Init, Locations
    <2>2. step \in 0..MaxTurns /\ modelCalls \in Nat /\ streams \in Nat
      BY AgentRunAssumption DEF Init
    <2>3. chunks \in 0..MaxChunks /\ calls \in Nat
      BY AgentRunAssumption DEF Init
    <2>4. modelTurnHooks \in BOOLEAN /\ buffering \in BOOLEAN /\ hookErr \in BOOLEAN
      BY DEF Init
    <2>5. buffer \in Seq(Caused)
      BY <1>1 DEF Init
    <2>6. /\ control \in {"none", "suspended", "failed"}
          /\ err \in Causes \cup {"none"}
          /\ rejected \subseteq 0..MaxTurns
      BY DEF Init
    <2>7. QED
      BY <2>1, <2>2, <2>3, <2>4, <2>5, <2>6 DEF TypesDriver
  <1>3. WithinTurns /\ CallLeft /\ ErrorInHand /\ ModelCallsWithinBudget
    BY AgentRunAssumption
    DEF Init, WithinTurns, CallLeft, ErrorInHand, ModelCallsWithinBudget, TurnLocations,
        CallLocations, ErrorLocations
  <1>4. TypesChannel /\ WaitingMeansNoFailure /\ TypesConsumer
    <2>1. pend = NoEvent /\ ch = <<>> /\ lost = <<>> /\ delivered = <<>>
      BY DEF Init
    <2>2. TypesChannel
      BY <1>1, <2>1, AgentRunAssumption DEF TypesChannel
    <2>3. WaitingMeansNoFailure
      BY <2>1 DEF WaitingMeansNoFailure
    <2>4. cancelled \in BOOLEAN
      BY DEF Init
    <2>5. /\ cons \in {"ranging", "draining", "finished"}
          /\ runErr \in Causes \cup {"none"}
          /\ state \in {"NotDrained", "Completed", "Aborted"}
      BY DEF Init
    <2>6. QED
      BY <1>1, <2>1, <2>2, <2>3, <2>4, <2>5 DEF TypesConsumer
  <1>5. OutcomeMatchesError
    BY DEF Init, OutcomeMatchesError
  <1>6. QED
    BY <1>2, <1>3, <1>4, <1>5 DEF IndInv, DriverInv

LEMMA NextKeeps == ASSUME IndInv, [Next]_vars PROVE IndInv'
  <1>1. CASE DriverNext
    BY <1>1, EnterSelectKeeps, SendKeeps, BufferChunkKeeps, RefuseKeeps, ResumeKeeps,
       TurnKeeps, PrepareKeeps, CallModelKeeps, ConsumeKeeps, AcceptKeeps, TextKeeps,
       ToolsKeep, StopWhenKeeps, OutputKeeps, CallForOutputKeeps, EndKeeps,
       TerminalErrorKeeps
    DEF DriverNext
  <1>2. CASE ConsumerNext
    BY <1>2, TakeEventKeeps, DrainKeeps, FinishRangeKeeps DEF ConsumerNext
  <1>3. CASE Cancel
    BY <1>3, CancelKeeps DEF Cancel
  <1>4. CASE UNCHANGED vars
    <2>1. cancelled' \in BOOLEAN
      BY <1>4 DEF vars, IndInv, TypesConsumer
    <2>2. UNCHANGED <<driverVars, ch, consumerVars>>
      BY <1>4 DEF vars, driverVars, channelVars
    <2>3. QED
      BY <2>1, <2>2, CancelKeeps
  <1>5. QED
    BY <1>1, <1>2, <1>3, <1>4 DEF Next, Terminated

(* IndInv holds in every reachable state. *)
THEOREM Invariance == Spec => []IndInv
  <1>1. IndInv /\ [Next]_vars => IndInv'
    BY NextKeeps
  <1>2. QED
    BY InitHolds, <1>1, PTL DEF Spec

(* Every variable of the driver, the channel and the consumer stays in its  *)
(* type: the channel within its capacity, the step within the turn budget.  *)
THEOREM TypeCorrect == Spec => []TypeInvariant
  <1>1. IndInv => TypeInvariant
    <2> SUFFICES ASSUME IndInv PROVE TypeInvariant
      OBVIOUS
    <2>1. ch \in Seq(Events) /\ buffer \in Seq(Events) /\ pend \in Events \cup {NoEvent}
      BY DEF IndInv, TypesChannel, DriverInv, TypesDriver, Caused
    <2>2. QED
      BY <2>1
      DEF IndInv, DriverInv, TypesDriver, TypesChannel, TypesConsumer, TypeInvariant
  <1>2. QED
    BY <1>1, Invariance, PTL

(* MaxTurns is the hard total of provider calls of a run, whatever mix of   *)
(* continuations, retried turns and structured output it makes.             *)
THEOREM BudgetHolds == Spec => []ModelCallsWithinBudget
  <1>1. IndInv => ModelCallsWithinBudget
    BY DEF IndInv, DriverInv
  <1>2. QED
    BY <1>1, Invariance, PTL

(* StepStream reports StreamCompleted exactly for runs that end without an  *)
(* error, also when the range body breaks or panics.                        *)
THEOREM OutcomeIsHonest == Spec => []OutcomeMatchesError
  <1>1. IndInv => OutcomeMatchesError
    BY DEF IndInv
  <1>2. QED
    BY <1>1, Invariance, PTL

-----------------------------------------------------------------------------
(* What a hook failure fences off. *)

(* Where the driver can be once a stream-event or delta hook has failed.    *)
FencedLocations ==
    {"resumeResult", "resumeCancelled", "turn", "stepStart", "prepare", "runError",
     "toolResult", "toolFailed", "tools", "toolInvalid", "toolReady", "toolEnd",
     "suspendEnd", "suspendDone", "stopAfterError", "panic", "stop", "fail",
     "discard", "return", "exited"}

Fence == hookErr => pc \in FencedLocations

(* One step of the driver: it stays behind the fence, calls no provider and *)
(* sends nothing but an Error.                                              *)
Confined ==
    /\ pc' \in FencedLocations
    /\ streams' = streams
    /\ \/ ch' = ch
       \/ ch # <<>> /\ ch' = Tail(ch)
       \/ \E e \in Events : e.type = "Error" /\ ch' = Append(ch, e)

LEMMA DriverConfined ==
    ASSUME IndInv, Fence, hookErr, DriverNext
    PROVE  Confined
  <1>1. pend = NoEvent /\ pc \in FencedLocations
    BY DEF IndInv, WaitingMeansNoFailure, Fence
  <1>2. ~EnterSelect /\ ~Send /\ \A ok \in BOOLEAN : ~CallModel(ok)
    BY <1>1 DEF EnterSelect, Send, CallModel
  <1>3. ASSUME NEW hookFails \in BOOLEAN, Refuse(hookFails) PROVE Confined
    <2>1. pc \in EmitPoints /\ pc' = Refused(pc) /\ ch' = ch /\ streams' = streams
      BY <1>3 DEF Refuse, AtEmission, budgetVars
    <2>2. pc' \in FencedLocations
      BY <2>1 DEF Refused, After, FencedLocations
    <2>3. QED
      BY <2>1, <2>2 DEF Confined
  <1>4. CASE BufferChunk
    <2>1. pc = "stepStart" /\ pc' = "prepare"
      BY <1>1, <1>4 DEF BufferChunk, Buffered, After, FencedLocations
    <2>2. QED
      BY <1>4, <2>1 DEF BufferChunk, Confined, FencedLocations, channelVars, budgetVars
  <1>5. CASE ResumeApprovals \/ BeginTurn \/ ExhaustTurns \/ HookStopsCall
             \/ CallbackPanics
    BY <1>1, <1>5
    DEF ResumeApprovals, BeginTurn, ExhaustTurns, HookStopsCall,
        CallbackPanics, Step, FailWith, Goto, Confined, FencedLocations, channelVars,
        budgetVars
  <1>6. ~StreamChunk /\ ~StreamEnds /\ ~StreamInterrupted /\ ~HookStopsTurn
        /\ ~RetryTurn /\ ~AcceptTurn /\ ~FlushDone /\ ~FinishText
    BY <1>1
    DEF StreamChunk, StreamEnds, StreamInterrupted, HookStopsTurn, RetryTurn, AcceptTurn,
        FlushDone, FinishText, Step, FailWith, Goto, FencedLocations
  <1>7. CASE NextToolCall \/ DispatchTool \/ ResolveApproval \/ ToolOutputFails \/ ToolsDone
    BY <1>1, <1>7
    DEF NextToolCall, DispatchTool, ResolveApproval, ToolOutputFails, ToolsDone, CallFails,
        Step, FailWith, Goto, Confined, FencedLocations, channelVars, budgetVars
  <1>8. /\ ~StopWhenHolds /\ ~Continue /\ ~NoStructuredOutput /\ ~OutputBudgetSpent
        /\ ~OutputStream /\ \A ok \in BOOLEAN : ~CallForOutput(ok)
    BY <1>1
    DEF StopWhenHolds, Continue, NoStructuredOutput, OutputBudgetSpent, OutputStream,
        CallForOutput, Step, FailWith, Goto, FencedLocations
  <1>9. CASE Stop \/ Panic \/ TerminalErrorBlocked \/ CloseChannel
    BY <1>9
    DEF Stop, Panic, TerminalErrorBlocked, CloseChannel, Step, FailWith, Goto, Confined,
        FencedLocations, channelVars, budgetVars
  <1>10. CASE SendTerminalError
    <2>1. [type |-> "Error", step |-> step, cause |-> err] \in Events
      BY DEF IndInv, DriverInv, TypesDriver, Events, EventTypes
    <2>2. QED
      BY <1>10, <2>1 DEF SendTerminalError, Confined, FencedLocations, budgetVars
  <1>11. CASE DiscardOldest
    BY <1>11 DEF DiscardOldest, Confined, FencedLocations, budgetVars
  <1>12. QED
    BY <1>2, <1>3, <1>4, <1>5, <1>6, <1>7, <1>8, <1>9, <1>10, <1>11 DEF DriverNext

LEMMA AllConfined ==
    ASSUME IndInv, Fence, hookErr, [Next]_vars
    PROVE  Confined
  <1>1. CASE DriverNext
    BY <1>1, DriverConfined
  <1>2. CASE ConsumerNext
    <2>1. pc' = pc /\ streams' = streams
      BY <1>2
      DEF ConsumerNext, Receive, ReceiveError, Break, BodyPanics, TakeEvent, Drain,
          FinishRange, driverVars, budgetVars
    <2>2. ch' = ch \/ (ch # <<>> /\ ch' = Tail(ch))
      BY <1>2
      DEF ConsumerNext, Receive, ReceiveError, Break, BodyPanics, TakeEvent, Drain,
          FinishRange
    <2>3. QED
      BY <2>1, <2>2 DEF Fence, Confined
  <1>3. CASE Cancel \/ Terminated \/ UNCHANGED vars
    BY <1>3
    DEF Fence, Confined, Cancel, Terminated, vars, driverVars, channelVars, budgetVars
  <1>4. QED
    BY <1>1, <1>2, <1>3 DEF Next

(* The driver gets behind the fence with the step in which the hook fails.  *)
LEMMA FenceRises ==
    ASSUME IndInv, ~hookErr, [Next]_vars, hookErr'
    PROVE  pc' \in FencedLocations
  <1>1. CASE \E hookFails \in BOOLEAN : Refuse(hookFails)
    <2>1. pc \in EmitPoints /\ pc' = Refused(pc)
      BY <1>1 DEF Refuse, AtEmission
    <2>2. QED
      BY <2>1 DEF Refused, After, FencedLocations
  <1>2. CASE StreamInterrupted
    BY <1>2 DEF StreamInterrupted, Goto, errorVars, FencedLocations
  <1>3. CASE ~(\E hookFails \in BOOLEAN : Refuse(hookFails)) /\ ~StreamInterrupted
    <2>1. hookErr' = hookErr
      <3>1. CASE DriverNext
        BY <1>3, <3>1
        DEF DriverNext, EnterSelect, Send, BufferChunk, ResumeApprovals, BeginTurn,
            ExhaustTurns, HookStopsCall, CallbackPanics, CallModel,
            StreamChunk, StreamEnds, HookStopsTurn, RetryTurn, AcceptTurn, FlushDone,
            FinishText, NextToolCall, DispatchTool, ResolveApproval, ToolOutputFails,
            ToolsDone, CallFails, StopWhenHolds, Continue, NoStructuredOutput,
            OutputBudgetSpent, OutputStream, CallForOutput, Stop, Panic,
            SendTerminalError, TerminalErrorBlocked, DiscardOldest, CloseChannel, Step,
            FailWith, errorVars
      <3>2. CASE ConsumerNext \/ Cancel \/ Terminated \/ UNCHANGED vars
        BY <3>2
        DEF ConsumerNext, Receive, ReceiveError, Break, BodyPanics, TakeEvent, Drain,
            FinishRange, Cancel, Terminated, vars, driverVars, errorVars
      <3>3. QED
        BY <3>1, <3>2 DEF Next
    <2>2. QED
      BY <2>1
  <1>4. QED
    BY <1>1, <1>2, <1>3

(* After a stream-event or delta hook has failed, no provider call starts   *)
(* and only an Error event still enters the channel.                        *)
THEOREM HookFailureIsFenced == Spec => HookFailureFences
  <1>1. Init => Fence
    BY DEF Init, Fence
  <1>2. IndInv /\ Fence /\ [Next]_vars => Fence'
    <2> SUFFICES ASSUME IndInv, Fence, [Next]_vars, hookErr'
                 PROVE  pc' \in FencedLocations
      BY DEF Fence
    <2>1. hookErr \in BOOLEAN
      BY DEF IndInv, DriverInv, TypesDriver
    <2>2. CASE hookErr
      BY <2>2, AllConfined DEF Confined
    <2>3. CASE ~hookErr
      BY <2>3, FenceRises
    <2>4. QED
      BY <2>1, <2>2, <2>3
  <1>3. Spec => []Fence
    BY <1>1, <1>2, Invariance, PTL DEF Spec
  <1>4. IndInv /\ Fence /\ [Next]_vars =>
          [hookErr => /\ streams' = streams
                      /\ Len(ch') > Len(ch) => ch'[Len(ch')].type = "Error"]_vars
    <2> SUFFICES ASSUME IndInv, Fence, [Next]_vars, hookErr
                 PROVE  /\ streams' = streams
                        /\ Len(ch') > Len(ch) => ch'[Len(ch')].type = "Error"
      OBVIOUS
    <2>1. Confined
      BY AllConfined
    <2>2. ch \in Seq(Events) /\ Len(ch) \in Nat
      BY DEF IndInv, TypesChannel, Caused
    <2>3. ASSUME ch # <<>>, ch' = Tail(ch) PROVE ~(Len(ch') > Len(ch))
      BY <2>2, <2>3
    <2>4. ASSUME NEW e \in Events, e.type = "Error", ch' = Append(ch, e)
          PROVE  ch'[Len(ch')].type = "Error"
      <3>1. Len(ch') = Len(ch) + 1 /\ ch'[Len(ch) + 1] = e
        BY <2>2, <2>4
      <3>2. QED
        BY <2>4, <3>1
    <2>5. ~(Len(ch) > Len(ch))
      BY <2>2
    <2>6. QED
      BY <2>1, <2>3, <2>4, <2>5 DEF Confined
  <1>5. QED
    BY <1>3, <1>4, Invariance, PTL DEF Spec, HookFailureFences

-----------------------------------------------------------------------------
(* What making room for the terminal error costs. *)

(* An event is discarded only once the error is about to be sent, and then  *)
(* there is room for it: nobody but the driver fills the channel.           *)
LossBounded ==
    /\ lost # <<>> => /\ Len(lost) = 1
                      /\ pc \in {"fail", "return", "exited"}
    /\ lost # <<>> /\ pc = "fail" => Len(ch) < Capacity

LEMMA OthersLoseNothing ==
    ASSUME IndInv, LossBounded, [Next]_vars, ~DiscardOldest
    PROVE  /\ lost' = lost
           /\ lost # <<>> => /\ pc' \in {"fail", "return", "exited"}
                             /\ pc' = "fail" => Len(ch') <= Len(ch) /\ pc = "fail"
  <1>1. CASE DriverNext
    <2>1. lost' = lost
      BY <1>1
      DEF DriverNext, EnterSelect, Send, BufferChunk, Refuse, ResumeApprovals, BeginTurn,
          ExhaustTurns, HookStopsCall, CallbackPanics, CallModel,
          StreamChunk, StreamEnds, StreamInterrupted, HookStopsTurn, RetryTurn,
          AcceptTurn, FlushDone, FinishText, NextToolCall, DispatchTool, ResolveApproval,
          ToolOutputFails, ToolsDone, CallFails, StopWhenHolds, Continue,
          NoStructuredOutput, OutputBudgetSpent, OutputStream, CallForOutput, Stop,
          Panic, SendTerminalError, TerminalErrorBlocked, CloseChannel, Step, FailWith,
          Goto, channelVars
    <2>2. ASSUME lost # <<>> PROVE pc' \in {"return", "exited"}
      <3>1. pc \in {"fail", "return", "exited"} /\ (pc = "fail" => Len(ch) < Capacity)
        BY <2>2 DEF LossBounded
      <3>2. pc \notin EmitPoints /\ pend = NoEvent
        BY <3>1, EmitPointsAre, NothingWaiting
      <3>3. Len(ch) \in Nat
        BY DEF IndInv, TypesChannel
      <3>4. ~TerminalErrorBlocked
        BY <3>1, <3>3, AgentRunAssumption DEF TerminalErrorBlocked, Step, Goto
      <3>5. ~EnterSelect /\ ~Send /\ ~BufferChunk
            /\ \A hookFails \in BOOLEAN : ~Refuse(hookFails)
        BY <3>1, <3>2 DEF EnterSelect, Send, BufferChunk, Refuse, AtEmission, Buffered
      <3>6. SendTerminalError \/ CloseChannel
        BY <1>1, <3>1, <3>4, <3>5
        DEF DriverNext, ResumeApprovals, BeginTurn, ExhaustTurns, HookStopsCall,
            CallbackPanics, CallModel, StreamChunk, StreamEnds,
            StreamInterrupted, HookStopsTurn, RetryTurn, AcceptTurn, FlushDone,
            FinishText, NextToolCall, DispatchTool, ResolveApproval, ToolOutputFails,
            ToolsDone, CallFails, StopWhenHolds, Continue, NoStructuredOutput,
            OutputBudgetSpent, OutputStream, CallForOutput, Stop, Panic, Step, FailWith,
            Goto
      <3>7. QED
        BY <3>6 DEF SendTerminalError, CloseChannel, Step, Goto
    <2>3. QED
      BY <2>1, <2>2
  <1>2. CASE ConsumerNext
    <2>1. pc' = pc /\ lost' = lost
      BY <1>2
      DEF ConsumerNext, Receive, ReceiveError, Break, BodyPanics, TakeEvent, Drain,
          FinishRange, driverVars
    <2>2. ch' = ch \/ (ch # <<>> /\ ch' = Tail(ch))
      BY <1>2
      DEF ConsumerNext, Receive, ReceiveError, Break, BodyPanics, TakeEvent, Drain,
          FinishRange
    <2>3. Len(ch') <= Len(ch)
      BY <2>2 DEF IndInv, TypesChannel
    <2>4. QED
      BY <2>1, <2>3 DEF LossBounded
  <1>3. CASE Cancel \/ Terminated \/ UNCHANGED vars
    <2>1. pc' = pc /\ lost' = lost /\ ch' = ch
      BY <1>3 DEF Cancel, Terminated, vars, driverVars, channelVars
    <2>2. Len(ch) \in Nat
      BY DEF IndInv, TypesChannel
    <2>3. QED
      BY <2>1, <2>2 DEF LossBounded
  <1>4. QED
    BY <1>1, <1>2, <1>3 DEF Next

LEMMA DiscardLosesOne ==
    ASSUME IndInv, LossBounded, DiscardOldest
    PROVE  LossBounded'
  <1>1. lost = <<>> /\ pc' = "fail"
    BY DEF DiscardOldest, LossBounded
  <1>2. CASE ch = <<>>
    BY <1>1, <1>2 DEF DiscardOldest, LossBounded
  <1>3. CASE ch # <<>>
    <2>1. ch' = Tail(ch) /\ lost' = Append(<<>>, Head(ch))
      BY <1>1, <1>3 DEF DiscardOldest
    <2>2. Len(ch') = Len(ch) - 1 /\ Len(ch) \in Nat /\ Len(ch) <= Capacity
      BY <1>3, <2>1 DEF IndInv, TypesChannel
    <2>3. Len(ch') < Capacity
      BY <2>2, AgentRunAssumption
    <2>4. Len(lost') = 1
      BY <2>1
    <2>5. QED
      BY <1>1, <2>3, <2>4 DEF LossBounded
  <1>4. QED
    BY <1>2, <1>3

(* emitTerminalError never costs the consumer more than one event, however  *)
(* the driver and a consumer that takes events at any time interleave.      *)
THEOREM OneEventLostAtMost == Spec => []AtMostOneEventLost
  <1>1. Init => LossBounded
    BY DEF Init, LossBounded
  <1>2. IndInv /\ LossBounded /\ [Next]_vars => LossBounded'
    <2> SUFFICES ASSUME IndInv, LossBounded, [Next]_vars PROVE LossBounded'
      OBVIOUS
    <2>1. CASE DiscardOldest
      BY <2>1, DiscardLosesOne
    <2>2. CASE ~DiscardOldest
      <3>1. Len(ch) \in Nat /\ Len(ch') \in Nat
        BY NextKeeps DEF IndInv, TypesChannel
      <3>2. lost' = lost
        BY <2>2, OthersLoseNothing
      <3>3. ASSUME lost # <<>>
            PROVE  /\ Len(lost) = 1
                   /\ pc' \in {"fail", "return", "exited"}
                   /\ pc' = "fail" => Len(ch') < Capacity
        <4>1. /\ pc' \in {"fail", "return", "exited"}
              /\ pc' = "fail" => Len(ch') <= Len(ch) /\ pc = "fail"
          BY <2>2, <3>3, OthersLoseNothing
        <4>2. Len(lost) = 1 /\ (pc = "fail" => Len(ch) < Capacity)
          BY <3>3 DEF LossBounded
        <4>3. QED
          BY <3>1, <4>1, <4>2, AgentRunAssumption
      <3>4. QED
        BY <3>2, <3>3 DEF LossBounded
    <2>3. QED
      BY <2>1, <2>2
  <1>3. LossBounded => AtMostOneEventLost
    <2>1. ASSUME LossBounded, lost = <<>> PROVE AtMostOneEventLost
      BY <2>1 DEF AtMostOneEventLost
    <2>2. ASSUME LossBounded, lost # <<>> PROVE AtMostOneEventLost
      <3>1. Len(lost) = 1
        BY <2>2 DEF LossBounded
      <3>2. QED
        BY <3>1 DEF AtMostOneEventLost
    <2>3. QED
      BY <2>1, <2>2
  <1>4. QED
    BY <1>1, <1>2, <1>3, Invariance, PTL DEF Spec
-----------------------------------------------------------------------------
(* The turn counter and the budget. *)

(* Up to the provider call of a turn, and from there to the next turn. *)
BeforeCall ==
    {"resume", "resumeReady", "resumeDenied", "resumeResult", "turn", "stepStart",
     "prepare"}

AfterCall ==
    {"consume", "delta", "accept", "flush", "tools", "tool", "toolInvalid", "toolReady",
     "clientRequest", "suspend", "approvalRequest", "approval", "toolDenied",
     "toolFailed", "toolResult", "toolEnd", "stopWhen"}

(* Every finished turn has counted at least as much as it has called. *)
TurnsPaid ==
    /\ pc \in BeforeCall => modelCalls <= step
    /\ pc \in AfterCall => modelCalls <= step + 1

StaysInPart(from, to) ==
    /\ to \in BeforeCall => from \in BeforeCall
    /\ to \in AfterCall => from \in AfterCall

(* An emission stays in its part of the turn, sent or refused. *)
LEMMA EmissionsStay ==
    ASSUME NEW loc \in EmitPoints
    PROVE  StaysInPart(loc, After[loc]) /\ StaysInPart(loc, Refused(loc))
  BY EmitPointsAre DEF After, Refused, StaysInPart, BeforeCall, AfterCall

(* All steps but four leave the counters and stay in their part of the turn. *)
LEMMA CountersKept ==
    ASSUME IndInv, [Next]_vars, ~RetryTurn, ~Continue,
           \A ok \in BOOLEAN : ~CallModel(ok) /\ ~CallForOutput(ok)
    PROVE  step' = step /\ modelCalls' = modelCalls /\ StaysInPart(pc, pc')
  <1>1. CASE EnterSelect \/ Send \/ BufferChunk \/ (\E hookFails \in BOOLEAN : Refuse(hookFails))
    <2>1. step' = step /\ modelCalls' = modelCalls
      BY <1>1 DEF EnterSelect, Send, BufferChunk, Refuse, budgetVars
    <2>2. pc \in EmitPoints
      <3>1. pend # NoEvent => pc \in EmitPoints
        BY DEF IndInv, WaitingMeansNoFailure, AtEmission
      <3>2. Buffered(pc) => pc \in EmitPoints
        BY EmitPointsAre DEF Buffered
      <3>3. QED
        BY <1>1, <3>1, <3>2 DEF EnterSelect, Send, BufferChunk, Refuse, AtEmission
    <2>3. pc' \in {pc, After[pc], Refused(pc)}
      BY <1>1 DEF EnterSelect, Send, BufferChunk, Refuse
    <2>4. StaysInPart(pc, pc)
      BY DEF StaysInPart
    <2>5. QED
      BY <2>1, <2>2, <2>3, <2>4, EmissionsStay
  <1>2. CASE ResumeApprovals \/ BeginTurn \/ ExhaustTurns \/ HookStopsCall \/ CallbackPanics
    BY <1>2
    DEF ResumeApprovals, BeginTurn, ExhaustTurns, HookStopsCall, CallbackPanics, Step,
        FailWith, Goto, StaysInPart, BeforeCall, AfterCall, budgetVars
  <1>3. CASE StreamChunk \/ StreamEnds \/ StreamInterrupted \/ HookStopsTurn \/ AcceptTurn
             \/ FlushDone \/ FinishText
    BY <1>3
    DEF StreamChunk, StreamEnds, StreamInterrupted, HookStopsTurn, AcceptTurn, FlushDone,
        FinishText, Step, FailWith, Goto, StaysInPart, BeforeCall, AfterCall, budgetVars
  <1>4. CASE NextToolCall \/ DispatchTool \/ ResolveApproval \/ ToolOutputFails
             \/ ToolsDone \/ StopWhenHolds
    BY <1>4
    DEF NextToolCall, DispatchTool, ResolveApproval, ToolOutputFails, ToolsDone, CallFails,
        StopWhenHolds, Step, FailWith, Goto, StaysInPart, BeforeCall, AfterCall, budgetVars
  <1>5. CASE NoStructuredOutput \/ OutputBudgetSpent \/ OutputStream \/ Stop \/ Panic
             \/ SendTerminalError \/ TerminalErrorBlocked \/ DiscardOldest \/ CloseChannel
    BY <1>5
    DEF NoStructuredOutput, OutputBudgetSpent, OutputStream, Stop, Panic,
        SendTerminalError, TerminalErrorBlocked, DiscardOldest, CloseChannel, Step,
        FailWith, Goto, StaysInPart, BeforeCall, AfterCall, budgetVars
  <1>6. CASE ConsumerNext \/ Cancel \/ Terminated \/ UNCHANGED vars
    BY <1>6
    DEF ConsumerNext, Receive, ReceiveError, Break, BodyPanics, TakeEvent, Drain,
        FinishRange, Cancel, Terminated, vars, driverVars, budgetVars, StaysInPart
  <1>7. QED
    BY <1>1, <1>2, <1>3, <1>4, <1>5, <1>6 DEF Next, DriverNext

(* A turn that the loop admits always finds budget for its provider call,   *)
(* whatever mixture of tool turns and retried turns came before it.         *)
THEOREM TurnsFindBudget == Spec => []TurnsLeaveBudget
  <1>1. Init => TurnsPaid
    BY DEF Init, TurnsPaid, AfterCall
  <1>2. IndInv /\ TurnsPaid /\ [Next]_vars => TurnsPaid'
    <2> SUFFICES ASSUME IndInv, TurnsPaid, [Next]_vars PROVE TurnsPaid'
      OBVIOUS
    <2>1. step \in Nat /\ modelCalls \in Nat
      BY AgentRunAssumption DEF IndInv, DriverInv, TypesDriver
    <2>2. CASE RetryTurn \/ Continue
      BY <2>1, <2>2 DEF RetryTurn, Continue, Goto, TurnsPaid, BeforeCall, AfterCall
    <2>3. CASE \E ok \in BOOLEAN : CallModel(ok)
      BY <2>1, <2>3
      DEF CallModel, ReserveModelCall, Goto, TurnsPaid, BeforeCall, AfterCall
    <2>4. CASE \E ok \in BOOLEAN : CallForOutput(ok)
      BY <2>4 DEF CallForOutput, Goto, TurnsPaid, BeforeCall, AfterCall
    <2>5. CASE /\ ~RetryTurn /\ ~Continue
               /\ \A ok \in BOOLEAN : ~CallModel(ok) /\ ~CallForOutput(ok)
      BY <2>5, CountersKept DEF TurnsPaid, StaysInPart
    <2>6. QED
      BY <2>2, <2>3, <2>4, <2>5
  <1>3. IndInv /\ TurnsPaid => TurnsLeaveBudget
    <2> SUFFICES ASSUME IndInv, TurnsPaid, pc = "prepare" PROVE modelCalls < MaxTurns
      BY DEF TurnsLeaveBudget
    <2>1. step < MaxTurns /\ step \in Nat /\ modelCalls \in Nat
      BY AgentRunAssumption
      DEF IndInv, DriverInv, TypesDriver, WithinTurns, TurnLocations
    <2>2. modelCalls <= step
      BY DEF TurnsPaid, BeforeCall
    <2>3. QED
      BY <2>1, <2>2, AgentRunAssumption
  <1>4. QED
    BY <1>1, <1>2, <1>3, Invariance, PTL DEF Spec

-----------------------------------------------------------------------------
(***************************************************************************)
(* The events of a run: in which order they reach the consumer, which      *)
(* turns they come from, and that a run which is reported as completed has *)
(* said so.                                                                *)
(***************************************************************************)

(* What the consumer has got or will find in the channel. *)
Shown == {delivered[i] : i \in DOMAIN delivered} \cup {ch[i] : i \in DOMAIN ch}
ShownType(type) == \E e \in Shown : e.type = type

(* The events that name the turn they belong to. *)
TurnEvent(e) == e.type \in {"StepStart", "Chunk"}

Resuming == {"resume", "resumeCancelled", "resumeReady", "resumeDenied", "resumeResult",
             "resumeError"}
Streaming == {"prepare", "delta", "consume", "accept"}
Ending == {"stop", "fail", "discard", "return", "exited"}

(* The StepStart of the turn is held back. *)
HeldBack == buffer # <<>> /\ buffer[1].type = "StepStart"

(* Nothing of the turn at the counter has been sent. *)
Unstarted ==
    \/ pc \in Resuming \cup {"turn", "stepStart"}
    \/ pc \in Streaming /\ buffering
    \/ pc = "flush" /\ HeldBack

(* A turn is buffered from its start to its acceptance when a ModelTurnHook *)
(* exists, and never otherwise.                                             *)
BufferInv ==
    /\ pc \in Streaming \cup {"stepStart"} => buffering = modelTurnHooks
    /\ pc = "stepStart" => buffer = <<>>
    /\ pc \in Streaming => IF buffering THEN HeldBack ELSE buffer = <<>>
    /\ pc \in Streaming \cup {"stepStart", "flush"} =>
         \A i \in DOMAIN buffer :
             /\ buffer[i].step = step /\ TurnEvent(buffer[i])
             /\ i > 1 => buffer[i].type = "Chunk"
    /\ pend # NoEvent => pend = EventAt(pc)

(* Rejected turns are behind the counter, and nothing of them was shown. *)
ShownInv ==
    /\ \A n \in rejected : n < step
    /\ \A e \in Shown : TurnEvent(e) =>
         /\ e.step <= step /\ e.step \notin rejected
         /\ Unstarted => e.step < step

(* Done comes at the end of the driver, with no hook failure before it.     *)
DoneInv ==
    /\ ShownType("Done") =>
         /\ pc \in Ending /\ ~hookErr
         /\ pc \in {"fail", "discard"} => cancelled
    /\ \A i \in DOMAIN delivered : delivered[i].type = "Done" =>
         \/ /\ i = Len(delivered)
            /\ \/ ch = <<>>
               \/ /\ Len(ch) = 1 /\ ch[1].type = "Error" /\ cancelled
                  /\ pc \in {"return", "exited"}
         \/ /\ i = Len(delivered) - 1 /\ delivered[Len(delivered)].type = "Error"
            /\ ch = <<>> /\ cancelled /\ pc \in {"return", "exited"}
    /\ \A i \in DOMAIN ch : ch[i].type = "Done" =>
         \/ i = Len(ch)
         \/ /\ i = Len(ch) - 1 /\ ch[Len(ch)].type = "Error" /\ cancelled
            /\ pc \in {"return", "exited"}

(* The consumer takes nothing after an Error. *)
ErrorInv ==
    \A i \in DOMAIN delivered : delivered[i].type = "Error" =>
        i = Len(delivered) /\ cons # "ranging"

(* A driver that is over has shown how it ended, or never began a turn; and *)
(* a consumer that left without an error had seen Done.                     *)
EndInv ==
    /\ pc \in Resuming => ~ShownType("StepStart")
    /\ cons = "ranging" =>
         /\ runErr = "none"
         /\ pc = "stop" => ShownType("Error") \/ ShownType("Done") \/ cancelled \/ hookErr
         /\ pc \in {"return", "exited"} =>
              ShownType("Error") \/ ShownType("Done") \/ ~ShownType("StepStart")
    /\ cons = "draining" /\ runErr = "none" => Seen("Done", delivered)
    /\ state = "Completed" /\ Seen("StepStart", delivered) => Seen("Done", delivered)

-----------------------------------------------------------------------------
(* Brackets. *)

Starts(s, n) == {i \in 1..n : s[i].type = "StepStart"}
Ends(s, n) == {i \in 1..n : s[i].type = "StepEnd"}
Balanced(s, n) == Cardinality(Starts(s, n)) = Cardinality(Ends(s, n))

Bracketed(s) ==
    \A i \in 1..Len(s) :
        /\ s[i].type = "StepStart" => \A j \in Starts(s, i - 1) : s[j].step < s[i].step
        /\ s[i].type = "StepEnd" => Balanced(s, i) /\ \E j \in Starts(s, i) : s[j].step = s[i].step
        /\ s[i].type = "Done" => Balanced(s, i)

(* Between steps, and inside one. *)
Closed(s) == Balanced(s, Len(s))
Open(s, n) ==
    /\ Cardinality(Starts(s, Len(s))) = Cardinality(Ends(s, Len(s))) + 1
    /\ \E j \in Starts(s, Len(s)) : s[j].step = n

BetweenSteps ==
    {"text", "textOutput", "done", "stopWhen", "output", "outputStream", "toolOutput", "toolDone"}
InsideStep ==
    {"textEnd", "tools", "tool", "toolInvalid", "toolReady", "clientRequest", "suspend",
     "approvalRequest", "approval", "toolDenied", "toolFailed", "toolResult", "suspendEnd",
     "toolEnd"}

(* Where the driver is between steps, and where it is inside one.  A StepEnd *)
(* that was refused at suspendEnd is not missed, because the Done after it  *)
(* is refused as well.                                                      *)
Between ==
    \/ Unstarted
    \/ pc \in BetweenSteps
    \/ pc = "suspendDone" /\ (pend # NoEvent \/ ~(cancelled \/ hookErr))

Inside == pc \in InsideStep \/ (pc \in Streaming \cup {"flush"} /\ ~Unstarted)

BracketInv ==
    /\ lost = <<>> => Bracketed(delivered)
    /\ lost = <<>> /\ cons = "ranging" =>
         /\ Bracketed(Emitted)
         /\ Between => Closed(Emitted)
         /\ Inside => Open(Emitted, step)

-----------------------------------------------------------------------------
(* The buffer of a turn under a ModelTurnHook. *)

LEMMA EventTyped ==
    ASSUME IndInv, pc \in EmitPoints, pc = "flush" => buffer # <<>>
    PROVE  EventAt(pc) \in Events
  <1>1. step \in 0..MaxTurns /\ err \in Causes \cup {"none"} /\ buffer \in Seq(Events)
    BY DEF IndInv, DriverInv, TypesDriver, Caused
  <1>2. CASE pc = "flush"
    BY <1>1, <1>2 DEF EventAt
  <1>3. CASE pc # "flush"
    BY <1>1, <1>3, Tables DEF EventAt, Events
  <1>4. QED
    BY <1>2, <1>3

(* Steps that leave the turn, or never were in one. *)
LEMMA OutsideTheTurn ==
    ASSUME pend' = NoEvent, pc' \notin Streaming \cup {"stepStart", "flush"}
    PROVE  BufferInv'
  BY DEF BufferInv, Streaming

LEMMA BufferGoto ==
    ASSUME IndInv, BufferInv,
           BeginTurn \/ (\E ok \in BOOLEAN : CallModel(ok)) \/ StreamChunk \/ StreamEnds
           \/ AcceptTurn
    PROVE  BufferInv'
  <1>1. pend = NoEvent
    BY NothingWaiting, QuietLocations
    DEF BeginTurn, CallModel, StreamChunk, StreamEnds, AcceptTurn, Goto
  <1>2. CASE BeginTurn
    BY <1>1, <1>2 DEF BeginTurn, Goto, BufferInv, Streaming, channelVars, budgetVars
  <1>3. CASE \E ok \in BOOLEAN : CallModel(ok)
    BY <1>1, <1>3 DEF CallModel, Goto, BufferInv, HeldBack, Streaming, channelVars
  <1>4. CASE StreamChunk \/ StreamEnds \/ AcceptTurn
    BY <1>1, <1>4
    DEF StreamChunk, StreamEnds, AcceptTurn, Goto, BufferInv, HeldBack, Streaming,
        channelVars, budgetVars
  <1>5. QED
    BY <1>2, <1>3, <1>4

LEMMA BufferGrows ==
    ASSUME IndInv, BufferInv, BufferChunk
    PROVE  BufferInv'
  <1>1. pc \in {"stepStart", "delta"} /\ buffering /\ pc \in EmitPoints
    BY EmitPointsAre DEF BufferChunk, Buffered
  <1>2. /\ pc = "stepStart" => pc' = "prepare"
        /\ pc = "delta" => pc' = "consume"
    BY <1>1 DEF BufferChunk, After
  <1>3. DEFINE e == EventAt(pc)
  <1>4. e.step = step /\ TurnEvent(e) /\ e.type = Emits[pc]
        /\ (pc = "stepStart" => e.type = "StepStart") /\ (pc = "delta" => e.type = "Chunk")
    BY <1>1 DEF EventAt, Emits, TurnEvent
  <1>5. e \in Events /\ buffer \in Seq(Events)
    BY <1>1, EventTyped DEF IndInv, DriverInv, TypesDriver, Caused
  <1>6. buffer' = Append(buffer, e) /\ step' = step /\ buffering' = buffering
        /\ modelTurnHooks' = modelTurnHooks /\ pend' = pend
    BY DEF BufferChunk, channelVars, budgetVars
  <1>7. pend = NoEvent
    BY <1>1 DEF IndInv, WaitingMeansNoFailure, AtEmission, Buffered
  <1>8. /\ DOMAIN buffer' = 1..(Len(buffer) + 1)
        /\ DOMAIN buffer = 1..Len(buffer) /\ Len(buffer) \in Nat
        /\ \A i \in 1..Len(buffer) : buffer'[i] = buffer[i]
        /\ buffer'[Len(buffer) + 1] = e
        /\ buffer' # <<>>
    BY <1>5, <1>6
  <1> HIDE DEF e
  <1>9. CASE pc = "stepStart"
    <2>1. buffer = <<>>
      BY <1>9 DEF BufferInv
    <2>2. DOMAIN buffer' = {1} /\ buffer'[1] = e
      BY <1>8, <2>1
    <2>3. HeldBack'
      BY <1>4, <1>8, <1>9, <2>2 DEF HeldBack
    <2>4. \A i \in DOMAIN buffer' : /\ buffer'[i].step = step /\ TurnEvent(buffer'[i])
                                    /\ i > 1 => buffer'[i].type = "Chunk"
      BY <1>4, <2>2
    <2>5. buffering = modelTurnHooks
      BY <1>9 DEF BufferInv, Streaming
    <2>6. QED
      BY <1>1, <1>2, <1>6, <1>7, <1>9, <2>3, <2>4, <2>5 DEF BufferInv, Streaming
  <1>10. CASE pc = "delta"
    <2>1. HeldBack /\ \A i \in DOMAIN buffer : /\ buffer[i].step = step /\ TurnEvent(buffer[i])
                                               /\ i > 1 => buffer[i].type = "Chunk"
      BY <1>1, <1>10 DEF BufferInv, Streaming
    <2>2. HeldBack'
      BY <1>8, <2>1 DEF HeldBack
    <2>3. ASSUME NEW i \in DOMAIN buffer'
          PROVE  /\ buffer'[i].step = step /\ TurnEvent(buffer'[i])
                 /\ i > 1 => buffer'[i].type = "Chunk"
      <3>1. CASE i = Len(buffer) + 1
        BY <1>4, <1>8, <1>10, <3>1
      <3>2. CASE i # Len(buffer) + 1
        BY <1>8, <2>1, <3>2
      <3>3. QED
        BY <3>1, <3>2
    <2>4. buffering = modelTurnHooks
      BY <1>10 DEF BufferInv, Streaming
    <2>5. QED
      BY <1>1, <1>2, <1>6, <1>7, <1>10, <2>2, <2>3, <2>4 DEF BufferInv, Streaming
  <1>11. QED
    BY <1>1, <1>9, <1>10

LEMMA BufferSend ==
    ASSUME IndInv, BufferInv, Send
    PROVE  BufferInv'
  <1>1. AtEmission /\ pc \in EmitPoints
    BY DEF Send, IndInv, WaitingMeansNoFailure, AtEmission
  <1>2. /\ pend' = NoEvent /\ pc' = After[pc]
        /\ buffer' = IF pc = "flush" THEN Tail(buffer) ELSE buffer
        /\ step' = step /\ buffering' = buffering /\ modelTurnHooks' = modelTurnHooks
    BY DEF Send, budgetVars
  <1>3. CASE pc \in {"stepStart", "delta"}
    <2>1. ~buffering /\ buffer = <<>> /\ buffering = modelTurnHooks
      BY <1>1, <1>3 DEF AtEmission, Buffered, BufferInv, Streaming
    <2>2. pc' \in {"prepare", "consume"}
      BY <1>2, <1>3 DEF After
    <2>3. QED
      BY <1>2, <1>3, <2>1, <2>2 DEF BufferInv, Streaming
  <1>4. CASE pc = "flush"
    <2>1. pc' = "flush"
      BY <1>2, <1>4 DEF After
    <2>2. buffer \in Seq(Events) /\ buffer # <<>>
      BY <1>1, <1>4 DEF AtEmission, IndInv, DriverInv, TypesDriver, Caused
    <2>3. /\ DOMAIN buffer = 1..Len(buffer) /\ DOMAIN Tail(buffer) = 1..(Len(buffer) - 1)
          /\ Len(buffer) \in Nat
          /\ \A i \in 1..(Len(buffer) - 1) : Tail(buffer)[i] = buffer[i + 1]
      BY <2>2
    <2>4. \A i \in DOMAIN buffer : /\ buffer[i].step = step /\ TurnEvent(buffer[i])
                                   /\ i > 1 => buffer[i].type = "Chunk"
      BY <1>4 DEF BufferInv
    <2>5. \A i \in DOMAIN Tail(buffer) :
            /\ Tail(buffer)[i].step = step /\ TurnEvent(Tail(buffer)[i])
            /\ i > 1 => Tail(buffer)[i].type = "Chunk"
      BY <2>3, <2>4
    <2>6. QED
      BY <1>2, <1>4, <2>1, <2>5 DEF BufferInv, Streaming
  <1>5. CASE pc \notin {"stepStart", "delta", "flush"}
    <2>1. pc' \notin Streaming \cup {"stepStart", "flush"}
      BY <1>1, <1>2, <1>5, EmitPointsAre DEF After, Streaming
    <2>2. QED
      BY <1>2, <2>1, OutsideTheTurn
  <1>6. QED
    BY <1>3, <1>4, <1>5

LEMMA BufferKept ==
    ASSUME IndInv, BufferInv, [Next]_vars
    PROVE  BufferInv'
  <1>1. CASE EnterSelect
    BY <1>1
    DEF EnterSelect, BufferInv, HeldBack, EventAt, turnVars, budgetVars, errorVars
  <1>2. CASE \E hookFails \in BOOLEAN : Refuse(hookFails)
    <2>1. pc \in EmitPoints /\ pc' = Refused(pc) /\ pend' = NoEvent
      BY <1>2 DEF Refuse, AtEmission
    <2>2. pc' \notin Streaming \cup {"stepStart", "flush"}
      BY <2>1, EmitPointsAre DEF Refused, After, Streaming
    <2>3. QED
      BY <2>1, <2>2, OutsideTheTurn
  <1>3. CASE ResumeApprovals \/ ExhaustTurns \/ HookStopsCall \/ CallbackPanics
             \/ StreamInterrupted \/ HookStopsTurn \/ RetryTurn \/ FlushDone
    <2>1. pc' \notin Streaming \cup {"stepStart", "flush"} /\ pend' = pend
      BY <1>3
      DEF ResumeApprovals, ExhaustTurns, HookStopsCall, CallbackPanics,
          StreamInterrupted, HookStopsTurn, RetryTurn, FlushDone, Step, FailWith, Goto,
          Streaming, channelVars
    <2>2. CASE pc = "flush"
      BY <1>3, <2>1, <2>2, OutsideTheTurn
      DEF ResumeApprovals, ExhaustTurns, HookStopsCall, CallbackPanics,
          StreamInterrupted, HookStopsTurn, RetryTurn, FlushDone, Step, FailWith, Goto,
          BufferInv, EventAt, IndInv, WaitingMeansNoFailure, AtEmission
    <2>3. CASE pc # "flush"
      <3>1. pc \notin EmitPoints
        BY <1>3, <2>3, QuietLocations
        DEF ResumeApprovals, ExhaustTurns, HookStopsCall, CallbackPanics,
            StreamInterrupted, HookStopsTurn, RetryTurn, FlushDone, Step, FailWith, Goto
      <3>2. QED
        BY <2>1, <3>1, NothingWaiting, OutsideTheTurn
    <2>4. QED
      BY <2>2, <2>3
  <1>4. CASE FinishText \/ NextToolCall \/ DispatchTool \/ ResolveApproval
             \/ ToolOutputFails \/ ToolsDone \/ StopWhenHolds \/ Continue
    <2>1. pc' \notin Streaming \cup {"stepStart", "flush"} /\ pend' = pend
          /\ pc \notin EmitPoints
      BY <1>4, QuietLocations
      DEF FinishText, NextToolCall, DispatchTool, ResolveApproval, ToolOutputFails,
          ToolsDone, StopWhenHolds, Continue, CallFails, Step, FailWith, Goto, Streaming,
          channelVars
    <2>2. QED
      BY <2>1, NothingWaiting, OutsideTheTurn
  <1>5. CASE NoStructuredOutput \/ OutputBudgetSpent \/ OutputStream
             \/ (\E ok \in BOOLEAN : CallForOutput(ok)) \/ Stop \/ Panic
             \/ SendTerminalError \/ TerminalErrorBlocked \/ DiscardOldest \/ CloseChannel
    <2>1. pc' \notin Streaming \cup {"stepStart", "flush"} /\ pend' = pend
          /\ pc \notin EmitPoints
      BY <1>5, QuietLocations
      DEF NoStructuredOutput, OutputBudgetSpent, OutputStream, CallForOutput, Stop, Panic,
          SendTerminalError, TerminalErrorBlocked, DiscardOldest, CloseChannel, Step,
          FailWith, Goto, Streaming, channelVars
    <2>2. QED
      BY <2>1, NothingWaiting, OutsideTheTurn
  <1>6. CASE ConsumerNext \/ Cancel \/ Terminated \/ UNCHANGED vars
    <2>1. UNCHANGED driverVars
      BY <1>6
      DEF ConsumerNext, Receive, ReceiveError, Break, BodyPanics, TakeEvent, Drain,
          FinishRange, Cancel, Terminated, vars, driverVars, channelVars
    <2>2. QED
      BY <2>1
      DEF driverVars, turnVars, budgetVars, errorVars, BufferInv, HeldBack, EventAt
  <1>7. QED
    BY <1>1, <1>2, <1>3, <1>4, <1>5, <1>6, BufferGoto, BufferGrows, BufferSend
    DEF Next, DriverNext

-----------------------------------------------------------------------------
(* The steps that show nothing and take nothing: those of the driver but    *)
(* for a send and a discard, and a Cancel.                                  *)

Quiet ==
    /\ ch' = ch /\ lost' = lost
    /\ cons' = cons /\ runErr' = runErr /\ state' = state /\ delivered' = delivered
    /\ cancelled => cancelled'
    /\ hookErr => hookErr'

(* How the driver gets to its end: through stop for a reason, or straight   *)
(* from the answered approvals.                                             *)
EndFlow ==
    /\ pc' \in Resuming => pc \in Resuming
    /\ pc \in Ending => pc' \in Ending /\ hookErr' = hookErr
    /\ pc \in Ending /\ pc' \in {"fail", "discard"} =>
         pc \in {"fail", "discard"} \/ cancelled \/ hookErr
    /\ pc' = "stop" => pc = "stop" \/ cancelled' \/ hookErr'
    /\ pc' = "return" =>
         pc = "return" \/ pc \in Resuming \/ (pc = "stop" /\ ~cancelled /\ ~hookErr)
    /\ pc' = "exited" => pc \in {"return", "exited"}
    /\ pc \in {"return", "exited"} => pc' \in {"return", "exited"}

(* How the driver gets through a turn: only a send opens or closes a step,  *)
(* and only a turn of which nothing was sent is rejected.                   *)
TurnFlow ==
    /\ step' = step \/ step' = step + 1
    /\ rejected' = rejected \/ (rejected' = rejected \cup {step} /\ Unstarted /\ step' = step + 1)
    /\ Unstarted' => Unstarted \/ step' = step + 1
    /\ Between' => Between
    /\ Inside' => Inside /\ step' = step

Flow == Quiet /\ EndFlow /\ TurnFlow

(* A move outside the streaming part of a turn that stays on its side of a  *)
(* step.                                                                    *)
Plain ==
    /\ step' = step /\ rejected' = rejected /\ pend' = NoEvent
    /\ pc' \notin Streaming \cup {"flush"}
    /\ pc' = "suspendDone" => cancelled' \/ hookErr'
    /\ pc' \in Resuming \cup {"turn", "stepStart"} => pc \in Resuming \cup {"turn", "stepStart"}
    /\ pc' \in BetweenSteps => pc \in BetweenSteps
    /\ pc' \in InsideStep => pc \in InsideStep

LEMMA PlainFlow == ASSUME Plain PROVE TurnFlow
  <1>1. Unstarted' => Unstarted
    BY DEF Plain, Unstarted, Streaming
  <1>2. Between' => Between
    BY <1>1 DEF Plain, Between
  <1>3. Inside' => Inside
    BY DEF Plain, Inside, Streaming
  <1>4. QED
    BY <1>1, <1>2, <1>3 DEF Plain, TurnFlow

LEMMA EmissionsFlow ==
    ASSUME IndInv, BufferInv,
           EnterSelect \/ BufferChunk \/ (\E hookFails \in BOOLEAN : Refuse(hookFails))
    PROVE  Flow
  <1>1. CASE EnterSelect
    BY <1>1
    DEF EnterSelect, Flow, Quiet, EndFlow, TurnFlow, Between, Inside, Unstarted, HeldBack,
        turnVars, budgetVars, errorVars, consumerVars
  <1>2. CASE BufferChunk
    <2>1. Quiet /\ step' = step /\ rejected' = rejected /\ buffering' = buffering
      BY <1>2
      DEF BufferChunk, Quiet, channelVars, consumerVars, budgetVars, errorVars
    <2>2. /\ (pc = "stepStart" /\ pc' = "prepare") \/ (pc = "delta" /\ pc' = "consume")
          /\ buffering
      BY <1>2 DEF BufferChunk, Buffered, After
    <2>3. EndFlow
      BY <2>2 DEF EndFlow, Resuming, Ending
    <2>4. Unstarted /\ Unstarted' /\ Between /\ ~Inside'
      BY <2>1, <2>2 DEF Between, Inside, Unstarted, Streaming, InsideStep
    <2>5. TurnFlow
      BY <2>1, <2>4 DEF TurnFlow
    <2>6. QED
      BY <2>1, <2>3, <2>5 DEF Flow
  <1>3. CASE \E hookFails \in BOOLEAN : Refuse(hookFails)
    <2>1. /\ pc \in EmitPoints /\ pc' = Refused(pc) /\ pend' = NoEvent
          /\ step' = step /\ rejected' = rejected /\ (cancelled \/ hookErr')
          /\ cancelled' = cancelled
      BY <1>3 DEF Refuse, AtEmission, budgetVars
    <2>2. Quiet
      BY <1>3 DEF Refuse, Quiet, consumerVars, IndInv, DriverInv, TypesDriver
    <2>3. /\ pc = "resumeError" => pc' = "return"
          /\ pc \in Resuming \ {"resumeError"} => pc' \in {"resumeCancelled", "resumeResult", "turn", "stop"}
          /\ pc = "suspendEnd" => pc' = "suspendDone"
          /\ pc = "toolDenied" => pc' = "toolResult"
          /\ pc = "approvalRequest" => pc' \in {"toolFailed", "panic"}
          /\ pc \notin Resuming \cup {"suspendEnd", "toolDenied", "approvalRequest"} => pc' = "stop"
      BY <2>1, EmitPointsAre DEF Refused, After, Resuming
    <2>4. EndFlow
      BY <2>1, <2>2, <2>3, EmitPointsAre DEF EndFlow, Resuming, Ending
    <2>5. TurnFlow
      <3>1. pc' \notin Streaming \cup {"flush"}
        BY <2>3, EmitPointsAre, <2>1 DEF Resuming, Streaming
      <3>2. pc' \in Resuming \cup {"turn", "stepStart"} => pc \in Resuming
        BY <2>3 DEF Resuming
      <3>3. /\ pc' \in BetweenSteps => pc \in BetweenSteps
            /\ pc' \in InsideStep => pc \in InsideStep
        BY <2>3 DEF Resuming, BetweenSteps, InsideStep
      <3>4. Plain
        BY <2>1, <3>1, <3>2, <3>3 DEF Plain
      <3>5. QED
        BY <3>4, PlainFlow
    <2>6. QED
      BY <2>2, <2>4, <2>5 DEF Flow
  <1>4. QED
    BY <1>1, <1>2, <1>3

LEMMA TurnsFlow ==
    ASSUME IndInv, BufferInv,
           ResumeApprovals \/ BeginTurn \/ ExhaustTurns \/ HookStopsCall \/ CallbackPanics
           \/ (\E ok \in BOOLEAN : CallModel(ok)) \/ StreamChunk \/ StreamEnds
           \/ StreamInterrupted \/ HookStopsTurn \/ RetryTurn \/ AcceptTurn \/ FlushDone
           \/ FinishText
    PROVE  Flow
  <1>1. Quiet
    BY DEF ResumeApprovals, BeginTurn, ExhaustTurns, HookStopsCall, CallbackPanics, CallModel,
           StreamChunk, StreamEnds, StreamInterrupted, HookStopsTurn, RetryTurn, AcceptTurn,
           FlushDone, FinishText, Step, FailWith, Goto, Quiet, channelVars, consumerVars,
           errorVars
  <1>2. EndFlow
    BY DEF ResumeApprovals, BeginTurn, ExhaustTurns, HookStopsCall, CallbackPanics, CallModel,
           StreamChunk, StreamEnds, StreamInterrupted, HookStopsTurn, RetryTurn, AcceptTurn,
           FlushDone, FinishText, Step, FailWith, Goto, EndFlow, Resuming, Ending, errorVars
  <1>3. CASE ResumeApprovals \/ BeginTurn \/ ExhaustTurns \/ HookStopsCall \/ CallbackPanics
             \/ StreamInterrupted \/ HookStopsTurn \/ FinishText
    <2>1. pend' = pend /\ pc \notin EmitPoints /\ step' = step /\ rejected' = rejected
      BY <1>3, QuietLocations
      DEF ResumeApprovals, BeginTurn, ExhaustTurns, HookStopsCall, CallbackPanics,
          StreamInterrupted, HookStopsTurn, FinishText, Step, FailWith, Goto, channelVars,
          budgetVars
    <2>2. pc' \notin Streaming \cup {"flush", "suspendDone"}
      BY <1>3
      DEF ResumeApprovals, BeginTurn, ExhaustTurns, HookStopsCall, CallbackPanics,
          StreamInterrupted, HookStopsTurn, FinishText, Step, FailWith, Goto, Streaming
    <2>3. /\ pc' \in Resuming \cup {"turn", "stepStart"} => pc \in Resuming \cup {"turn"}
          /\ pc' \in BetweenSteps => pc \in BetweenSteps
          /\ pc' \notin InsideStep
      BY <1>3
      DEF ResumeApprovals, BeginTurn, ExhaustTurns, HookStopsCall, CallbackPanics,
          StreamInterrupted, HookStopsTurn, FinishText, Step, FailWith, Goto, Resuming,
          BetweenSteps, InsideStep
    <2>4. Plain
      BY <2>1, <2>2, <2>3, NothingWaiting DEF Plain
    <2>5. QED
      BY <1>1, <1>2, <2>4, PlainFlow DEF Flow
  <1>4. CASE (\E ok \in BOOLEAN : CallModel(ok)) \/ StreamChunk \/ StreamEnds
    <2>1. /\ pc \in {"prepare", "consume"} /\ pc' \in {"consume", "runError", "delta", "accept"}
          /\ step' = step /\ rejected' = rejected /\ buffering' = buffering
      BY <1>4 DEF CallModel, StreamChunk, StreamEnds, Goto, budgetVars
    <2>2. (Unstarted' => Unstarted) /\ (Inside' => Inside) /\ (Between' => Unstarted')
      BY <2>1 DEF Unstarted, Between, Inside, Resuming, Streaming, BetweenSteps, InsideStep
    <2>3. QED
      BY <1>1, <1>2, <2>1, <2>2 DEF TurnFlow, Flow, Between
  <1>5. CASE FlushDone
    <2>1. /\ pc = "flush" /\ pc' \in {"textEnd", "tools"} /\ buffer = <<>>
          /\ step' = step /\ rejected' = rejected
      BY <1>5 DEF FlushDone, Step, Goto, budgetVars
    <2>2. ~Unstarted' /\ ~Between' /\ Inside
      BY <2>1
      DEF Unstarted, HeldBack, Between, Inside, Resuming, Streaming, BetweenSteps
    <2>3. QED
      BY <1>1, <1>2, <2>1, <2>2 DEF TurnFlow, Flow
  <1>6. CASE RetryTurn
    <2>1. /\ pc = "accept" /\ pc' = "turn" /\ step' = step + 1 /\ modelTurnHooks
          /\ rejected' = rejected \cup {step}
      BY <1>6 DEF RetryTurn, Goto
    <2>2. Unstarted /\ Between /\ ~Inside'
      BY <2>1 DEF BufferInv, Unstarted, Between, Inside, Streaming, InsideStep
    <2>3. QED
      BY <1>1, <1>2, <2>1, <2>2 DEF TurnFlow, Flow
  <1>7. CASE AcceptTurn
    <2>1. /\ pc = "accept" /\ pc' = "flush" /\ buffer' = buffer /\ step' = step
          /\ rejected' = rejected
      BY <1>7 DEF AcceptTurn, Goto, budgetVars
    <2>2. IF buffering THEN HeldBack ELSE buffer = <<>>
      BY <2>1 DEF BufferInv, Streaming
    <2>3. Unstarted' <=> Unstarted
      BY <2>1, <2>2 DEF Unstarted, HeldBack, Streaming, Resuming
    <2>4. (Between' => Unstarted') /\ (Inside' => Inside)
      BY <2>1, <2>3 DEF Between, Inside, Streaming, BetweenSteps, InsideStep
    <2>5. QED
      BY <1>1, <1>2, <2>1, <2>3, <2>4 DEF TurnFlow, Flow, Between
  <1>8. QED
    BY <1>1, <1>2, <1>3, <1>4, <1>5, <1>6, <1>7 DEF Flow

LEMMA ToolsFlow ==
    ASSUME IndInv, BufferInv,
           NextToolCall \/ DispatchTool \/ ResolveApproval \/ ToolOutputFails \/ ToolsDone
           \/ StopWhenHolds \/ Continue \/ NoStructuredOutput \/ OutputBudgetSpent
           \/ OutputStream \/ (\E ok \in BOOLEAN : CallForOutput(ok)) \/ Stop \/ Panic
           \/ TerminalErrorBlocked \/ CloseChannel
    PROVE  Flow
  <1>1. Quiet
    BY DEF NextToolCall, DispatchTool, ResolveApproval, ToolOutputFails, ToolsDone, StopWhenHolds,
           Continue, NoStructuredOutput, OutputBudgetSpent, OutputStream, CallForOutput, Stop,
           Panic, TerminalErrorBlocked, CloseChannel, CallFails, Step, FailWith, Goto, Quiet,
           channelVars, consumerVars, errorVars
  <1>2. EndFlow
    BY DEF NextToolCall, DispatchTool, ResolveApproval, ToolOutputFails, ToolsDone, StopWhenHolds,
           Continue, NoStructuredOutput, OutputBudgetSpent, OutputStream, CallForOutput, Stop,
           StopError, Panic, TerminalErrorBlocked, CloseChannel, CallFails, Step, FailWith,
           Goto, EndFlow, Resuming, Ending, errorVars
  <1>3. pend' = pend /\ pc \notin EmitPoints
    BY QuietLocations
    DEF NextToolCall, DispatchTool, ResolveApproval, ToolOutputFails, ToolsDone,
        StopWhenHolds, Continue, NoStructuredOutput, OutputBudgetSpent, OutputStream,
        CallForOutput, Stop, Panic, TerminalErrorBlocked, CloseChannel, CallFails, Step,
        FailWith, Goto, channelVars
  <1>4. CASE NextToolCall \/ DispatchTool \/ ResolveApproval \/ ToolOutputFails \/ ToolsDone
    <2>1. /\ step' = step /\ rejected' = rejected
          /\ pc' \notin Streaming \cup Resuming \cup BetweenSteps
                        \cup {"flush", "turn", "stepStart", "suspendDone"}
          /\ pc \in InsideStep
      BY <1>4
      DEF NextToolCall, DispatchTool, ResolveApproval, ToolOutputFails, ToolsDone, CallFails,
          Step, FailWith, Goto, Resuming, Streaming, BetweenSteps, InsideStep, budgetVars
    <2>2. Plain
      BY <1>3, <2>1, NothingWaiting DEF Plain
    <2>3. QED
      BY <1>1, <1>2, <2>2, PlainFlow DEF Flow
  <1>5. CASE StopWhenHolds \/ NoStructuredOutput \/ OutputBudgetSpent
             \/ OutputStream \/ (\E ok \in BOOLEAN : CallForOutput(ok)) \/ Stop \/ Panic
             \/ TerminalErrorBlocked \/ CloseChannel
    <2>1. /\ step' = step /\ rejected' = rejected
          /\ pc' \notin Streaming \cup Resuming \cup InsideStep
                        \cup {"flush", "turn", "stepStart", "suspendDone"}
          /\ pc' \in BetweenSteps => pc \in BetweenSteps
      BY <1>5
      DEF StopWhenHolds, NoStructuredOutput, OutputBudgetSpent, OutputStream,
          CallForOutput, Stop, Panic, TerminalErrorBlocked, CloseChannel, Step, FailWith, Goto,
          Resuming, Streaming, BetweenSteps, InsideStep, budgetVars
    <2>2. Plain
      BY <1>3, <2>1, NothingWaiting DEF Plain
    <2>3. QED
      BY <1>1, <1>2, <2>2, PlainFlow DEF Flow
  <1>6. CASE Continue
    <2>1. pc = "stopWhen" /\ pc' = "turn" /\ step' = step + 1 /\ rejected' = rejected
      BY <1>6 DEF Continue, Goto
    <2>2. Between /\ ~Inside'
      BY <2>1 DEF Between, Inside, BetweenSteps, InsideStep, Streaming
    <2>3. QED
      BY <1>1, <1>2, <2>1, <2>2 DEF TurnFlow, Flow
  <1>7. QED
    BY <1>1, <1>2, <1>4, <1>5, <1>6 DEF Flow

(* The kinds of steps the invariants have to survive.                       *)
LEMMA StepKinds ==
    ASSUME IndInv, BufferInv, [Next]_vars
    PROVE  Flow \/ Send \/ SendTerminalError \/ DiscardOldest \/ ConsumerNext
  <1>1. CASE Cancel \/ Terminated \/ UNCHANGED vars
    BY <1>1
    DEF Cancel, Terminated, vars, driverVars, channelVars, turnVars, budgetVars, errorVars,
        consumerVars, Flow, Quiet, EndFlow, TurnFlow, Between, Inside, Unstarted, HeldBack
  <1>2. QED
    BY <1>1, EmissionsFlow, TurnsFlow, ToolsFlow DEF Next, DriverNext

-----------------------------------------------------------------------------
(* What a send does. *)

LEMMA Appended ==
    ASSUME NEW S, NEW s \in Seq(S), NEW e \in S
    PROVE  /\ Len(Append(s, e)) = Len(s) + 1 /\ Len(s) \in Nat
           /\ DOMAIN Append(s, e) = 1..(Len(s) + 1) /\ DOMAIN s = 1..Len(s)
           /\ \A i \in 1..Len(s) : Append(s, e)[i] = s[i]
           /\ Append(s, e)[Len(s) + 1] = e
           /\ Append(s, e) \in Seq(S) /\ Append(s, e) # <<>>
  OBVIOUS

LEMMA TailOf ==
    ASSUME NEW S, NEW s \in Seq(S), s # <<>>
    PROVE  /\ Len(Tail(s)) = Len(s) - 1 /\ Len(s) \in Nat /\ Len(s) >= 1
           /\ DOMAIN Tail(s) = 1..(Len(s) - 1) /\ DOMAIN s = 1..Len(s)
           /\ \A i \in 1..(Len(s) - 1) : Tail(s)[i] = s[i + 1]
           /\ Head(s) = s[1] /\ Head(s) \in S /\ Tail(s) \in Seq(S)
  OBVIOUS

LEMMA ChannelTyped ==
    ASSUME IndInv
    PROVE  ch \in Seq(Caused) /\ ch \in Seq(Events) /\ delivered \in Seq(Events)
  BY DEF IndInv, TypesChannel, TypesConsumer, Caused

(* Which events open and close a step, by location. *)
LEMMA SendTable ==
    ASSUME NEW loc \in EmitPoints \ {"flush"}
    PROVE  /\ Emits[loc] \in {"StepStart", "Chunk"} <=> loc \in {"stepStart", "delta"}
           /\ Emits[loc] = "StepStart" <=> loc = "stepStart"
           /\ Emits[loc] = "StepEnd" <=> loc \in {"textEnd", "toolEnd", "suspendEnd"}
           /\ Emits[loc] = "Done" <=> loc \in {"done", "suspendDone", "toolDone"}
           /\ After[loc] \in Ending => /\ Emits[loc] \in {"Done", "Error"}
                                       /\ After[loc] \in {"stop", "return"}
           /\ Emits[loc] = "Done" => After[loc] \in {"stop", "return"}
           /\ After[loc] \in Resuming <=> loc \in Resuming \ {"resumeError"}
           /\ loc \notin Ending
  BY EmitPointsAre DEF Emits, After, Resuming, Ending

LEMMA SideTable ==
    ASSUME NEW loc \in EmitPoints \ {"flush", "stepStart", "delta"}
    PROVE  /\ After[loc] \notin Streaming \cup {"flush", "turn", "stepStart"}
           /\ After[loc] \in BetweenSteps => loc \in BetweenSteps \cup {"textEnd", "toolEnd"}
           /\ After[loc] = "suspendDone" <=> loc = "suspendEnd"
           /\ After[loc] \in InsideStep => loc \in InsideStep \ {"textEnd", "toolEnd", "suspendEnd"}
           /\ loc \in {"done", "toolDone"} => loc \in BetweenSteps
           /\ loc \in {"textEnd", "toolEnd", "suspendEnd"} => loc \in InsideStep
  BY EmitPointsAre DEF After, Resuming, Streaming, BetweenSteps, InsideStep

(* The event that is sent, and the sides of a step it leads between. *)
SentOnce(e) ==
    /\ e \in Events /\ ch' = Append(ch, e)
    /\ lost' = lost /\ step' = step /\ rejected' = rejected
    /\ hookErr' = hookErr /\ cancelled' = cancelled
    /\ cons' = cons /\ runErr' = runErr /\ state' = state /\ delivered' = delivered
    /\ pc \notin Ending /\ ~hookErr

SentEnds(e) ==
    /\ e.type = "Done" => pc' \in {"stop", "return"}
    /\ pc' \in Ending => pc' \in {"stop", "return"} /\ e.type \in {"Done", "Error"}
    /\ pc' \in Resuming => pc \in Resuming /\ e.type # "StepStart"

SentSides(e) ==
    /\ TurnEvent(e) => e.step = step /\ ~Unstarted'
    /\ Unstarted' => Unstarted
    /\ e.type = "StepStart" => Unstarted
    /\ e.type = "StepEnd" => Inside /\ e.step = step
    /\ e.type = "Done" => Between
    /\ Between' => \/ Between /\ e.type \notin {"StepStart", "StepEnd"}
                   \/ e.type = "StepEnd"
    /\ Inside' => \/ Inside /\ e.type \notin {"StepStart", "StepEnd"}
                  \/ e.type = "StepStart"

LEMMA SendFlow ==
    ASSUME IndInv, BufferInv, Send
    PROVE  SentOnce(EventAt(pc)) /\ SentEnds(EventAt(pc)) /\ SentSides(EventAt(pc))
  <1> DEFINE e == EventAt(pc)
  <1>1. AtEmission /\ pc \in EmitPoints /\ ~hookErr /\ pend = e /\ pend # NoEvent
    BY DEF Send, IndInv, WaitingMeansNoFailure, AtEmission, BufferInv
  <1>2. e \in Events
    BY <1>1, EventTyped DEF AtEmission
  <1>3. /\ pend' = NoEvent /\ pc' = After[pc]
        /\ buffer' = IF pc = "flush" THEN Tail(buffer) ELSE buffer
        /\ step' = step /\ buffering' = buffering
    BY DEF Send, budgetVars
  <1>4. pc # "flush" => e.type = Emits[pc] /\ e.step = step
    BY DEF EventAt
  <1>5. SentOnce(e)
    <2>1. pc \notin Ending
      BY <1>1, EmitPointsAre DEF Ending
    <2>2. QED
      BY <1>1, <1>2, <2>1 DEF Send, SentOnce, budgetVars, errorVars, consumerVars
  <1>6. CASE pc \in {"stepStart", "delta"}
    <2>1. ~buffering
      BY <1>1, <1>6 DEF AtEmission, Buffered
    <2>2. /\ pc = "stepStart" => pc' = "prepare" /\ e.type = "StepStart" /\ Unstarted
          /\ pc = "delta" => pc' = "consume" /\ e.type = "Chunk" /\ ~Unstarted
          /\ e.step = step
      BY <1>3, <1>4, <1>6, <2>1 DEF After, Emits, Unstarted, Resuming, Streaming
    <2>3. ~Unstarted'
      BY <1>3, <1>6, <2>1, <2>2 DEF Unstarted, Resuming, Streaming
    <2>4. ~Between' /\ (pc = "delta" => Inside)
      BY <1>6, <2>2, <2>3 DEF Between, Inside, BetweenSteps, Streaming
    <2>5. SentSides(e)
      BY <1>6, <2>2, <2>3, <2>4 DEF SentSides
    <2>6. SentEnds(e)
      BY <1>6, <2>2 DEF SentEnds, Ending, Resuming
    <2>7. QED
      BY <1>5, <2>5, <2>6
  <1>7. CASE pc = "flush"
    <2>1. pc' = "flush" /\ e = Head(buffer) /\ buffer' = Tail(buffer)
      BY <1>3, <1>7 DEF After, EventAt
    <2>2. buffer \in Seq(Caused) /\ buffer # <<>>
      BY <1>1, <1>7 DEF AtEmission, IndInv, DriverInv, TypesDriver
    <2>3. \A i \in DOMAIN buffer : /\ buffer[i].step = step /\ TurnEvent(buffer[i])
                                   /\ i > 1 => buffer[i].type = "Chunk"
      BY <1>7 DEF BufferInv
    <2>4. e = buffer[1] /\ e.step = step /\ TurnEvent(e) /\ (e.type = "StepStart" <=> HeldBack)
      <3>1. e = buffer[1] /\ 1 \in DOMAIN buffer
        BY <2>1, <2>2, TailOf
      <3>2. QED
        BY <2>2, <2>3, <3>1 DEF HeldBack
    <2>5. ~HeldBack'
      <3>1. SUFFICES ASSUME Tail(buffer) # <<>> PROVE Tail(buffer)[1].type = "Chunk"
        BY <2>1 DEF HeldBack
      <3>2. Tail(buffer)[1] = buffer[2] /\ 2 \in DOMAIN buffer
        <4>1. Tail(buffer) \in Seq(Caused) /\ Len(Tail(buffer)) = Len(buffer) - 1
              /\ Len(buffer) \in Nat /\ DOMAIN buffer = 1..Len(buffer)
              /\ \A i \in 1..(Len(buffer) - 1) : Tail(buffer)[i] = buffer[i + 1]
          BY <2>2, TailOf
        <4>2. Len(Tail(buffer)) >= 1
          BY <3>1, <4>1, TailOf
        <4>3. QED
          BY <4>1, <4>2
      <3>3. QED
        BY <2>3, <3>2
    <2>6. ~Unstarted' /\ ~Between' /\ (HeldBack => Unstarted) /\ (~HeldBack => Inside)
      BY <1>7, <2>1, <2>5 DEF Unstarted, Between, Inside, Resuming, Streaming, BetweenSteps
    <2>7. e.type \in {"StepStart", "Chunk"}
      BY <2>4 DEF TurnEvent
    <2>8. SentSides(e)
      BY <2>4, <2>6, <2>7 DEF SentSides
    <2>9. SentEnds(e)
      BY <2>1, <2>7 DEF SentEnds, Ending, Resuming
    <2>10. QED
      BY <1>5, <2>8, <2>9
  <1>8. CASE pc \notin {"stepStart", "delta", "flush"}
    <2>1. /\ pc \in EmitPoints \ {"flush", "stepStart", "delta"}
          /\ e.type = Emits[pc] /\ e.step = step
      BY <1>1, <1>4, <1>8
    <2>2. SentEnds(e)
      <3>1. Emits[pc] = "StepStart" => pc = "stepStart"
        BY <2>1, SendTable
      <3>2. QED
        BY <1>3, <1>8, <2>1, <3>1, SendTable DEF SentEnds
    <2>3. ~TurnEvent(e)
      BY <1>8, <2>1, SendTable DEF TurnEvent
    <2>4. Unstarted' => Unstarted
      BY <1>3, <2>1, SideTable, SendTable DEF Unstarted
    <2>5. e.type = "Done" => Between
      <3>1. e.type = "Done" => pc \in {"done", "toolDone", "suspendDone"}
        BY <2>1, SendTable
      <3>2. pc \in {"done", "toolDone"} => pc \in BetweenSteps
        BY <2>1, SideTable
      <3>3. QED
        BY <1>1, <3>1, <3>2 DEF Between
    <2>6. e.type = "StepEnd" <=> pc \in {"textEnd", "toolEnd", "suspendEnd"}
      BY <2>1, SendTable
    <2>7. e.type = "StepEnd" => Inside
      BY <2>1, <2>6, SideTable DEF Inside
    <2>8. Between' => Between \/ e.type = "StepEnd"
      BY <1>3, <2>1, <2>4, <2>6, SideTable DEF Between
    <2>9. Inside' => Inside /\ e.type # "StepEnd"
      BY <1>3, <2>1, <2>6, SideTable DEF Inside
    <2>10. e.type # "StepStart"
      BY <2>3 DEF TurnEvent
    <2>11. SentSides(e)
      BY <2>1, <2>3, <2>4, <2>5, <2>7, <2>8, <2>9, <2>10 DEF SentSides
    <2>12. QED
      BY <1>5, <2>2, <2>11
  <1>9. QED
    BY <1>6, <1>7, <1>8

-----------------------------------------------------------------------------
(* What the steps show. *)

LEMMA Sent ==
    ASSUME IndInv, NEW e \in Events, ch' = Append(ch, e), delivered' = delivered
    PROVE  Shown' = Shown \cup {e}
  <1>1. /\ DOMAIN ch' = 1..(Len(ch) + 1) /\ DOMAIN ch = 1..Len(ch) /\ Len(ch) \in Nat
        /\ \A i \in 1..Len(ch) : ch'[i] = ch[i]
        /\ ch'[Len(ch) + 1] = e
    BY ChannelTyped, Appended
  <1>2. {ch'[i] : i \in DOMAIN ch'} = {ch[i] : i \in DOMAIN ch} \cup {e}
    <2>1. ASSUME NEW i \in DOMAIN ch' PROVE ch'[i] \in {ch[j] : j \in DOMAIN ch} \cup {e}
      <3>1. CASE i = Len(ch) + 1
        BY <1>1, <3>1
      <3>2. CASE i # Len(ch) + 1
        <4>1. i \in DOMAIN ch
          BY <1>1, <2>1, <3>2
        <4>2. QED
          BY <1>1, <4>1
      <3>3. QED
        BY <3>1, <3>2
    <2>2. ASSUME NEW i \in DOMAIN ch PROVE ch[i] \in {ch'[j] : j \in DOMAIN ch'}
      <3>1. i \in DOMAIN ch' /\ ch[i] = ch'[i]
        BY <1>1, <2>2
      <3>2. QED
        BY <3>1
    <2>3. e \in {ch'[j] : j \in DOMAIN ch'}
      <3>1. Len(ch) + 1 \in DOMAIN ch'
        BY <1>1
      <3>2. QED
        BY <1>1, <3>1
    <2>4. QED
      BY <2>1, <2>2, <2>3
  <1>3. QED
    BY <1>2 DEF Shown

LEMMA Dropped ==
    ASSUME IndInv, ch # <<>>, ch' = Tail(ch), delivered' = delivered
    PROVE  Shown' \subseteq Shown
  <1>1. /\ DOMAIN ch' = 1..(Len(ch) - 1) /\ DOMAIN ch = 1..Len(ch) /\ Len(ch) \in Nat
        /\ \A i \in 1..(Len(ch) - 1) : ch'[i] = ch[i + 1]
    BY ChannelTyped, TailOf
  <1>2. ASSUME NEW i \in DOMAIN ch' PROVE ch'[i] \in {ch[j] : j \in DOMAIN ch}
    <2>1. i + 1 \in DOMAIN ch /\ ch'[i] = ch[i + 1]
      BY <1>1, <1>2
    <2>2. QED
      BY <2>1
  <1>3. QED
    BY <1>2 DEF Shown

LEMMA Taken ==
    ASSUME IndInv, TakeEvent
    PROVE  Shown' = Shown
  <1>1. ch # <<>> /\ ch' = Tail(ch) /\ delivered' = Append(delivered, Head(ch))
    BY DEF TakeEvent
  <1>2. /\ DOMAIN ch' = 1..(Len(ch) - 1) /\ DOMAIN ch = 1..Len(ch)
        /\ Len(ch) \in Nat /\ Len(ch) >= 1
        /\ \A i \in 1..(Len(ch) - 1) : ch'[i] = ch[i + 1]
        /\ Head(ch) = ch[1] /\ Head(ch) \in Events
    BY <1>1, ChannelTyped, TailOf
  <1>3. /\ DOMAIN delivered' = 1..(Len(delivered) + 1) /\ DOMAIN delivered = 1..Len(delivered)
        /\ Len(delivered) \in Nat
        /\ \A i \in 1..Len(delivered) : delivered'[i] = delivered[i]
        /\ delivered'[Len(delivered) + 1] = ch[1]
    BY <1>1, <1>2, ChannelTyped, Appended
  <1>4. Shown' \subseteq Shown
    <2>1. ASSUME NEW i \in DOMAIN ch' PROVE ch'[i] \in {ch[j] : j \in DOMAIN ch}
      <3>1. i + 1 \in DOMAIN ch /\ ch'[i] = ch[i + 1]
        BY <1>2, <2>1
      <3>2. QED
        BY <3>1
    <2>2. ASSUME NEW i \in DOMAIN delivered' PROVE delivered'[i] \in Shown
      <3>1. CASE i = Len(delivered) + 1
        <4>1. 1 \in DOMAIN ch /\ delivered'[i] = ch[1]
          BY <1>2, <1>3, <3>1
        <4>2. QED
          BY <4>1 DEF Shown
      <3>2. CASE i # Len(delivered) + 1
        <4>1. i \in DOMAIN delivered /\ delivered'[i] = delivered[i]
          BY <1>3, <2>2, <3>2
        <4>2. QED
          BY <4>1 DEF Shown
      <3>3. QED
        BY <3>1, <3>2
    <2>3. QED
      BY <2>1, <2>2 DEF Shown
  <1>5. Shown \subseteq Shown'
    <2>1. ASSUME NEW i \in DOMAIN ch PROVE ch[i] \in Shown'
      <3>1. CASE i = 1
        <4>1. Len(delivered) + 1 \in DOMAIN delivered' /\ ch[i] = delivered'[Len(delivered) + 1]
          BY <1>3, <3>1
        <4>2. QED
          BY <4>1 DEF Shown
      <3>2. CASE i # 1
        <4>1. i - 1 \in DOMAIN ch' /\ ch[i] = ch'[i - 1]
          BY <1>2, <2>1, <3>2
        <4>2. QED
          BY <4>1 DEF Shown
      <3>3. QED
        BY <3>1, <3>2
    <2>2. ASSUME NEW i \in DOMAIN delivered PROVE delivered[i] \in Shown'
      <3>1. i \in DOMAIN delivered' /\ delivered[i] = delivered'[i]
        BY <1>3, <2>2
      <3>2. QED
        BY <3>1 DEF Shown
    <2>3. QED
      BY <2>1, <2>2 DEF Shown
  <1>6. QED
    BY <1>4, <1>5

(* The consumer and the driver's last resort, in the terms of the invariants. *)
LEMMA ConsumerKeeps ==
    ASSUME IndInv, ConsumerNext
    PROVE  /\ pc' = pc /\ pend' = pend /\ lost' = lost /\ step' = step /\ rejected' = rejected
           /\ hookErr' = hookErr /\ (cancelled => cancelled')
           /\ (Unstarted' <=> Unstarted)
           /\ Shown' \subseteq Shown
  <1>1. UNCHANGED driverVars /\ (cancelled => cancelled')
    BY DEF ConsumerNext, Receive, ReceiveError, Break, BodyPanics, TakeEvent, Drain, FinishRange
  <1>2. Unstarted' <=> Unstarted
    BY <1>1 DEF driverVars, turnVars, Unstarted, HeldBack
  <1>3. Shown' \subseteq Shown
    <2>1. CASE TakeEvent
      BY <2>1, Taken
    <2>2. CASE Drain
      BY <2>2, Dropped DEF Drain, consumerVars
    <2>3. CASE FinishRange
      BY <2>3 DEF FinishRange, Shown
    <2>4. QED
      BY <2>1, <2>2, <2>3 DEF ConsumerNext, Receive, ReceiveError, Break, BodyPanics
  <1>4. QED
    BY <1>1, <1>2, <1>3 DEF driverVars, budgetVars, errorVars

LEMMA DiscardKeeps ==
    ASSUME IndInv, DiscardOldest
    PROVE  /\ pc = "discard" /\ pc' = "fail" /\ ~Unstarted'
           /\ step' = step /\ rejected' = rejected
           /\ hookErr' = hookErr /\ cancelled' = cancelled
           /\ cons' = cons /\ runErr' = runErr /\ state' = state /\ delivered' = delivered
           /\ ch' = ch \/ (ch # <<>> /\ ch' = Tail(ch))
           /\ Shown' \subseteq Shown
  <1>1. /\ pc = "discard" /\ pc' = "fail" /\ ~Unstarted'
        /\ step' = step /\ rejected' = rejected
        /\ hookErr' = hookErr /\ cancelled' = cancelled
        /\ cons' = cons /\ runErr' = runErr /\ state' = state /\ delivered' = delivered
        /\ ch' = ch \/ (ch # <<>> /\ ch' = Tail(ch))
    BY DEF DiscardOldest, Unstarted, Resuming, Streaming, budgetVars, errorVars, consumerVars
  <1>2. Shown' \subseteq Shown
    BY <1>1, Dropped DEF Shown
  <1>3. QED
    BY <1>1, <1>2

TerminalError == [type |-> "Error", step |-> step, cause |-> err]

LEMMA TerminalErrorSent ==
    ASSUME IndInv, SendTerminalError
    PROVE  /\ pc = "fail" /\ pc' = "return" /\ ~Unstarted'
           /\ TerminalError \in Events /\ ch' = Append(ch, TerminalError)
           /\ lost' = lost /\ step' = step /\ rejected' = rejected
           /\ hookErr' = hookErr /\ cancelled' = cancelled
           /\ cons' = cons /\ runErr' = runErr /\ state' = state /\ delivered' = delivered
           /\ Shown' = Shown \cup {TerminalError}
  <1>1. /\ pc = "fail" /\ pc' = "return" /\ ~Unstarted'
        /\ ch' = Append(ch, TerminalError)
        /\ lost' = lost /\ step' = step /\ rejected' = rejected
        /\ hookErr' = hookErr /\ cancelled' = cancelled
        /\ cons' = cons /\ runErr' = runErr /\ state' = state /\ delivered' = delivered
    BY DEF SendTerminalError, TerminalError, Unstarted, Resuming, Streaming, budgetVars,
           errorVars, consumerVars
  <1>2. TerminalError \in Events
    BY DEF TerminalError, Events, EventTypes, IndInv, DriverInv, TypesDriver
  <1>3. QED
    BY <1>1, <1>2, Sent

-----------------------------------------------------------------------------
(* A rejected turn stays invisible. *)

LEMMA ShownKept ==
    ASSUME IndInv, BufferInv, ShownInv, [Next]_vars
    PROVE  ShownInv'
  <1>1. step \in Nat /\ (\A n \in rejected : n \in Nat) /\ (\A e \in Shown : e.step \in Nat)
    <2>1. step \in Nat /\ \A n \in rejected : n \in Nat
      BY AgentRunAssumption DEF IndInv, DriverInv, TypesDriver
    <2>2. \A e \in Events : e.step \in Nat
      BY AgentRunAssumption DEF Events
    <2>3. \A e \in Shown : e \in Events
      BY ChannelTyped DEF Shown
    <2>4. QED
      BY <2>1, <2>2, <2>3
  <1>2. CASE Flow
    <2>1. Shown' = Shown
      BY <1>2 DEF Flow, Quiet, Shown
    <2>2. CASE rejected' = rejected
      BY <1>1, <1>2, <2>1, <2>2 DEF Flow, TurnFlow, ShownInv
    <2>3. CASE rejected' # rejected
      <3>1. rejected' = rejected \cup {step} /\ Unstarted /\ step' = step + 1
        BY <1>2, <2>3 DEF Flow, TurnFlow
      <3>2. QED
        BY <1>1, <2>1, <3>1 DEF ShownInv
    <2>4. QED
      BY <2>2, <2>3
  <1>3. CASE Send
    <2> DEFINE e == EventAt(pc)
    <2>1. SentOnce(e) /\ SentSides(e)
      BY <1>3, SendFlow
    <2> HIDE DEF e
    <2>2. Shown' = Shown \cup {e} /\ step' = step /\ rejected' = rejected
      BY <2>1, Sent DEF SentOnce
    <2>3. TurnEvent(e) => e.step = step /\ ~Unstarted'
      BY <2>1 DEF SentSides
    <2>4. Unstarted' => Unstarted
      BY <2>1 DEF SentSides
    <2>5. QED
      BY <1>1, <2>2, <2>3, <2>4 DEF ShownInv
  <1>4. CASE SendTerminalError
    <2>1. ~TurnEvent(TerminalError)
      BY DEF TurnEvent, TerminalError
    <2>2. QED
      BY <1>4, <2>1, TerminalErrorSent DEF ShownInv
  <1>5. CASE DiscardOldest
    BY <1>5, DiscardKeeps DEF ShownInv
  <1>6. CASE ConsumerNext
    BY <1>6, ConsumerKeeps DEF ShownInv
  <1>7. QED
    BY <1>2, <1>3, <1>4, <1>5, <1>6, StepKinds

-----------------------------------------------------------------------------
(* Done and Error are last. *)

LEMMA NoDone == ASSUME ~ShownType("Done") PROVE DoneInv
  <1>1. /\ \A i \in DOMAIN delivered : delivered[i] \in Shown
        /\ \A i \in DOMAIN ch : ch[i] \in Shown
    BY DEF Shown
  <1>2. /\ \A i \in DOMAIN delivered : delivered[i].type # "Done"
        /\ \A i \in DOMAIN ch : ch[i].type # "Done"
    BY <1>1 DEF ShownType
  <1>3. QED
    BY <1>2 DEF DoneInv

LEMMA DoneSent ==
    ASSUME IndInv, BufferInv, DoneInv, Send
    PROVE  DoneInv'
  <1> DEFINE e == EventAt(pc)
  <1>1. SentOnce(e) /\ SentEnds(e)
    BY SendFlow
  <1> HIDE DEF e
  <1>2. ~ShownType("Done")
    BY <1>1 DEF SentOnce, DoneInv
  <1>3. Shown' = Shown \cup {e}
    BY <1>1, Sent DEF SentOnce
  <1>4. CASE e.type # "Done"
    <2>1. ~ShownType("Done")'
      BY <1>2, <1>3, <1>4 DEF ShownType
    <2>2. /\ \A i \in DOMAIN delivered' : delivered'[i] \in Shown'
          /\ \A i \in DOMAIN ch' : ch'[i] \in Shown'
      BY DEF Shown
    <2>3. /\ \A i \in DOMAIN delivered' : delivered'[i].type # "Done"
          /\ \A i \in DOMAIN ch' : ch'[i].type # "Done"
      BY <2>1, <2>2 DEF ShownType
    <2>4. QED
      BY <2>1, <2>3 DEF DoneInv
  <1>5. CASE e.type = "Done"
    <2>1. pc' \in Ending /\ ~hookErr' /\ pc' \notin {"fail", "discard"}
      BY <1>1, <1>5 DEF SentOnce, SentEnds, Ending
    <2>2. \A i \in DOMAIN delivered' : delivered'[i].type # "Done"
      BY <1>1, <1>2 DEF SentOnce, ShownType, Shown
    <2>3. \A i \in DOMAIN ch : ch[i].type # "Done"
      BY <1>2 DEF ShownType, Shown
    <2>4. /\ DOMAIN ch' = 1..(Len(ch) + 1) /\ DOMAIN ch = 1..Len(ch) /\ Len(ch) \in Nat
          /\ \A i \in 1..Len(ch) : ch'[i] = ch[i]
          /\ Len(ch') = Len(ch) + 1
      BY <1>1, ChannelTyped, Appended DEF SentOnce
    <2>5. \A i \in DOMAIN ch' : ch'[i].type = "Done" => i = Len(ch')
      BY <2>3, <2>4
    <2>6. QED
      BY <2>1, <2>2, <2>5 DEF DoneInv
  <1>6. QED
    BY <1>4, <1>5

LEMMA DoneBeforeError ==
    ASSUME IndInv, DoneInv, SendTerminalError
    PROVE  DoneInv'
  <1>1. /\ pc = "fail" /\ pc' = "return"
        /\ TerminalError \in Events /\ ch' = Append(ch, TerminalError)
        /\ hookErr' = hookErr /\ cancelled' = cancelled /\ delivered' = delivered
        /\ Shown' = Shown \cup {TerminalError}
    BY TerminalErrorSent
  <1>2. TerminalError.type = "Error"
    BY DEF TerminalError
  <1>3. /\ DOMAIN ch' = 1..(Len(ch) + 1) /\ DOMAIN ch = 1..Len(ch) /\ Len(ch) \in Nat
        /\ \A i \in 1..Len(ch) : ch'[i] = ch[i]
        /\ Len(ch') = Len(ch) + 1 /\ ch'[Len(ch) + 1] = TerminalError
    BY <1>1, ChannelTyped, Appended
  <1>4. ShownType("Done")' <=> ShownType("Done")
    BY <1>1, <1>2 DEF ShownType
  <1>5. ShownType("Done") => ~hookErr' /\ cancelled'
    BY <1>1 DEF DoneInv
  <1>6. ASSUME NEW i \in DOMAIN delivered', delivered'[i].type = "Done"
        PROVE  /\ i = Len(delivered') /\ Len(ch') = 1 /\ ch'[1].type = "Error" /\ cancelled'
    <2>1. ShownType("Done")
      BY <1>1, <1>6 DEF ShownType, Shown
    <2>2. i = Len(delivered) /\ ch = <<>>
      BY <1>1, <1>6 DEF DoneInv
    <2>3. QED
      BY <1>1, <1>2, <1>3, <1>5, <2>1, <2>2
  <1>7. ASSUME NEW i \in DOMAIN ch', ch'[i].type = "Done"
        PROVE  i = Len(ch') - 1 /\ ch'[Len(ch')].type = "Error" /\ cancelled'
    <2>1. i \in DOMAIN ch /\ ch[i].type = "Done"
      BY <1>2, <1>3, <1>7
    <2>2. i = Len(ch)
      BY <1>1, <2>1 DEF DoneInv
    <2>3. ShownType("Done")
      BY <2>1 DEF ShownType, Shown
    <2>4. QED
      BY <1>2, <1>3, <1>5, <2>2, <2>3
  <1>8. QED
    BY <1>1, <1>4, <1>5, <1>6, <1>7 DEF DoneInv, Ending

(* Where a Done may be, with the rest of the state put aside. *)
LEMMA DoneDropped ==
    ASSUME IndInv, DoneInv, ch # <<>>, ch' = Tail(ch), delivered' = delivered,
           cancelled => cancelled', pc' = pc \/ pc \notin {"return", "exited"}
    PROVE  /\ \A i \in DOMAIN delivered' : delivered'[i].type = "Done" =>
                /\ i = Len(delivered') /\ ch' = <<>>
           /\ \A i \in DOMAIN ch' : ch'[i].type = "Done" =>
                 \/ i = Len(ch')
                 \/ /\ i = Len(ch') - 1 /\ ch'[Len(ch')].type = "Error" /\ cancelled'
                    /\ pc' \in {"return", "exited"}
  <1>1. /\ DOMAIN ch' = 1..(Len(ch) - 1) /\ DOMAIN ch = 1..Len(ch) /\ Len(ch) \in Nat
        /\ Len(ch) >= 1 /\ Len(ch') = Len(ch) - 1
        /\ \A i \in 1..(Len(ch) - 1) : ch'[i] = ch[i + 1]
    BY ChannelTyped, TailOf
  <1>2. ASSUME NEW i \in DOMAIN delivered', delivered'[i].type = "Done"
        PROVE  i = Len(delivered') /\ ch' = <<>>
    <2>1. i = Len(delivered) /\ Len(ch) = 1
      BY <1>2 DEF DoneInv
    <2>2. ch' = <<>>
      BY <2>1, ChannelTyped
    <2>3. QED
      BY <2>1, <2>2
  <1>3. ASSUME NEW i \in DOMAIN ch', ch'[i].type = "Done"
        PROVE  \/ i = Len(ch')
               \/ /\ i = Len(ch') - 1 /\ ch'[Len(ch')].type = "Error" /\ cancelled'
                  /\ pc' \in {"return", "exited"}
    <2>1. i + 1 \in DOMAIN ch /\ ch[i + 1].type = "Done" /\ i \in Nat
      BY <1>1, <1>3
    <2>2. CASE i + 1 = Len(ch)
      BY <1>1, <2>1, <2>2
    <2>3. CASE i + 1 # Len(ch)
      <3>1. /\ i + 1 = Len(ch) - 1 /\ ch[Len(ch)].type = "Error" /\ cancelled
            /\ pc \in {"return", "exited"}
        BY <2>1, <2>3 DEF DoneInv
      <3>2. i = Len(ch') - 1 /\ ch'[Len(ch')] = ch[Len(ch)]
        BY <1>1, <2>1, <3>1
      <3>3. QED
        BY <3>1, <3>2
    <2>4. QED
      BY <2>2, <2>3
  <1>4. QED
    BY <1>2, <1>3

LEMMA DoneTaken ==
    ASSUME IndInv, DoneInv, TakeEvent, cancelled => cancelled'
    PROVE  DoneInv'
  <1>1. ch # <<>> /\ ch' = Tail(ch) /\ delivered' = Append(delivered, Head(ch))
        /\ pc' = pc /\ hookErr' = hookErr
    BY DEF TakeEvent, driverVars, errorVars
  <1>2. /\ DOMAIN ch' = 1..(Len(ch) - 1) /\ DOMAIN ch = 1..Len(ch)
        /\ Len(ch) \in Nat /\ Len(ch) >= 1 /\ Len(ch') = Len(ch) - 1
        /\ \A i \in 1..(Len(ch) - 1) : ch'[i] = ch[i + 1]
        /\ Head(ch) = ch[1] /\ Head(ch) \in Events
    BY <1>1, ChannelTyped, TailOf
  <1>3. /\ DOMAIN delivered' = 1..(Len(delivered) + 1) /\ DOMAIN delivered = 1..Len(delivered)
        /\ Len(delivered) \in Nat /\ Len(delivered') = Len(delivered) + 1
        /\ \A i \in 1..Len(delivered) : delivered'[i] = delivered[i]
        /\ delivered'[Len(delivered) + 1] = ch[1]
    BY <1>1, <1>2, ChannelTyped, Appended
  <1>4. Len(ch) = 1 => ch' = <<>>
    BY <1>1, ChannelTyped
  <1>5. ShownType("Done")' => /\ pc' \in Ending /\ ~hookErr'
                              /\ pc' \in {"fail", "discard"} => cancelled'
    BY <1>1, Taken DEF ShownType, DoneInv
  <1>6. ASSUME NEW i \in DOMAIN delivered', delivered'[i].type = "Done"
        PROVE  \/ /\ i = Len(delivered')
                  /\ \/ ch' = <<>>
                     \/ /\ Len(ch') = 1 /\ ch'[1].type = "Error" /\ cancelled'
                        /\ pc' \in {"return", "exited"}
               \/ /\ i = Len(delivered') - 1 /\ delivered'[Len(delivered')].type = "Error"
                  /\ ch' = <<>> /\ cancelled' /\ pc' \in {"return", "exited"}
    <2>1. CASE i = Len(delivered) + 1
      <3>1. 1 \in DOMAIN ch /\ ch[1].type = "Done"
        BY <1>2, <1>3, <1>6, <2>1
      <3>2. CASE Len(ch) = 1
        BY <1>3, <1>4, <2>1, <3>2
      <3>3. CASE Len(ch) # 1
        <4>1. 1 = Len(ch) - 1 /\ ch[Len(ch)].type = "Error" /\ cancelled
              /\ pc \in {"return", "exited"}
          BY <3>1, <3>3 DEF DoneInv
        <4>2. Len(ch) = 2 /\ Len(ch') = 1 /\ 1 \in 1..(Len(ch) - 1)
          <5>1. 1 = Len(ch) - 1 /\ Len(ch) \in Nat /\ Len(ch') = Len(ch) - 1
            BY <1>2, <4>1
          <5>2. QED
            BY <5>1
        <4>3. ch'[1] = ch[2] /\ cancelled'
          BY <1>2, <4>1, <4>2
        <4>4. QED
          BY <1>1, <1>3, <2>1, <4>1, <4>2, <4>3
      <3>4. QED
        BY <3>2, <3>3
    <2>2. CASE i # Len(delivered) + 1
      <3>1. i \in DOMAIN delivered /\ delivered[i].type = "Done"
        BY <1>3, <1>6, <2>2
      <3>2. /\ i = Len(delivered) /\ Len(ch) = 1 /\ ch[1].type = "Error" /\ cancelled
            /\ pc \in {"return", "exited"}
        BY <1>1, <3>1 DEF DoneInv
      <3>3. i = Len(delivered') - 1 /\ delivered'[Len(delivered')] = ch[1]
        BY <1>3, <3>2
      <3>4. QED
        BY <1>1, <1>4, <3>2, <3>3
    <2>3. QED
      BY <2>1, <2>2
  <1>7. \A i \in DOMAIN ch' : ch'[i].type = "Done" =>
           \/ i = Len(ch')
           \/ /\ i = Len(ch') - 1 /\ ch'[Len(ch')].type = "Error" /\ cancelled'
              /\ pc' \in {"return", "exited"}
    <2>1. ASSUME NEW i \in DOMAIN ch', ch'[i].type = "Done"
          PROVE  \/ i = Len(ch')
                 \/ /\ i = Len(ch') - 1 /\ ch'[Len(ch')].type = "Error" /\ cancelled'
                    /\ pc' \in {"return", "exited"}
      <3>1. i + 1 \in DOMAIN ch /\ ch[i + 1].type = "Done" /\ i \in Nat
        BY <1>2, <2>1
      <3>2. CASE i + 1 = Len(ch)
        BY <1>2, <3>1, <3>2
      <3>3. CASE i + 1 # Len(ch)
        <4>1. /\ i + 1 = Len(ch) - 1 /\ ch[Len(ch)].type = "Error" /\ cancelled
              /\ pc \in {"return", "exited"}
          BY <3>1, <3>3 DEF DoneInv
        <4>2. i = Len(ch') - 1 /\ ch'[Len(ch')] = ch[Len(ch)]
          BY <1>2, <3>1, <4>1
        <4>3. QED
          BY <1>1, <4>1, <4>2
      <3>4. QED
        BY <3>2, <3>3
    <2>2. QED
      BY <2>1
  <1>8. QED
    BY <1>5, <1>6, <1>7 DEF DoneInv

LEMMA DoneKept ==
    ASSUME IndInv, BufferInv, DoneInv, [Next]_vars
    PROVE  DoneInv'
  <1>1. CASE Flow
    <2>1. Shown' = Shown /\ ch' = ch /\ delivered' = delivered /\ (cancelled => cancelled')
      BY <1>1 DEF Flow, Quiet, Shown
    <2>2. ShownType("Done")' => ShownType("Done")
      BY <2>1 DEF ShownType
    <2>3. ShownType("Done") => /\ pc' \in Ending /\ ~hookErr'
                               /\ pc' \in {"fail", "discard"} => cancelled'
      BY <1>1, <2>1 DEF Flow, EndFlow, DoneInv
    <2>4. pc \in {"return", "exited"} => pc' \in {"return", "exited"}
      BY <1>1 DEF Flow, EndFlow
    <2>5. QED
      BY <2>1, <2>2, <2>3, <2>4 DEF DoneInv
  <1>2. CASE DiscardOldest
    <2>1. /\ pc = "discard" /\ pc' = "fail" /\ hookErr' = hookErr
          /\ cancelled' = cancelled /\ delivered' = delivered
          /\ ch' = ch \/ (ch # <<>> /\ ch' = Tail(ch))
          /\ Shown' \subseteq Shown
      BY <1>2, DiscardKeeps
    <2>2. ShownType("Done")' => ~hookErr' /\ cancelled'
      BY <2>1 DEF ShownType, DoneInv
    <2>3. CASE ch' = ch
      BY <2>1, <2>2, <2>3 DEF DoneInv, Ending
    <2>4. CASE ch # <<>> /\ ch' = Tail(ch)
      BY <2>1, <2>2, <2>4, DoneDropped DEF DoneInv, Ending
    <2>5. QED
      BY <2>1, <2>3, <2>4
  <1>3. CASE Drain \/ FinishRange
    <2>1. /\ pc' = pc /\ hookErr' = hookErr /\ (cancelled => cancelled')
          /\ delivered' = delivered
          /\ ch' = ch \/ (ch # <<>> /\ ch' = Tail(ch))
          /\ Shown' \subseteq Shown
      BY <1>3, ConsumerKeeps DEF Drain, FinishRange, ConsumerNext, consumerVars
    <2>2. ShownType("Done")' => /\ pc' \in Ending /\ ~hookErr'
                                /\ pc' \in {"fail", "discard"} => cancelled'
      BY <2>1 DEF ShownType, DoneInv
    <2>3. CASE ch' = ch
      BY <2>1, <2>2, <2>3 DEF DoneInv
    <2>4. CASE ch # <<>> /\ ch' = Tail(ch)
      BY <2>1, <2>2, <2>4, DoneDropped DEF DoneInv
    <2>5. QED
      BY <2>1, <2>3, <2>4
  <1>4. CASE Receive \/ ReceiveError \/ Break \/ BodyPanics
    BY <1>4, DoneTaken DEF Receive, ReceiveError, Break, BodyPanics
  <1>5. QED
    BY <1>1, <1>2, <1>3, <1>4, StepKinds, DoneSent, DoneBeforeError DEF ConsumerNext

LEMMA ErrorKept ==
    ASSUME IndInv, BufferInv, ErrorInv, [Next]_vars
    PROVE  ErrorInv'
  <1>1. CASE Flow \/ Send \/ SendTerminalError \/ DiscardOldest
    <2>1. delivered' = delivered /\ cons' = cons
      BY <1>1, SendFlow, TerminalErrorSent, DiscardKeeps DEF Flow, Quiet, SentOnce
    <2>2. QED
      BY <2>1 DEF ErrorInv
  <1>2. CASE Drain \/ FinishRange
    BY <1>2 DEF Drain, FinishRange, consumerVars, ErrorInv
  <1>3. CASE Receive \/ ReceiveError \/ Break \/ BodyPanics
    <2>1. TakeEvent /\ (Head(ch).type = "Error" => cons' # "ranging")
      BY <1>3 DEF Receive, ReceiveError, Break, BodyPanics
    <2>2. cons = "ranging" /\ ch # <<>> /\ delivered' = Append(delivered, Head(ch))
      BY <2>1 DEF TakeEvent
    <2>3. Head(ch) \in Events
      BY <2>2, ChannelTyped, TailOf
    <2>4. /\ DOMAIN delivered' = 1..(Len(delivered) + 1) /\ DOMAIN delivered = 1..Len(delivered)
          /\ Len(delivered) \in Nat /\ Len(delivered') = Len(delivered) + 1
          /\ \A i \in 1..Len(delivered) : delivered'[i] = delivered[i]
          /\ delivered'[Len(delivered) + 1] = Head(ch)
      BY <2>2, <2>3, ChannelTyped, Appended
    <2>5. \A i \in DOMAIN delivered : delivered[i].type # "Error"
      BY <2>2 DEF ErrorInv
    <2>6. QED
      BY <2>1, <2>4, <2>5 DEF ErrorInv
  <1>4. QED
    BY <1>1, <1>2, <1>3, StepKinds DEF ConsumerNext

-----------------------------------------------------------------------------
(* How a run ends, and what its consumer has seen by then. *)

LEMMA EndByDriver ==
    ASSUME IndInv, BufferInv, EndInv, Flow \/ Send \/ SendTerminalError \/ DiscardOldest
    PROVE  EndInv'
  <1>1. cons' = cons /\ runErr' = runErr /\ state' = state /\ delivered' = delivered
        /\ (cancelled => cancelled') /\ (hookErr => hookErr')
    BY SendFlow, TerminalErrorSent, DiscardKeeps DEF Flow, Quiet, SentOnce
  <1>2. /\ cons' = "draining" /\ runErr' = "none" => Seen("Done", delivered')
        /\ state' = "Completed" /\ Seen("StepStart", delivered') => Seen("Done", delivered')
        /\ cons' = "ranging" => runErr' = "none"
    BY <1>1 DEF EndInv
  <1>3. CASE Flow
    <2>1. Shown' = Shown
      BY <1>3 DEF Flow, Quiet, Shown
    <2>2. \A type : ShownType(type)' <=> ShownType(type)
      BY <2>1 DEF ShownType
    <2>3. pc' \in Resuming => ~ShownType("StepStart")'
      BY <1>3, <2>2 DEF Flow, EndFlow, EndInv
    <2>4. ASSUME cons' = "ranging", pc' = "stop"
          PROVE  ShownType("Error")' \/ ShownType("Done")' \/ cancelled' \/ hookErr'
      <3>1. pc = "stop" \/ cancelled' \/ hookErr'
        BY <1>3, <2>4 DEF Flow, EndFlow
      <3>2. QED
        BY <1>1, <2>2, <2>4, <3>1 DEF EndInv
    <2>5. ASSUME cons' = "ranging", pc' \in {"return", "exited"}
          PROVE  ShownType("Error")' \/ ShownType("Done")' \/ ~ShownType("StepStart")'
      <3>1. \/ pc \in {"return", "exited"} \/ pc \in Resuming
            \/ pc = "stop" /\ ~cancelled /\ ~hookErr
        BY <1>3, <2>5 DEF Flow, EndFlow
      <3>2. QED
        BY <1>1, <2>2, <2>5, <3>1 DEF EndInv
    <2>6. QED
      BY <1>2, <2>3, <2>4, <2>5 DEF EndInv
  <1>4. CASE Send
    <2> DEFINE e == EventAt(pc)
    <2>1. SentOnce(e) /\ SentEnds(e)
      BY <1>4, SendFlow
    <2> HIDE DEF e
    <2>2. Shown' = Shown \cup {e}
      BY <2>1, Sent DEF SentOnce
    <2>3. pc' \in Resuming => ~ShownType("StepStart")'
      BY <2>1, <2>2 DEF SentEnds, ShownType, EndInv
    <2>4. pc' \in Ending => ShownType("Error")' \/ ShownType("Done")'
      BY <2>1, <2>2 DEF SentEnds, ShownType
    <2>5. QED
      BY <1>2, <2>3, <2>4 DEF EndInv, Ending
  <1>5. CASE SendTerminalError
    <2>1. pc' = "return" /\ Shown' = Shown \cup {TerminalError}
      BY <1>5, TerminalErrorSent
    <2>2. ShownType("Error")'
      <3>1. TerminalError.type = "Error"
        BY DEF TerminalError
      <3>2. QED
        BY <2>1, <3>1 DEF ShownType
    <2>3. QED
      BY <1>2, <2>1, <2>2 DEF EndInv, Resuming
  <1>6. CASE DiscardOldest
    <2>1. pc' = "fail"
      BY <1>6, DiscardKeeps
    <2>2. QED
      BY <1>2, <2>1 DEF EndInv, Resuming
  <1>7. QED
    BY <1>3, <1>4, <1>5, <1>6

LEMMA EndByConsumer ==
    ASSUME IndInv, ErrorInv, EndInv, ConsumerNext
    PROVE  EndInv'
  <1>1. pc' = pc /\ Shown' \subseteq Shown /\ (cancelled => cancelled')
        /\ (hookErr => hookErr')
    BY ConsumerKeeps
  <1>2. pc' \in Resuming => ~ShownType("StepStart")'
    BY <1>1 DEF ShownType, EndInv
  <1>3. cons = "finished" <=> state # "NotDrained"
    BY DEF IndInv, OutcomeMatchesError
  <1>4. CASE Receive
    <2>1. cons = "ranging" /\ cons' = cons /\ runErr' = runErr /\ state' = "NotDrained"
          /\ Shown' = Shown /\ (cancelled' <=> cancelled)
      BY <1>3, <1>4, Taken DEF Receive, TakeEvent
    <2>2. \A type : ShownType(type)' <=> ShownType(type)
      BY <2>1 DEF ShownType
    <2>3. QED
      BY <1>1, <1>2, <2>1, <2>2 DEF EndInv
  <1>5. CASE ReceiveError \/ Break \/ BodyPanics
    <2>1. /\ cons' \in {"draining", "finished"} /\ state' # "Completed"
          /\ ch # <<>>
      BY <1>3, <1>5 DEF ReceiveError, Break, BodyPanics, TakeEvent
    <2>2. cons' = "draining" /\ runErr' = "none" => Seen("Done", delivered')
      <3>1. CASE ReceiveError
        <4>1. Head(ch) \in Caused
          BY <2>1, ChannelTyped, TailOf
        <4>2. QED
          BY <3>1, <4>1 DEF ReceiveError, Caused
      <3>2. CASE Break
        BY <3>2 DEF Break
      <3>3. CASE BodyPanics
        BY <3>3 DEF BodyPanics
      <3>4. QED
        BY <1>5, <3>1, <3>2, <3>3
    <2>3. QED
      BY <1>2, <2>1, <2>2 DEF EndInv
  <1>6. CASE Drain
    <2>1. cons' = "draining" /\ cons = "draining" /\ runErr' = runErr /\ state' = state
          /\ delivered' = delivered
      BY <1>6 DEF Drain, consumerVars
    <2>2. QED
      BY <1>2, <2>1 DEF EndInv
  <1>7. CASE FinishRange
    <2>1. /\ cons # "finished" /\ cons' = "finished" /\ ch = <<>> /\ pc = "exited"
          /\ delivered' = delivered /\ (state' = "Completed" => runErr = "none")
      BY <1>7 DEF FinishRange
    <2>2. ASSUME state' = "Completed", Seen("StepStart", delivered)
          PROVE  Seen("Done", delivered)
      <3>1. CASE cons = "draining"
        BY <2>1, <2>2, <3>1 DEF EndInv
      <3>2. CASE cons = "ranging"
        <4>1. ShownType("Error") \/ ShownType("Done") \/ ~ShownType("StepStart")
          BY <2>1, <3>2 DEF EndInv
        <4>2. Shown = {delivered[i] : i \in DOMAIN delivered}
          BY <2>1 DEF Shown
        <4>3. \A type : ShownType(type) <=> Seen(type, delivered)
          BY <4>2 DEF ShownType, Seen
        <4>4. ~Seen("Error", delivered)
          BY <3>2 DEF ErrorInv, Seen
        <4>5. QED
          BY <2>2, <4>1, <4>3, <4>4
      <3>3. QED
        BY <2>1, <3>1, <3>2 DEF IndInv, TypesConsumer
    <2>3. QED
      BY <1>2, <2>1, <2>2 DEF EndInv
  <1>8. QED
    BY <1>4, <1>5, <1>6, <1>7 DEF ConsumerNext

-----------------------------------------------------------------------------
(* The theorems about order and outcome. *)

OrderInv == BufferInv /\ ShownInv /\ DoneInv /\ ErrorInv /\ EndInv

LEMMA OrderInvariance == Spec => []OrderInv
  <1>1. Init => OrderInv
    <2> SUFFICES ASSUME Init PROVE OrderInv
      OBVIOUS
    <2>1. Shown = {} /\ pc = "resume" /\ pend = NoEvent /\ rejected = {} /\ delivered = <<>>
          /\ ch = <<>> /\ runErr = "none" /\ state = "NotDrained" /\ cons = "ranging"
      BY DEF Init, Shown
    <2>2. BufferInv
      BY <2>1 DEF BufferInv, Streaming
    <2>3. ShownInv /\ DoneInv /\ ErrorInv /\ EndInv
      BY <2>1 DEF ShownInv, DoneInv, ErrorInv, EndInv, ShownType
    <2>4. QED
      BY <2>2, <2>3 DEF OrderInv
  <1>2. IndInv /\ OrderInv /\ [Next]_vars => OrderInv'
    BY BufferKept, ShownKept, DoneKept, ErrorKept, EndByDriver, EndByConsumer, StepKinds
    DEF OrderInv
  <1>3. QED
    BY <1>1, <1>2, Invariance, PTL DEF Spec

LEMMA EmittedAt ==
    ASSUME IndInv
    PROVE  /\ Len(Emitted) = Len(delivered) + Len(ch)
           /\ Len(delivered) \in Nat /\ Len(ch) \in Nat
           /\ DOMAIN delivered = 1..Len(delivered) /\ DOMAIN ch = 1..Len(ch)
           /\ \A i \in 1..Len(Emitted) :
                Emitted[i] = IF i <= Len(delivered) THEN delivered[i] ELSE ch[i - Len(delivered)]
  BY ChannelTyped DEF Emitted

(* No StepStart and no chunk of a turn that a ModelTurnHook rejected ever   *)
(* reaches the channel: the events of a turn are held back until the hook   *)
(* has accepted it.                                                         *)
THEOREM RejectedTurnsAreHidden == Spec => []RejectedTurnsInvisible
  <1>1. IndInv /\ OrderInv => RejectedTurnsInvisible
    <2> SUFFICES ASSUME IndInv, ShownInv, NEW i \in 1..Len(Emitted),
                        Emitted[i].type \in {"StepStart", "Chunk"}
                 PROVE  Emitted[i].step \notin rejected
      BY DEF OrderInv, RejectedTurnsInvisible
    <2>1. Emitted[i] \in Shown
      <3>1. CASE i <= Len(delivered)
        <4>1. i \in DOMAIN delivered /\ Emitted[i] = delivered[i]
          BY <3>1, EmittedAt
        <4>2. QED
          BY <4>1 DEF Shown
      <3>2. CASE ~(i <= Len(delivered))
        <4>1. i - Len(delivered) \in DOMAIN ch /\ Emitted[i] = ch[i - Len(delivered)]
          BY <3>2, EmittedAt
        <4>2. QED
          BY <4>1 DEF Shown
      <3>3. QED
        BY <3>1, <3>2
    <2>2. QED
      BY <2>1 DEF ShownInv, TurnEvent
  <1>2. QED
    BY <1>1, OrderInvariance, Invariance, PTL

(* An Error is the last thing the consumer takes, and after Done comes at   *)
(* most the error of a context that ended while Done was on its way.        *)
THEOREM TerminalEventsAreLast == Spec => []TerminalOrder
  <1>1. IndInv /\ OrderInv => TerminalOrder
    <2> SUFFICES ASSUME IndInv, DoneInv, ErrorInv, NEW i \in 1..Len(Emitted)
                 PROVE  /\ Emitted[i].type = "Error" => i >= Len(delivered)
                        /\ Emitted[i].type = "Done" /\ i < Len(Emitted) =>
                             cancelled /\ Emitted[i + 1].type = "Error"
      BY DEF OrderInv, TerminalOrder
    <2>1. CASE i <= Len(delivered)
      <3>1. i \in DOMAIN delivered /\ Emitted[i] = delivered[i]
        BY <2>1, EmittedAt
      <3>2. Emitted[i].type = "Error" => i >= Len(delivered)
        BY <3>1, EmittedAt DEF ErrorInv
      <3>3. ASSUME Emitted[i].type = "Done", i < Len(Emitted)
            PROVE  cancelled /\ Emitted[i + 1].type = "Error"
        <4>1. CASE i = Len(delivered)
          <5>1. ch # <<>>
            BY <3>3, <4>1, EmittedAt
          <5>2. Len(ch) = 1 /\ ch[1].type = "Error" /\ cancelled
            BY <3>1, <3>3, <4>1, <5>1, EmittedAt DEF DoneInv
          <5>3. Emitted[i + 1] = ch[1]
            BY <4>1, <5>2, EmittedAt
          <5>4. QED
            BY <5>2, <5>3
        <4>2. CASE i # Len(delivered)
          <5>1. i = Len(delivered) - 1 /\ delivered[Len(delivered)].type = "Error" /\ cancelled
            BY <3>1, <3>3, <4>2 DEF DoneInv
          <5>2. Emitted[i + 1] = delivered[Len(delivered)]
            BY <3>3, <5>1, EmittedAt
          <5>3. QED
            BY <5>1, <5>2
        <4>3. QED
          BY <4>1, <4>2
      <3>4. QED
        BY <3>2, <3>3
    <2>2. CASE ~(i <= Len(delivered))
      <3>1. i - Len(delivered) \in DOMAIN ch /\ Emitted[i] = ch[i - Len(delivered)]
        BY <2>2, EmittedAt
      <3>2. ASSUME Emitted[i].type = "Done", i < Len(Emitted)
            PROVE  cancelled /\ Emitted[i + 1].type = "Error"
        <4>1. i - Len(delivered) # Len(ch)
          BY <2>2, <3>2, EmittedAt
        <4>2. i - Len(delivered) = Len(ch) - 1 /\ ch[Len(ch)].type = "Error" /\ cancelled
          BY <3>1, <3>2, <4>1 DEF DoneInv
        <4>3. Emitted[i + 1] = ch[Len(ch)]
          <5>1. /\ i + 1 \in 1..Len(Emitted) /\ ~(i + 1 <= Len(delivered))
                /\ i + 1 - Len(delivered) = Len(ch)
            BY <2>2, <3>2, <4>2, EmittedAt
          <5>2. QED
            BY <5>1, EmittedAt
        <4>4. QED
          BY <4>2, <4>3
      <3>3. QED
        BY <2>2, <3>2, EmittedAt
    <2>3. QED
      BY <2>1, <2>2
  <1>2. QED
    BY <1>1, OrderInvariance, Invariance, PTL

(* A run that is reported as StreamCompleted has shown its consumer Done,   *)
(* unless it ended before its first turn: no cancellation, hook failure,    *)
(* panic or early break is ever reported as a completed run.                *)
THEOREM CompletedRunsSayDone == Spec => []CompletedRunsAreDone
  <1>1. OrderInv => CompletedRunsAreDone
    BY DEF OrderInv, EndInv, CompletedRunsAreDone
  <1>2. QED
    BY <1>1, OrderInvariance, PTL

-----------------------------------------------------------------------------
(* Brackets, one event at a time. *)

LEMMA BracketsFinite ==
    ASSUME NEW s, NEW n \in Nat
    PROVE  /\ IsFiniteSet(Starts(s, n)) /\ IsFiniteSet(Ends(s, n))
           /\ Cardinality(Starts(s, n)) \in Nat /\ Cardinality(Ends(s, n)) \in Nat
  <1>1. IsFiniteSet(1..n)
    BY FS_Interval
  <1>2. Starts(s, n) \in SUBSET (1..n) /\ Ends(s, n) \in SUBSET (1..n)
    BY DEF Starts, Ends
  <1>3. IsFiniteSet(Starts(s, n)) /\ IsFiniteSet(Ends(s, n))
    BY <1>1, <1>2, FS_Subset
  <1>4. QED
    BY <1>3, FS_CardinalityType

(* Brackets depend on the events up to their place only. *)
LEMMA SameBrackets ==
    ASSUME NEW s, NEW t, NEW n \in Nat, \A i \in 1..n : s[i] = t[i]
    PROVE  Starts(s, n) = Starts(t, n) /\ Ends(s, n) = Ends(t, n)
  BY DEF Starts, Ends

LEMMA BracketedPrefix ==
    ASSUME NEW s \in Seq(Events), NEW t \in Seq(Events), Len(s) <= Len(t),
           \A i \in 1..Len(s) : s[i] = t[i], Bracketed(t)
    PROVE  Bracketed(s)
  <1> SUFFICES ASSUME NEW i \in 1..Len(s)
               PROVE  /\ s[i].type = "StepStart" =>
                           \A j \in Starts(s, i - 1) : s[j].step < s[i].step
                      /\ s[i].type = "StepEnd" =>
                           Balanced(s, i) /\ \E j \in Starts(s, i) : s[j].step = s[i].step
                      /\ s[i].type = "Done" => Balanced(s, i)
    BY DEF Bracketed
  <1>1. Len(s) \in Nat /\ Len(t) \in Nat
    OBVIOUS
  <1>2. /\ i \in 1..Len(t) /\ i \in Nat /\ i - 1 \in Nat /\ s[i] = t[i]
        /\ (\A j \in 1..i : s[j] = t[j]) /\ (\A j \in 1..(i - 1) : s[j] = t[j])
    BY <1>1
  <1>3. /\ Starts(s, i) = Starts(t, i) /\ Ends(s, i) = Ends(t, i)
        /\ Starts(s, i - 1) = Starts(t, i - 1)
    BY <1>2, SameBrackets
  <1>4. /\ \A j \in Starts(s, i) : s[j] = t[j]
        /\ \A j \in Starts(s, i - 1) : s[j] = t[j]
    BY <1>2 DEF Starts
  <1>5. /\ t[i].type = "StepStart" => \A j \in Starts(t, i - 1) : t[j].step < t[i].step
        /\ t[i].type = "StepEnd" => Balanced(t, i) /\ \E j \in Starts(t, i) : t[j].step = t[i].step
        /\ t[i].type = "Done" => Balanced(t, i)
    BY <1>2 DEF Bracketed
  <1>6. Balanced(s, i) <=> Balanced(t, i)
    BY <1>3 DEF Balanced
  <1>7. QED
    BY <1>2, <1>3, <1>4, <1>5, <1>6

(* What one more event does to the brackets. *)
LEMMA BracketsGrow ==
    ASSUME NEW s \in Seq(Events), NEW e \in Events, NEW m, Bracketed(s),
           e.type = "StepStart" => \A j \in Starts(s, Len(s)) : s[j].step < e.step,
           e.type = "StepEnd" => Open(s, m) /\ e.step = m,
           e.type = "Done" => Closed(s)
    PROVE  /\ Bracketed(Append(s, e))
           /\ e.type \notin {"StepStart", "StepEnd"} =>
                (Closed(s) => Closed(Append(s, e))) /\ (Open(s, m) => Open(Append(s, e), m))
           /\ e.type = "StepStart" /\ e.step = m /\ Closed(s) => Open(Append(s, e), m)
           /\ e.type = "StepEnd" => Closed(Append(s, e))
  <1> SUFFICES ASSUME NEW n, n = Len(s), NEW t, t = Append(s, e)
               PROVE  /\ Bracketed(t)
                      /\ e.type \notin {"StepStart", "StepEnd"} =>
                           (Closed(s) => Closed(t)) /\ (Open(s, m) => Open(t, m))
                      /\ e.type = "StepStart" /\ e.step = m /\ Closed(s) => Open(t, m)
                      /\ e.type = "StepEnd" => Closed(t)
    OBVIOUS
  <1>1. /\ Len(t) = n + 1 /\ n \in Nat /\ t[n + 1] = e /\ \A i \in 1..n : t[i] = s[i]
        /\ Starts(t, n + 1) = IF e.type = "StepStart" THEN Starts(s, n) \cup {n + 1}
                              ELSE Starts(s, n)
        /\ Ends(t, n + 1) = IF e.type = "StepEnd" THEN Ends(s, n) \cup {n + 1} ELSE Ends(s, n)
        /\ Cardinality(Starts(t, n + 1)) =
             Cardinality(Starts(s, n)) + (IF e.type = "StepStart" THEN 1 ELSE 0)
        /\ Cardinality(Ends(t, n + 1)) =
             Cardinality(Ends(s, n)) + (IF e.type = "StepEnd" THEN 1 ELSE 0)
    <2>1. Len(t) = n + 1 /\ n \in Nat /\ t[n + 1] = e /\ \A i \in 1..n : t[i] = s[i]
      BY Appended
    <2>2. 1..(n + 1) = (1..n) \cup {n + 1}
      BY <2>1
    <2>3. Starts(t, n + 1) = IF e.type = "StepStart" THEN Starts(s, n) \cup {n + 1}
                             ELSE Starts(s, n)
      BY <2>1, <2>2 DEF Starts
    <2>4. Ends(t, n + 1) = IF e.type = "StepEnd" THEN Ends(s, n) \cup {n + 1} ELSE Ends(s, n)
      BY <2>1, <2>2 DEF Ends
    <2>5. n + 1 \notin Starts(s, n) /\ n + 1 \notin Ends(s, n)
      BY <2>1 DEF Starts, Ends
    <2>6. IsFiniteSet(Starts(s, n)) /\ IsFiniteSet(Ends(s, n))
          /\ Cardinality(Starts(s, n)) \in Nat /\ Cardinality(Ends(s, n)) \in Nat
      BY <2>1, BracketsFinite
    <2>7. /\ Cardinality(Starts(s, n) \cup {n + 1}) = Cardinality(Starts(s, n)) + 1
          /\ Cardinality(Ends(s, n) \cup {n + 1}) = Cardinality(Ends(s, n)) + 1
      BY <2>5, <2>6, FS_AddElement
    <2>8. QED
      BY <2>1, <2>3, <2>4, <2>6, <2>7
  <1>2. /\ Cardinality(Starts(s, n)) \in Nat /\ Cardinality(Ends(s, n)) \in Nat
    BY <1>1, BracketsFinite
  <1>3. \A j \in Starts(s, n) : t[j] = s[j]
    BY <1>1 DEF Starts
  <1>4. t[n + 1] = e
    BY <1>1
  <1>5. /\ Open(s, m) <=> /\ Cardinality(Starts(s, n)) = Cardinality(Ends(s, n)) + 1
                       /\ \E j \in Starts(s, n) : s[j].step = m
        /\ Closed(s) <=> Cardinality(Starts(s, n)) = Cardinality(Ends(s, n))
        /\ Open(t, m) <=> /\ Cardinality(Starts(t, n + 1)) = Cardinality(Ends(t, n + 1)) + 1
                       /\ \E j \in Starts(t, n + 1) : t[j].step = m
        /\ Closed(t) <=> Cardinality(Starts(t, n + 1)) = Cardinality(Ends(t, n + 1))
    BY <1>1 DEF Open, Closed, Balanced
  <1>6. /\ e.type \notin {"StepStart", "StepEnd"} =>
             (Closed(s) => Closed(t)) /\ (Open(s, m) => Open(t, m))
        /\ e.type = "StepStart" /\ e.step = m /\ Closed(s) => Open(t, m)
        /\ e.type = "StepEnd" => Closed(t)
    BY <1>1, <1>2, <1>3, <1>5
  <1>7. ASSUME NEW i \in 1..Len(t)
        PROVE  /\ t[i].type = "StepStart" => \A j \in Starts(t, i - 1) : t[j].step < t[i].step
               /\ t[i].type = "StepEnd" =>
                    Balanced(t, i) /\ \E j \in Starts(t, i) : t[j].step = t[i].step
               /\ t[i].type = "Done" => Balanced(t, i)
    <2>1. CASE i = n + 1
      <3>1. Starts(t, n) = Starts(s, n)
        BY <1>1, SameBrackets
      <3>2. i - 1 = n
        BY <1>1, <2>1
      <3>3. t[i].type = "StepStart" => \A j \in Starts(t, i - 1) : t[j].step < t[i].step
        BY <1>3, <1>4, <2>1, <3>1, <3>2
      <3>4. Closed(t) <=> Balanced(t, i)
        BY <1>1, <2>1 DEF Closed
      <3>5. t[i].type = "StepEnd" => Balanced(t, i) /\ \E j \in Starts(t, i) : t[j].step = t[i].step
        <4>1. SUFFICES ASSUME e.type = "StepEnd"
                       PROVE  Balanced(t, i) /\ \E j \in Starts(t, i) : t[j].step = e.step
          BY <1>4, <2>1
        <4>2. Open(s, m) /\ e.step = m
          BY <4>1
        <4>3. PICK j \in Starts(s, n) : s[j].step = m
          BY <4>2, <1>5
        <4>4. j \in Starts(t, i) /\ t[j] = s[j]
          BY <1>1, <1>3, <2>1, <4>1, <4>3
        <4>5. QED
          BY <1>6, <3>4, <4>1, <4>2, <4>3, <4>4
      <3>6. t[i].type = "Done" => Balanced(t, i)
        BY <1>4, <1>6, <2>1, <3>4
      <3>7. QED
        BY <3>3, <3>5, <3>6
    <2>2. CASE i # n + 1
      <3>1. /\ i \in 1..n /\ i \in Nat /\ i - 1 \in Nat /\ t[i] = s[i]
            /\ (\A j \in 1..i : t[j] = s[j]) /\ (\A j \in 1..(i - 1) : t[j] = s[j])
        BY <1>1, <1>7, <2>2
      <3>2. /\ Starts(t, i) = Starts(s, i) /\ Ends(t, i) = Ends(s, i)
            /\ Starts(t, i - 1) = Starts(s, i - 1)
        BY <3>1, SameBrackets
      <3>3. /\ \A j \in Starts(t, i) : t[j] = s[j]
            /\ \A j \in Starts(t, i - 1) : t[j] = s[j]
        BY <3>1 DEF Starts
      <3>4. /\ s[i].type = "StepStart" => \A j \in Starts(s, i - 1) : s[j].step < s[i].step
            /\ s[i].type = "StepEnd" =>
                 Balanced(s, i) /\ \E j \in Starts(s, i) : s[j].step = s[i].step
            /\ s[i].type = "Done" => Balanced(s, i)
        BY <3>1 DEF Bracketed
      <3>5. Balanced(s, i) <=> Balanced(t, i)
        BY <3>2 DEF Balanced
      <3>6. QED
        BY <3>1, <3>2, <3>3, <3>4, <3>5
    <2>3. QED
      BY <2>1, <2>2
  <1>8. Bracketed(t)
    BY <1>7 DEF Bracketed
  <1>9. QED
    BY <1>6, <1>8

-----------------------------------------------------------------------------
(* Steps are bracketed. *)

LEMMA EmittedTyped == ASSUME IndInv PROVE Emitted \in Seq(Events)
  BY ChannelTyped DEF Emitted

LEMMA EmittedGrows ==
    ASSUME NEW s \in Seq(Events), NEW t \in Seq(Events), NEW e \in Events
    PROVE  s \o Append(t, e) = Append(s \o t, e)
  OBVIOUS

LEMMA EmittedMoves ==
    ASSUME NEW s \in Seq(Events), NEW t \in Seq(Events), t # <<>>
    PROVE  Append(s, Head(t)) \o Tail(t) = s \o t
  OBVIOUS

(* What was taken is bracketed if all that was emitted is. *)
LEMMA DeliveredBracketed ==
    ASSUME NEW s \in Seq(Events), NEW t \in Seq(Events), Bracketed(s \o t)
    PROVE  Bracketed(s)
  <1>1. /\ s \o t \in Seq(Events) /\ Len(s) <= Len(s \o t)
        /\ \A i \in 1..Len(s) : s[i] = (s \o t)[i]
    OBVIOUS
  <1>2. QED
    BY <1>1, BracketedPrefix

LEMMA BracketsSent ==
    ASSUME IndInv, BufferInv, ShownInv, BracketInv, Send, lost = <<>>, cons = "ranging"
    PROVE  /\ Bracketed(Emitted')
           /\ Between' => Closed(Emitted')
           /\ Inside' => Open(Emitted', step')
  <1> DEFINE e == EventAt(pc)
  <1>1. SentOnce(e) /\ SentSides(e)
    BY SendFlow
  <1> HIDE DEF e
  <1>2. e \in Events /\ ch' = Append(ch, e) /\ delivered' = delivered /\ step' = step
    BY <1>1 DEF SentOnce
  <1>3. Emitted' = Append(Emitted, e)
    BY <1>2, ChannelTyped, EmittedGrows DEF Emitted
  <1>4. Bracketed(Emitted) /\ (Between => Closed(Emitted)) /\ (Inside => Open(Emitted, step))
    BY DEF BracketInv
  <1>5. e.type = "StepStart" => \A j \in Starts(Emitted, Len(Emitted)) : Emitted[j].step < e.step
    <2> SUFFICES ASSUME e.type = "StepStart", NEW j \in Starts(Emitted, Len(Emitted))
                 PROVE  Emitted[j].step < e.step
      OBVIOUS
    <2>1. Unstarted /\ e.step = step
      BY <1>1 DEF SentSides, TurnEvent
    <2>2. j \in 1..Len(Emitted) /\ Emitted[j].type = "StepStart"
      BY DEF Starts
    <2>3. Emitted[j] \in Shown
      <3>1. CASE j <= Len(delivered)
        <4>1. j \in DOMAIN delivered /\ Emitted[j] = delivered[j]
          BY <2>2, <3>1, EmittedAt
        <4>2. QED
          BY <4>1 DEF Shown
      <3>2. CASE ~(j <= Len(delivered))
        <4>1. j - Len(delivered) \in DOMAIN ch /\ Emitted[j] = ch[j - Len(delivered)]
          BY <2>2, <3>2, EmittedAt
        <4>2. QED
          BY <4>1 DEF Shown
      <3>3. QED
        BY <3>1, <3>2
    <2>4. QED
      BY <2>1, <2>2, <2>3 DEF ShownInv, TurnEvent
  <1>6. e.type = "StepEnd" => Open(Emitted, step) /\ e.step = step
    BY <1>1, <1>4 DEF SentSides
  <1>7. e.type = "Done" => Closed(Emitted)
    BY <1>1, <1>4 DEF SentSides
  <1>8. /\ Bracketed(Append(Emitted, e))
        /\ e.type \notin {"StepStart", "StepEnd"} =>
             /\ Closed(Emitted) => Closed(Append(Emitted, e))
             /\ Open(Emitted, step) => Open(Append(Emitted, e), step)
        /\ e.type = "StepStart" /\ e.step = step /\ Closed(Emitted) => Open(Append(Emitted, e), step)
        /\ e.type = "StepEnd" => Closed(Append(Emitted, e))
    BY <1>2, <1>4, <1>5, <1>6, <1>7, EmittedTyped, BracketsGrow
  <1>9. Between' => Closed(Append(Emitted, e))
    BY <1>1, <1>4, <1>8 DEF SentSides
  <1>10. Inside' => Open(Append(Emitted, e), step)
    <2>1. ASSUME e.type = "StepStart" PROVE e.step = step /\ Closed(Emitted)
      BY <1>1, <1>4, <2>1 DEF SentSides, TurnEvent, Between
    <2>2. QED
      BY <1>1, <1>4, <1>8, <2>1 DEF SentSides
  <1>11. QED
    BY <1>2, <1>3, <1>8, <1>9, <1>10

LEMMA BracketsKept ==
    ASSUME IndInv, BufferInv, ShownInv, BracketInv, [Next]_vars
    PROVE  BracketInv'
  <1>1. lost' = <<>> => lost = <<>>
    <2>1. CASE DiscardOldest
      BY <2>1 DEF DiscardOldest, IndInv, TypesChannel
    <2>2. CASE Flow \/ Send \/ SendTerminalError \/ ConsumerNext
      BY <2>2, SendFlow, TerminalErrorSent, ConsumerKeeps DEF Flow, Quiet, SentOnce
    <2>3. QED
      BY <2>1, <2>2, StepKinds
  <1>2. SUFFICES ASSUME lost' = <<>>, lost = <<>>
                 PROVE  /\ Bracketed(delivered')
                        /\ cons' = "ranging" => /\ Bracketed(Emitted')
                                                /\ Between' => Closed(Emitted')
                                                /\ Inside' => Open(Emitted', step')
    BY <1>1 DEF BracketInv, Bracketed, Closed, Open, Balanced, Starts, Ends
  <1>3. Bracketed(delivered)
    BY <1>2 DEF BracketInv
  <1>4. cons = "ranging" => /\ Bracketed(Emitted) /\ (Between => Closed(Emitted))
                            /\ (Inside => Open(Emitted, step))
    BY <1>2 DEF BracketInv
  <1>5. CASE Flow
    <2>1. Emitted' = Emitted /\ delivered' = delivered /\ cons' = cons
      BY <1>5 DEF Flow, Quiet, Emitted
    <2>2. Bracketed(delivered') /\ (Bracketed(Emitted) => Bracketed(Emitted'))
      BY <1>3, <2>1
    <2>3. Closed(Emitted) => Closed(Emitted')
      BY <2>1
    <2>4. step' = step => (Open(Emitted, step) => Open(Emitted', step'))
      BY <2>1
    <2>5. (Between' => Between) /\ (Inside' => Inside /\ step' = step)
      BY <1>5 DEF Flow, TurnFlow
    <2>6. QED
      BY <1>4, <2>1, <2>2, <2>3, <2>4, <2>5
  <1>6. CASE Send
    <2>1. delivered' = delivered /\ cons' = cons
      BY <1>6, SendFlow DEF SentOnce
    <2>2. Bracketed(delivered')
      BY <1>3, <2>1
    <2>3. QED
      BY <1>2, <1>6, <2>1, <2>2, BracketsSent
  <1>7. CASE SendTerminalError
    <2>1. /\ pc' = "return" /\ ~Unstarted' /\ TerminalError \in Events
          /\ ch' = Append(ch, TerminalError) /\ delivered' = delivered /\ cons' = cons
      BY <1>7, TerminalErrorSent
    <2>2. Bracketed(delivered')
      BY <1>3, <2>1
    <2>3. ~Between' /\ ~Inside'
      BY <2>1 DEF Between, Inside, BetweenSteps, InsideStep, Streaming
    <2>4. ASSUME cons = "ranging" PROVE Bracketed(Emitted')
      <3>1. Emitted' = Append(Emitted, TerminalError)
        BY <2>1, ChannelTyped, EmittedGrows DEF Emitted
      <3>2. TerminalError.type = "Error"
        BY DEF TerminalError
      <3>3. Bracketed(Append(Emitted, TerminalError))
        BY <1>4, <2>1, <2>4, <3>2, EmittedTyped, BracketsGrow
      <3>4. QED
        BY <3>1, <3>3
    <2>5. QED
      BY <2>1, <2>2, <2>3, <2>4
  <1>8. CASE DiscardOldest
    <2>1. pc' = "fail" /\ ~Unstarted' /\ delivered' = delivered /\ cons' = cons
      BY <1>8, DiscardKeeps
    <2>2. ch' = ch
      BY <1>2, <1>8 DEF DiscardOldest
    <2>3. Bracketed(delivered') /\ (Bracketed(Emitted) => Bracketed(Emitted'))
      BY <1>3, <2>1, <2>2 DEF Emitted
    <2>4. ~Between' /\ ~Inside'
      BY <2>1 DEF Between, Inside, BetweenSteps, InsideStep, Streaming
    <2>5. QED
      BY <1>4, <2>1, <2>3, <2>4
  <1>9. CASE Drain \/ FinishRange
    <2>1. delivered' = delivered /\ cons' # "ranging"
      BY <1>9 DEF Drain, FinishRange, consumerVars
    <2>2. Bracketed(delivered')
      BY <1>3, <2>1
    <2>3. QED
      BY <2>1, <2>2
  <1>10. CASE Receive \/ ReceiveError \/ Break \/ BodyPanics
    <2>1. TakeEvent /\ ConsumerNext /\ (cons' = "ranging" => Receive)
      BY <1>10 DEF Receive, ReceiveError, Break, BodyPanics, ConsumerNext
    <2>2. /\ cons = "ranging" /\ ch # <<>> /\ ch' = Tail(ch)
          /\ delivered' = Append(delivered, Head(ch))
      BY <2>1 DEF TakeEvent
    <2>3. Emitted' = Emitted
      BY <2>2, ChannelTyped, EmittedMoves DEF Emitted
    <2>4. Bracketed(delivered')
      <3>1. delivered' \in Seq(Events) /\ ch' \in Seq(Events)
        BY NextKeeps, ChannelTyped, <2>2, TailOf, Appended
      <3>2. Bracketed(delivered' \o ch')
        BY <1>4, <2>2, <2>3 DEF Emitted
      <3>3. QED
        BY <3>1, <3>2, DeliveredBracketed
    <2>5. ASSUME cons' = "ranging"
          PROVE  /\ Bracketed(Emitted')
                 /\ Between' => Closed(Emitted')
                 /\ Inside' => Open(Emitted', step')
      <3>1. UNCHANGED driverVars /\ cancelled' = cancelled
        BY <2>1, <2>5 DEF Receive, TakeEvent
      <3>2. (Between' <=> Between) /\ (Inside' <=> Inside) /\ step' = step
        BY <3>1
        DEF driverVars, turnVars, budgetVars, errorVars, Between, Inside, Unstarted, HeldBack
      <3>3. Bracketed(Emitted')
        BY <1>4, <2>2, <2>3
      <3>4. Closed(Emitted) => Closed(Emitted')
        BY <2>3
      <3>5. Open(Emitted, step) => Open(Emitted', step')
        BY <2>3, <3>2
      <3>6. QED
        BY <1>4, <2>2, <3>2, <3>3, <3>4, <3>5
    <2>6. QED
      BY <2>4, <2>5
  <1>11. QED
    BY <1>5, <1>6, <1>7, <1>8, <1>9, <1>10, StepKinds DEF ConsumerNext

(* What the consumer sees comes in steps, as long as nothing was lost: step *)
(* numbers grow, a StepEnd closes the step that is open, and Done comes     *)
(* when no step is open, whatever turns were retried, calls suspended and   *)
(* emissions refused.                                                       *)
THEOREM StepsAreBracketed == Spec => []StepsBracketed
  <1>1. Init => BracketInv
    <2> SUFFICES ASSUME Init PROVE BracketInv
      OBVIOUS
    <2>1. pc = "resume" /\ delivered = <<>> /\ ch = <<>> /\ Emitted = <<>>
      BY DEF Init, Emitted
    <2>2. Bracketed(<<>>)
      BY DEF Bracketed
    <2>3. Closed(<<>>)
      <3>1. Starts(<<>>, 0) = {} /\ Ends(<<>>, 0) = {} /\ Len(<<>>) = 0
        BY DEF Starts, Ends
      <3>2. QED
        BY <3>1 DEF Closed, Balanced
    <2>4. ~Inside
      BY <2>1 DEF Inside, InsideStep, Streaming
    <2>5. QED
      BY <2>1, <2>2, <2>3, <2>4 DEF BracketInv
  <1>2. IndInv /\ OrderInv /\ BracketInv /\ [Next]_vars => BracketInv'
    BY BracketsKept DEF OrderInv
  <1>3. BracketInv => StepsBracketed
    BY DEF BracketInv, Bracketed, Balanced, Starts, Ends, StepsBracketed
  <1>4. QED
    BY <1>1, <1>2, <1>3, OrderInvariance, Invariance, PTL DEF Spec
=============================================================================
