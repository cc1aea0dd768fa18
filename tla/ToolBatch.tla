----------------------------- MODULE ToolBatch ------------------------------
(***************************************************************************)
(* The tool calls of one turn run by executeToolCallsParallel: a dispatch  *)
(* loop that announces the calls in model order and hands each to a bounded *)
(* errgroup, the workers, and an ordered commit after g.Wait.              *)
(*                                                                         *)
(* The event channel is abstracted to the log of emitted events: emit      *)
(* succeeds, or is refused because the context ended, because a hook failed *)
(* before, or because a hook fails on this event.  AgentRun models the      *)
(* channel and the window between that decision and the send.               *)
(***************************************************************************)
EXTENDS Integers, Sequences, FiniteSets

CONSTANTS
    N,            \* bound: tool calls of the turn
    MaxParallel,  \* Runner.ToolConcurrency
    Kinds         \* the kinds of calls the model may produce

AllKinds == {"plain", "gated", "client", "skip", "invalid", "broken"}

ASSUME ToolBatchAssumption ==
    /\ N \in Nat
    /\ MaxParallel \in Nat \ {0}
    /\ Kinds \subseteq AllKinds

Calls == 1..N

VARIABLES
    kind,       \* what prepareToolCalls and the hooks made of each call
    approver,   \* the run has an ApprovalResponder
    phase,      \* of the driver: "dispatch", "request", "admit", "commit", "returned"
    next,       \* the call the driver is at
    worker,     \* each call's goroutine
    result,     \* results[i].result
    ctrl,       \* results[i].controlErr
    control,    \* the controlErr that is returned
    history,    \* calls whose tool message was appended to the history
    log,        \* emitted events
    hookErr,    \* run.hookErr is set
    cancelled,  \* the context of the run is done
    ran,        \* calls whose tool body started (history variable)
    late        \* those of them that started after the cancellation

vars == <<kind, approver, phase, next, worker, result, ctrl, control, history, log,
          hookErr, cancelled, ran, late>>
config == <<kind, approver>>
bodies == <<ran, late>>

WorkerStates == {"idle", "started", "admitted", "approving", "cleared", "running", "done"}
Results == {"none", "output", "denied", "skipped", "cancelled", "invalid", "panic"}
Controls == {"none", "suspended", "failed"}
EventTypes == {"ToolCallReady", "ToolCallInvalid", "ToolResult", "ClientToolRequest",
               "ApprovalRequest", "OutputDenied"}

Init ==
    /\ kind \in [Calls -> Kinds]
    /\ approver \in BOOLEAN
    /\ phase = "dispatch" /\ next = 1
    /\ worker = [i \in Calls |-> "idle"]
    /\ result = [i \in Calls |-> "none"]
    /\ ctrl = [i \in Calls |-> "none"]
    /\ control = "none"
    /\ history = <<>> /\ log = <<>>
    /\ hookErr = FALSE /\ cancelled = FALSE
    /\ ran = {} /\ late = {}

-----------------------------------------------------------------------------
CanEmit == ~cancelled /\ ~hookErr

(* emitObserved for call i: TRUE when ok, otherwise refused. *)
Emission(type, i, ok) ==
    IF ok
    THEN CanEmit /\ log' = Append(log, [type |-> type, call |-> i]) /\ UNCHANGED hookErr
    ELSE /\ UNCHANGED log
         /\ IF CanEmit THEN hookErr' = TRUE ELSE UNCHANGED hookErr

NoEmission == UNCHANGED <<log, hookErr>>

(* Mutant: the first control error wins. *)
FirstControlErr(current, new) == IF current = "none" THEN new ELSE current

(* A failure outranks a suspension, otherwise the first error stays. *)
PreferControlErr(current, new) ==
    IF current = "none" \/ (current = "suspended" /\ new = "failed")
    THEN new ELSE current

-----------------------------------------------------------------------------
(* The dispatch loop. *)

Record(i, res, c) ==
    /\ result' = [result EXCEPT ![i] = res]
    /\ ctrl' = [ctrl EXCEPT ![i] = c]

(* Mutant: the loop advances twice. *)
NextCallTwice == phase' = "dispatch" /\ next' = next + 2

NextCall == phase' = "dispatch" /\ next' = next + 1

AtCall(p, kinds) == phase = p /\ next \in Calls /\ kind[next] \in kinds

(* A call that failed to prepare, or whose arguments are invalid. *)
DispatchUnprepared ==
    /\ \/ AtCall("dispatch", {"broken"}) /\ Record(next, "none", "failed")
       \/ AtCall("dispatch", {"invalid"}) /\ Record(next, "invalid", "none")
    /\ NextCall /\ NoEmission
    /\ UNCHANGED <<config, worker, control, history, cancelled, bodies>>

(* BeforeTool stops the run: also when an event hook has failed before. *)
BeforeToolStops ==
    /\ AtCall("dispatch", {"plain", "gated", "client"})
    /\ Record(next, "none", "failed")
    /\ NextCall /\ NoEmission
    /\ UNCHANGED <<config, worker, control, history, cancelled, bodies>>

(* Mutant: a refused announcement does not keep the call from running. *)
AnnounceAnyway(ok) ==
    /\ AtCall("dispatch", {"plain", "gated", "client", "skip"})
    /\ Emission("ToolCallReady", next, ok)
    /\ phase' = IF kind[next] = "client" THEN "request" ELSE "admit"
    /\ UNCHANGED <<next, result, ctrl>>
    /\ UNCHANGED <<config, worker, control, history, cancelled, bodies>>

Announce(ok) ==
    /\ AtCall("dispatch", {"plain", "gated", "client", "skip"})
    /\ Emission("ToolCallReady", next, ok)
    /\ IF ok
       THEN /\ phase' = IF kind[next] = "client" THEN "request" ELSE "admit"
            /\ UNCHANGED <<next, result, ctrl>>
       ELSE NextCall /\ Record(next, "none", "failed")
    /\ UNCHANGED <<config, worker, control, history, cancelled, bodies>>

(* A client-executed call is suspended before any goroutine exists. *)
RequestClient(ok) ==
    /\ AtCall("request", {"client"})
    /\ Emission("ClientToolRequest", next, ok)
    /\ Record(next, "none", IF ok THEN "suspended" ELSE "failed")
    /\ NextCall
    /\ UNCHANGED <<config, worker, control, history, cancelled, bodies>>

InFlight == {i \in Calls : worker[i] \notin {"idle", "done"}}

(* Mutant: the errgroup has no limit. *)
GoUnlimited ==
    /\ phase = "admit" /\ next \in Calls
    /\ worker' = [worker EXCEPT ![next] = "started"]
    /\ NextCall /\ NoEmission
    /\ UNCHANGED <<config, result, ctrl, control, history, cancelled, bodies>>

(* g.Go blocks the loop while the group is at its limit. *)
Go ==
    /\ phase = "admit" /\ next \in Calls
    /\ Cardinality(InFlight) < MaxParallel
    /\ worker' = [worker EXCEPT ![next] = "started"]
    /\ NextCall /\ NoEmission
    /\ UNCHANGED <<config, result, ctrl, control, history, cancelled, bodies>>

-----------------------------------------------------------------------------
(* A worker. *)

Move(i, from, to) ==
    /\ worker[i] = from
    /\ worker' = [worker EXCEPT ![i] = to]
    /\ UNCHANGED <<config, phase, next, control, history, cancelled>>

Finish(i, from, res, c) ==
    /\ Move(i, from, "done")
    /\ Record(i, res, c)

(* The first thing a worker does is to look at the context. *)
Admit(i) ==
    /\ NoEmission /\ UNCHANGED bodies
    /\ \/ cancelled /\ Finish(i, "started", "cancelled", "none")
       \/ ~cancelled /\ Move(i, "started", "admitted") /\ UNCHANGED <<result, ctrl>>

(* AfterTool and the output transform: a hook may stop the run, and must    *)
(* when an event hook has failed; a failing transform keeps the result.     *)
Complete(i, from, res) ==
    \/ Finish(i, from, "none", "failed")
    \/ ~hookErr' /\ Finish(i, from, res, "none")
    \/ ~hookErr' /\ Finish(i, from, res, "failed")

Skip(i) ==
    /\ kind[i] = "skip"
    /\ NoEmission /\ UNCHANGED bodies
    /\ Complete(i, "admitted", "skipped")

(* No approval is required: one more look at the context.  A gated call may *)
(* also fail to canonicalize its arguments or to sign its request.          *)
Clear(i) ==
    /\ kind[i] \in {"plain", "gated"}
    /\ \/ /\ cancelled \/ kind[i] = "gated"
          /\ Finish(i, "admitted", "none", "failed")
       \/ ~cancelled /\ Move(i, "admitted", "cleared") /\ UNCHANGED <<result, ctrl>>
    /\ NoEmission /\ UNCHANGED bodies

(* The approval policy or the responder panics: the recovery of the worker  *)
(* turns that into a failed result.                                         *)
ApprovalPanics(i) ==
    /\ kind[i] = "gated"
    /\ \/ Finish(i, "admitted", "panic", "failed")
       \/ approver /\ Finish(i, "approving", "panic", "failed")
    /\ NoEmission /\ UNCHANGED bodies

(* The policy asks for approval.  A refused request returns no result and   *)
(* the context's error; with no such error the missing result panics, which *)
(* the worker's recovery turns into a failed result.                        *)
RequestApproval(i, ok) ==
    /\ kind[i] = "gated"
    /\ Emission("ApprovalRequest", i, ok)
    /\ IF ok THEN Move(i, "admitted", "approving") /\ UNCHANGED <<result, ctrl>>
       ELSE Finish(i, "admitted", IF cancelled THEN "none" ELSE "panic", "failed")
    /\ UNCHANGED bodies

(* Mutant: without a responder the worker waits for one. *)
SuspendOnlyWithApprover(i) ==
    /\ approver
    /\ Finish(i, "approving", "none", "suspended")
    /\ NoEmission /\ UNCHANGED bodies

SuspendForApproval(i) ==
    /\ ~approver
    /\ Finish(i, "approving", "none", "suspended")
    /\ NoEmission /\ UNCHANGED bodies

(* The responder answers, or fails, which is a denial. *)
Approve(i) ==
    /\ approver
    /\ \/ cancelled /\ Finish(i, "approving", "none", "failed")
       \/ ~cancelled /\ Move(i, "approving", "cleared") /\ UNCHANGED <<result, ctrl>>
    /\ NoEmission /\ UNCHANGED bodies

Deny(i, ok) ==
    /\ approver
    /\ Emission("OutputDenied", i, ok)
    /\ Complete(i, "approving", "denied")
    /\ UNCHANGED bodies

(* The tool body starts; the context may have ended since the last look. *)
Start(i) ==
    /\ Move(i, "cleared", "running")
    /\ ran' = ran \cup {i}
    /\ late' = IF cancelled THEN late \cup {i} ELSE late
    /\ NoEmission /\ UNCHANGED <<result, ctrl>>

Return(i) ==
    /\ NoEmission /\ UNCHANGED bodies
    /\ \/ Complete(i, "running", "output")
       \/ Finish(i, "running", "panic", "failed")

Work(i) ==
    \/ Admit(i) \/ Skip(i) \/ Clear(i) \/ SuspendForApproval(i) \/ Approve(i)
    \/ ApprovalPanics(i) \/ Start(i) \/ Return(i)
    \/ \E ok \in BOOLEAN : RequestApproval(i, ok) \/ Deny(i, ok)

-----------------------------------------------------------------------------
(* g.Wait and the ordered commit. *)

(* Mutant: the commit starts once every call was handed to the group. *)
WaitForNobody ==
    /\ phase = "dispatch" /\ next = N + 1
    /\ phase' = "commit" /\ next' = 1
    /\ UNCHANGED <<config, worker, result, ctrl, control, history, log, hookErr,
                   cancelled, bodies>>

Wait ==
    /\ phase = "dispatch" /\ next = N + 1
    /\ InFlight = {}
    /\ phase' = "commit" /\ next' = 1
    /\ UNCHANGED <<config, worker, result, ctrl, control, history, log, hookErr,
                   cancelled, bodies>>

(* An invalid call is announced and answered at commit; a refused emission  *)
(* ends the batch at once.                                                  *)
CommitInvalid(ok) ==
    /\ AtCall("commit", {"invalid"})
    /\ IF ok
       THEN /\ CanEmit
            /\ log' = log \o <<[type |-> "ToolCallInvalid", call |-> next],
                               [type |-> "ToolResult", call |-> next]>>
            /\ history' = Append(history, next)
            /\ next' = next + 1
            /\ UNCHANGED <<phase, control, hookErr>>
       ELSE /\ log' \in {log, Append(log, [type |-> "ToolCallInvalid", call |-> next])}
            /\ log' # log => ~hookErr
            /\ IF CanEmit THEN hookErr' = TRUE ELSE UNCHANGED hookErr
            /\ control' = "failed" /\ phase' = "returned"
            /\ UNCHANGED <<next, history>>
    /\ UNCHANGED <<config, worker, result, ctrl, cancelled, bodies>>

(* Mutant: a refused result leaves the batch's outcome alone. *)
CommitResultQuietly(ok) ==
    /\ AtCall("commit", AllKinds \ {"invalid"}) /\ result[next] # "none"
    /\ Emission("ToolResult", next, ok)
    /\ history' = Append(history, next)
    /\ control' = PreferControlErr(control, ctrl[next])
    /\ next' = next + 1
    /\ UNCHANGED <<config, phase, worker, result, ctrl, cancelled, bodies>>

(* A result is recorded in the history even when its event is refused. *)
CommitResult(ok) ==
    /\ AtCall("commit", AllKinds \ {"invalid"}) /\ result[next] # "none"
    /\ Emission("ToolResult", next, ok)
    /\ history' = Append(history, next)
    /\ control' = PreferControlErr(control, IF ok THEN ctrl[next] ELSE "failed")
    /\ next' = next + 1
    /\ UNCHANGED <<config, phase, worker, result, ctrl, cancelled, bodies>>

CommitControl ==
    /\ AtCall("commit", AllKinds \ {"invalid"}) /\ result[next] = "none"
    /\ control' = PreferControlErr(control, ctrl[next])
    /\ next' = next + 1
    /\ NoEmission
    /\ UNCHANGED <<config, phase, worker, result, ctrl, history, cancelled, bodies>>

ReturnBatch ==
    /\ phase = "commit" /\ next = N + 1
    /\ phase' = "returned"
    /\ NoEmission
    /\ UNCHANGED <<config, next, worker, result, ctrl, control, history, cancelled, bodies>>

Driver ==
    \/ DispatchUnprepared \/ BeforeToolStops \/ Go \/ Wait
    \/ CommitControl \/ ReturnBatch
    \/ \E ok \in BOOLEAN :
        Announce(ok) \/ RequestClient(ok) \/ CommitInvalid(ok) \/ CommitResult(ok)

Cancel ==
    /\ ~cancelled /\ cancelled' = TRUE
    /\ NoEmission
    /\ UNCHANGED <<config, phase, next, worker, result, ctrl, control, history, bodies>>

Terminated == phase = "returned" /\ UNCHANGED vars

Next == Driver \/ Cancel \/ (\E i \in Calls : Work(i)) \/ Terminated

Spec == Init /\ [][Next]_vars

(* The tool bodies, the hooks and the responder return. *)
FairSpec == Spec /\ WF_vars(Driver) /\ \A i \in Calls : WF_vars(Work(i))
-----------------------------------------------------------------------------
(* Properties. *)

(* Every variable stays in its type and the loops stay within the batch. *)
TypeInvariant ==
    /\ kind \in [Calls -> Kinds] /\ approver \in BOOLEAN
    /\ phase \in {"dispatch", "request", "admit", "commit", "returned"}
    /\ next \in 1..(N + 1)
    /\ worker \in [Calls -> WorkerStates]
    /\ result \in [Calls -> Results]
    /\ ctrl \in [Calls -> Controls] /\ control \in Controls
    /\ history \in Seq(Calls)
    /\ log \in Seq([type : EventTypes, call : Calls])
    /\ hookErr \in BOOLEAN /\ cancelled \in BOOLEAN
    /\ ran \subseteq Calls /\ late \subseteq ran

Logged(type, i) == \E k \in DOMAIN log : log[k] = [type |-> type, call |-> i]

(* A cancellation caps how many tool bodies still start: those past their   *)
(* last look at the context, never the calls queued behind them.            *)
CancellationCapsStarts == Cardinality(late) <= MaxParallel

(* A tool body runs only for a call that was announced, that is not the     *)
(* client's, and that no hook skipped.  What was denied never ran.          *)
NothingRunsUnannounced ==
    \A i \in ran :
        /\ kind[i] \in {"plain", "gated"}
        /\ Logged("ToolCallReady", i)
        /\ ~Logged("OutputDenied", i)

(* Results are committed in model order, after every call was announced and *)
(* every approval asked for.                                                *)
ResultsCommittedInModelOrder ==
    \A j, k \in DOMAIN log :
        j < k /\ log[j].type = "ToolResult" =>
            /\ log[k].type \in {"ToolResult", "ToolCallInvalid"}
            /\ log[j].call < log[k].call

(* A batch that lets the run continue has the result of every call, in      *)
(* model order, in the history and has emitted it.                          *)
ContinueHasEveryResult ==
    phase = "returned" /\ control = "none" =>
        /\ history = [i \in Calls |-> i]
        /\ \A i \in Calls : Logged("ToolResult", i)

(* A batch that suspends the run hides no failure: every call either waits  *)
(* for the caller or has its result in the history.                         *)
SuspensionHidesNoFailure ==
    phase = "returned" /\ control = "suspended" =>
        \A i \in Calls :
            \/ ctrl[i] = "suspended"
            \/ ctrl[i] = "none" /\ (\E k \in DOMAIN history : history[k] = i)

(* The batch ends, with no worker left behind. *)
BatchEnds == <>(phase = "returned" /\ InFlight = {})
=============================================================================
