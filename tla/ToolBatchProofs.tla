--------------------------- MODULE ToolBatchProofs --------------------------
(***************************************************************************)
(* Proofs about ToolBatch, for every number of calls, every limit of the   *)
(* group and every mixture of kinds.  Each part of IndInv says what a      *)
(* place in the code may rely on: what a worker past its last look at the  *)
(* context knows, what the dispatch loop has settled for the calls behind  *)
(* it, and what the commit loop has already put into the log, the history  *)
(* and the outcome.                                                        *)
(***************************************************************************)
EXTENDS ToolBatch, FiniteSetTheorems, TLAPS

-----------------------------------------------------------------------------
(* The inductive invariant. *)

Dispatching == phase \in {"dispatch", "request", "admit"}

(* Workers that will start their body without another look at the context. *)
Committed == {i \in Calls : worker[i] = "cleared"}

(* The group is within its limit.  Those that start late were past their    *)
(* last look when the context ended, hence in flight together.              *)
SlotsBound ==
    /\ Cardinality(InFlight) <= MaxParallel
    /\ ~cancelled => late = {}
    /\ cancelled => Cardinality(late \cup Committed) <= MaxParallel

Settled(i) == result[i] # "none" \/ ctrl[i] # "none"

(* The loop is at an announced call whose goroutine does not exist yet, the *)
(* calls behind it are settled or in the hands of a worker, and once the    *)
(* group is waited for there are no workers left.                           *)
DispatchInv ==
    /\ phase \in {"request", "admit"} => next \in Calls /\ Logged("ToolCallReady", next)
    /\ phase = "admit" => kind[next] \in {"plain", "gated", "skip"}
    /\ Dispatching => \A i \in next..N : worker[i] = "idle"
    /\ ~Dispatching => InFlight = {}
    /\ \A i \in Calls :
         /\ worker[i] \in {"idle", "done"} => (Dispatching /\ i \in next..N) \/ Settled(i)
         /\ kind[i] = "invalid" => ctrl[i] = "none"

(* What a worker has behind it.  Only a worker that cleared its call runs   *)
(* it, and only one that waits for an approval denies it.                   *)
WorkerInv ==
    \A i \in Calls :
        /\ worker[i] # "idle" =>
             kind[i] \in {"plain", "gated", "skip"} /\ Logged("ToolCallReady", i)
        /\ worker[i] \in {"approving", "cleared", "running"} => kind[i] \in {"plain", "gated"}
        /\ i \in ran => /\ worker[i] \in {"running", "done"}
                        /\ kind[i] \in {"plain", "gated"}
        /\ Logged("OutputDenied", i) => worker[i] = "done" /\ i \notin ran

(* No result is emitted before the commit, which emits them as it goes. *)
LogInv ==
    /\ Dispatching => \A k \in DOMAIN log : log[k].type # "ToolResult"
    /\ phase = "commit" =>
         \A k \in DOMAIN log : log[k].type = "ToolResult" => log[k].call < next

Waits(i) == ctrl[i] = "suspended"
Recorded(i) == ctrl[i] = "none" /\ (\E k \in DOMAIN history : history[k] = i)

(* What the outcome so far says of the calls committed so far. *)
CommitInv ==
    /\ Dispatching => control = "none" /\ history = <<>>
    /\ phase = "returned" => control = "failed" \/ next = N + 1
    /\ ~Dispatching /\ control = "none" =>
         /\ Len(history) = next - 1
         /\ \A i \in 1..(next - 1) : history[i] = i /\ Logged("ToolResult", i)
    /\ ~Dispatching /\ control # "failed" =>
         \A i \in 1..(next - 1) : Waits(i) \/ Recorded(i)

IndInv ==
    /\ TypeInvariant
    /\ SlotsBound
    /\ DispatchInv
    /\ WorkerInv
    /\ LogInv
    /\ ResultsCommittedInModelOrder
    /\ CommitInv

-----------------------------------------------------------------------------
(* The log only grows. *)

Event(type, i) == [type |-> type, call |-> i]

Grows(event) == log' = Append(log, event)

LEMMA Appended ==
    ASSUME NEW S, NEW s \in Seq(S), NEW x \in S
    PROVE  Append(s, x) \in Seq(S)
  OBVIOUS

LEMMA ElementOf ==
    ASSUME NEW S, NEW s \in Seq(S), NEW k \in DOMAIN s
    PROVE  s[k] \in S
  OBVIOUS

LEMMA TwoAppends ==
    ASSUME NEW S, NEW s \in Seq(S), NEW x \in S, NEW y \in S
    PROVE  s \o <<x, y>> = Append(Append(s, x), y)
  OBVIOUS

LEMMA EventTyped ==
    ASSUME NEW type \in EventTypes, NEW i \in Calls
    PROVE  Event(type, i) \in [type : EventTypes, call : Calls]
  BY DEF Event

LEMMA LogTyped ==
    ASSUME TypeInvariant, NEW type \in EventTypes, NEW i \in Calls, Grows(Event(type, i))
    PROVE  log' \in Seq([type : EventTypes, call : Calls])
  <1>1. log \in Seq([type : EventTypes, call : Calls])
    BY DEF TypeInvariant
  <1>2. Event(type, i) \in [type : EventTypes, call : Calls]
    BY EventTyped
  <1>3. Append(log, Event(type, i)) \in Seq([type : EventTypes, call : Calls])
    BY <1>1, <1>2, Appended
  <1>4. QED
    BY <1>3 DEF Grows

LEMMA GrownLog ==
    ASSUME log \in Seq([type : EventTypes, call : Calls]),
           NEW event \in [type : EventTypes, call : Calls], Grows(event)
    PROVE  /\ log' \in Seq([type : EventTypes, call : Calls])
           /\ DOMAIN log' = 1..(Len(log) + 1) /\ DOMAIN log = 1..Len(log)
           /\ log'[Len(log) + 1] = event
           /\ \A k \in DOMAIN log : log'[k] = log[k]
           /\ Len(log) \in Nat
  BY DEF Grows

(* What was logged stays logged, and only the new event is added. *)
LEMMA LoggedGrows ==
    ASSUME log \in Seq([type : EventTypes, call : Calls]),
           NEW event \in [type : EventTypes, call : Calls], Grows(event),
           NEW type, NEW i
    PROVE  Logged(type, i)' <=> Logged(type, i) \/ event = Event(type, i)
  <1>1. Logged(type, i) => Logged(type, i)'
    BY GrownLog DEF Logged
  <1>2. event = Event(type, i) => Logged(type, i)'
    BY GrownLog DEF Logged, Event
  <1>3. Logged(type, i)' => Logged(type, i) \/ event = Event(type, i)
    BY GrownLog DEF Logged, Event
  <1>4. QED
    BY <1>1, <1>2, <1>3

-----------------------------------------------------------------------------
(* What a step of a worker may do. *)

WorkerMoves(i, to) ==
    /\ worker' = [worker EXCEPT ![i] = to]
    /\ worker[i] \notin {"idle", "done"} /\ to \in WorkerStates \ {"idle", "started"}
    /\ UNCHANGED <<kind, approver, phase, next, control, history, cancelled>>
    /\ result' \in [Calls -> Results] /\ ctrl' \in [Calls -> Controls]
    /\ \A j \in Calls \ {i} : result'[j] = result[j] /\ ctrl'[j] = ctrl[j]
    /\ to = "done" => result'[i] # "none" \/ ctrl'[i] # "none"
    /\ to \in {"approving", "cleared"} =>
         worker[i] = "approving" \/ kind[i] \in {"plain", "gated"}
    /\ to = "cleared" => ~cancelled
    /\ worker[i] = "running" => to = "done"
    /\ IF to = "running"
       THEN /\ worker[i] = "cleared" /\ ran' = ran \cup {i}
            /\ late' = IF cancelled THEN late \cup {i} ELSE late
       ELSE ran' = ran /\ late' = late
    /\ \/ log' = log
       \/ Grows(Event("ApprovalRequest", i))
       \/ Grows(Event("OutputDenied", i)) /\ worker[i] = "approving" /\ to = "done"
    /\ hookErr' \in BOOLEAN

LEMMA WorkerStep ==
    ASSUME TypeInvariant, NEW i \in Calls, Work(i)
    PROVE  \E to \in WorkerStates : WorkerMoves(i, to)
  <1> USE DEF TypeInvariant, WorkerMoves, WorkerStates, Results, Controls, Move, Finish,
              Record, NoEmission, bodies, config
  <1>1. CASE Admit(i)
    BY <1>1 DEF Admit
  <1>2. CASE Skip(i)
    BY <1>2 DEF Skip, Complete
  <1>3. CASE Clear(i)
    BY <1>3 DEF Clear
  <1>4. CASE SuspendForApproval(i)
    BY <1>4 DEF SuspendForApproval
  <1>5. CASE Approve(i)
    BY <1>5 DEF Approve
  <1>6. CASE ApprovalPanics(i)
    BY <1>6 DEF ApprovalPanics
  <1>7. CASE Start(i)
    BY <1>7 DEF Start
  <1>8. CASE Return(i)
    BY <1>8 DEF Return, Complete
  <1>9. ASSUME NEW ok \in BOOLEAN, RequestApproval(i, ok)
        PROVE  \E to \in WorkerStates : WorkerMoves(i, to)
    BY <1>9 DEF RequestApproval, Emission, Grows, Event
  <1>10. ASSUME NEW ok \in BOOLEAN, Deny(i, ok)
         PROVE  \E to \in WorkerStates : WorkerMoves(i, to)
    BY <1>10 DEF Deny, Complete, Emission, Grows, Event
  <1>11. QED
    BY <1>1, <1>2, <1>3, <1>4, <1>5, <1>6, <1>7, <1>8, <1>9, <1>10 DEF Work

-----------------------------------------------------------------------------
(* What a step of the driver may do. *)

WorkersIdle == UNCHANGED <<kind, approver, worker, cancelled, ran, late>>

(* The slot of the next call is filled without a goroutine. *)
SettlesNext ==
    /\ WorkersIdle /\ UNCHANGED <<control, history>>
    /\ phase \in {"dispatch", "request"} /\ next \in Calls
    /\ phase' = "dispatch" /\ next' = next + 1
    /\ result' \in [Calls -> Results] /\ ctrl' \in [Calls -> Controls]
    /\ \A j \in Calls \ {next} : result'[j] = result[j] /\ ctrl'[j] = ctrl[j]
    /\ result'[next] # "none" \/ ctrl'[next] # "none"
    /\ kind[next] = "invalid" => ctrl'[next] = "none"
    /\ log' = log \/ Grows(Event("ClientToolRequest", next))
    /\ hookErr' \in BOOLEAN

AnnouncesNext ==
    /\ WorkersIdle /\ UNCHANGED <<next, result, ctrl, control, history, hookErr>>
    /\ phase = "dispatch" /\ next \in Calls
    /\ kind[next] \in {"plain", "gated", "client", "skip"}
    /\ phase' = IF kind[next] = "client" THEN "request" ELSE "admit"
    /\ Grows(Event("ToolCallReady", next))

CommitsNext ==
    /\ WorkersIdle /\ UNCHANGED <<result, ctrl>>
    /\ phase = "commit" /\ next \in Calls
    /\ \/ phase' = "commit" /\ next' = next + 1
       \/ phase' = "returned" /\ next' = next /\ control' = "failed"
    /\ control' \in Controls
    /\ history' = history \/ history' = Append(history, next)
    /\ \/ log' = log
       \/ Grows(Event("ToolResult", next)) /\ phase' = "commit"
       \/ Grows(Event("ToolCallInvalid", next)) /\ phase' = "returned"
       \/ /\ log' = Append(Append(log, Event("ToolCallInvalid", next)), Event("ToolResult", next))
          /\ phase' = "commit"
    /\ hookErr' \in BOOLEAN

CommitSteps == CommitControl \/ \E ok \in BOOLEAN : CommitInvalid(ok) \/ CommitResult(ok)

LEMMA DispatchStep ==
    ASSUME TypeInvariant,
           DispatchUnprepared \/ BeforeToolStops
             \/ \E ok \in BOOLEAN : Announce(ok) \/ RequestClient(ok)
    PROVE  SettlesNext \/ AnnouncesNext
  <1> USE DEF TypeInvariant, SettlesNext, WorkersIdle, Results, Controls, AtCall, Record,
              NextCall, NoEmission, Emission, config, bodies, Grows, Event
  <1>1. CASE DispatchUnprepared
    BY <1>1 DEF DispatchUnprepared
  <1>2. CASE BeforeToolStops
    BY <1>2 DEF BeforeToolStops
  <1>3. ASSUME NEW ok \in BOOLEAN, Announce(ok)
        PROVE  SettlesNext \/ AnnouncesNext
    BY <1>3 DEF Announce, AnnouncesNext
  <1>4. ASSUME NEW ok \in BOOLEAN, RequestClient(ok)
        PROVE  SettlesNext
    BY <1>4 DEF RequestClient
  <1>5. QED
    BY <1>1, <1>2, <1>3, <1>4

LEMMA CommitStep == ASSUME TypeInvariant, CommitSteps PROVE CommitsNext
  <1> USE DEF TypeInvariant, CommitsNext, WorkersIdle, Controls, AtCall, NoEmission, Emission,
              config, bodies, Grows, Event, PreferControlErr
  <1>1. CASE CommitControl
    BY <1>1 DEF CommitControl
  <1>2. ASSUME NEW ok \in BOOLEAN, CommitInvalid(ok)
        PROVE  CommitsNext
    <2>1. next \in Calls
      BY <1>2 DEF CommitInvalid
    <2>2. Event("ToolResult", next) \in [type : EventTypes, call : Calls]
          /\ Event("ToolCallInvalid", next) \in [type : EventTypes, call : Calls]
      BY <2>1, EventTyped DEF EventTypes
    <2>3. log \o <<Event("ToolCallInvalid", next), Event("ToolResult", next)>>
          = Append(Append(log, Event("ToolCallInvalid", next)), Event("ToolResult", next))
      BY <2>2, TwoAppends
    <2>4. QED
      BY <1>2, <2>3 DEF CommitInvalid
  <1>3. ASSUME NEW ok \in BOOLEAN, CommitResult(ok)
        PROVE  CommitsNext
    BY <1>3 DEF CommitResult
  <1>4. QED
    BY <1>1, <1>2, <1>3 DEF CommitSteps

(* The steps a proof has to look at. *)
LEMMA StepCases ==
    ASSUME TypeInvariant, [Next]_vars
    PROVE  \/ \E i \in Calls, to \in WorkerStates : Work(i) /\ WorkerMoves(i, to)
           \/ SettlesNext \/ AnnouncesNext \/ Go \/ Wait
           \/ CommitSteps /\ CommitsNext
           \/ ReturnBatch \/ Cancel \/ UNCHANGED vars
  BY WorkerStep, DispatchStep, CommitStep DEF Next, Driver, CommitSteps, Terminated

-----------------------------------------------------------------------------
(* Type correctness needs no more than itself. *)

LEMMA TypesKept == TypeInvariant /\ [Next]_vars => TypeInvariant'
  <1> SUFFICES ASSUME TypeInvariant, [Next]_vars PROVE TypeInvariant'
    OBVIOUS
  <1>1. ASSUME NEW i \in Calls, NEW to \in WorkerStates, WorkerMoves(i, to)
        PROVE  TypeInvariant'
    <2>1. log' \in Seq([type : EventTypes, call : Calls])
      <3>1. CASE log' = log
        BY <3>1 DEF TypeInvariant
      <3>2. CASE Grows(Event("ApprovalRequest", i)) \/ Grows(Event("OutputDenied", i))
        BY <3>2, LogTyped DEF EventTypes
      <3>3. QED
        BY <1>1, <3>1, <3>2 DEF WorkerMoves
    <2>2. QED
      BY <1>1, <2>1 DEF TypeInvariant, WorkerMoves
  <1>2. CASE SettlesNext \/ AnnouncesNext
    <2>1. log' \in Seq([type : EventTypes, call : Calls])
      <3>1. CASE log' = log
        BY <3>1 DEF TypeInvariant
      <3>2. CASE next \in Calls /\ (Grows(Event("ToolCallReady", next))
                                      \/ Grows(Event("ClientToolRequest", next)))
        BY <3>2, LogTyped DEF EventTypes
      <3>3. QED
        BY <1>2, <3>1, <3>2 DEF SettlesNext, AnnouncesNext
    <2>2. next' \in 1..(N + 1)
      BY <1>2, ToolBatchAssumption DEF TypeInvariant, SettlesNext, AnnouncesNext, Calls
    <2>3. QED
      BY <1>2, <2>1, <2>2 DEF TypeInvariant, SettlesNext, AnnouncesNext, WorkersIdle
  <1>3. CASE Go
    <2>1. next' \in 1..(N + 1)
      BY <1>3, ToolBatchAssumption DEF TypeInvariant, Go, NextCall, Calls
    <2>2. QED
      BY <1>3, <2>1
      DEF TypeInvariant, Go, NextCall, NoEmission, WorkerStates, config, bodies
  <1>4. CASE CommitsNext
    <2>1. next' \in 1..(N + 1)
      BY <1>4, ToolBatchAssumption DEF TypeInvariant, CommitsNext, Calls
    <2>2. log' \in Seq([type : EventTypes, call : Calls])
      <3>1. CASE log' = log
        BY <3>1 DEF TypeInvariant
      <3>2. CASE Grows(Event("ToolResult", next)) \/ Grows(Event("ToolCallInvalid", next))
        BY <1>4, <3>2, LogTyped DEF CommitsNext, EventTypes
      <3>3. CASE log' = Append(Append(log, Event("ToolCallInvalid", next)),
                               Event("ToolResult", next))
        <4>1. log \in Seq([type : EventTypes, call : Calls])
          BY DEF TypeInvariant
        <4>2. Event("ToolResult", next) \in [type : EventTypes, call : Calls]
              /\ Event("ToolCallInvalid", next) \in [type : EventTypes, call : Calls]
          BY <1>4, EventTyped DEF CommitsNext, EventTypes
        <4>3. Append(log, Event("ToolCallInvalid", next)) \in Seq([type : EventTypes, call : Calls])
          BY <4>1, <4>2, Appended
        <4>4. Append(Append(log, Event("ToolCallInvalid", next)), Event("ToolResult", next))
              \in Seq([type : EventTypes, call : Calls])
          BY <4>2, <4>3, Appended
        <4>5. QED
          BY <3>3, <4>4
      <3>4. QED
        BY <1>4, <3>1, <3>2, <3>3 DEF CommitsNext
    <2>3. history' \in Seq(Calls)
      <3>1. history \in Seq(Calls) /\ next \in Calls
        BY <1>4 DEF TypeInvariant, CommitsNext
      <3>2. Append(history, next) \in Seq(Calls)
        BY <3>1, Appended
      <3>3. QED
        BY <1>4, <3>1, <3>2 DEF CommitsNext
    <2>4. QED
      BY <1>4, <2>1, <2>2, <2>3 DEF TypeInvariant, CommitsNext, WorkersIdle
  <1>5. CASE Wait \/ ReturnBatch
    BY <1>5, ToolBatchAssumption
    DEF TypeInvariant, Wait, ReturnBatch, NoEmission, config, bodies
  <1>6. CASE Cancel \/ UNCHANGED vars
    BY <1>6 DEF TypeInvariant, Cancel, NoEmission, config, bodies, vars
  <1>7. QED
    BY <1>1, <1>2, <1>3, <1>4, <1>5, <1>6, StepCases

-----------------------------------------------------------------------------
(* The slots. *)

LEMMA CallsFinite == IsFiniteSet(Calls) /\ \A S \in SUBSET Calls : IsFiniteSet(S)
  <1>1. 1 \in Int /\ N \in Int
    BY ToolBatchAssumption
  <1>2. IsFiniteSet(Calls)
    BY <1>1, FS_Interval DEF Calls
  <1>3. QED
    BY <1>2, FS_Subset

LEMMA FewerInFlight ==
    ASSUME NEW S \in SUBSET Calls, NEW T \in SUBSET S, Cardinality(S) <= MaxParallel
    PROVE  Cardinality(T) <= MaxParallel
  BY CallsFinite, FS_Subset, FS_CardinalityType, ToolBatchAssumption

LEMMA SlotsKept == TypeInvariant /\ SlotsBound /\ [Next]_vars => SlotsBound'
  <1> SUFFICES ASSUME TypeInvariant, SlotsBound, [Next]_vars PROVE SlotsBound'
    OBVIOUS
  <1> DEFINE Slots == late \cup Committed
  <1>1. InFlight \in SUBSET Calls /\ Slots \in SUBSET Calls
    BY DEF InFlight, Committed, TypeInvariant
  <1>2. ASSUME InFlight' \subseteq InFlight, cancelled' = cancelled,
               ~cancelled => late' = {}, cancelled => Slots' \subseteq Slots
        PROVE  SlotsBound'
    BY <1>1, <1>2, FewerInFlight DEF SlotsBound
  <1>3. ASSUME NEW i \in Calls, NEW to \in WorkerStates, WorkerMoves(i, to)
        PROVE  SlotsBound'
    <2>1. InFlight' \subseteq InFlight /\ cancelled' = cancelled
      BY <1>3 DEF WorkerMoves, InFlight, TypeInvariant
    <2>2. ~cancelled => late' = {}
      BY <1>3 DEF WorkerMoves, SlotsBound
    <2>3. cancelled => Slots' \subseteq Slots
      BY <1>3 DEF WorkerMoves, Committed, TypeInvariant
    <2>4. QED
      BY <1>2, <2>1, <2>2, <2>3
  <1>4. CASE SettlesNext \/ AnnouncesNext \/ Wait \/ CommitsNext \/ ReturnBatch
             \/ UNCHANGED vars
    <2>1. UNCHANGED <<worker, cancelled, late>>
      BY <1>4 DEF SettlesNext, AnnouncesNext, Wait, CommitsNext, ReturnBatch, WorkersIdle,
                  bodies, vars
    <2>2. InFlight' = InFlight /\ Slots' = Slots
      BY <2>1 DEF InFlight, Committed
    <2>3. QED
      BY <1>2, <2>1, <2>2 DEF SlotsBound
  <1>5. CASE Go
    <2>1. InFlight' = InFlight \cup {next} /\ Slots' \subseteq Slots
      BY <1>5 DEF Go, InFlight, Committed, TypeInvariant, bodies
    <2>2. Cardinality(InFlight') <= Cardinality(InFlight) + 1
      <3>1. IsFiniteSet(InFlight)
        BY <1>1, CallsFinite
      <3>2. Cardinality(InFlight \cup {next}) \in {Cardinality(InFlight), Cardinality(InFlight) + 1}
        BY <3>1, FS_AddElement
      <3>3. Cardinality(InFlight) \in Nat
        BY <3>1, FS_CardinalityType
      <3>4. QED
        BY <2>1, <3>2, <3>3
    <2>3. Cardinality(InFlight') <= MaxParallel
      <3>1. IsFiniteSet(InFlight) /\ IsFiniteSet(InFlight')
        BY <1>1, <1>5, <2>1, CallsFinite DEF Go
      <3>2. Cardinality(InFlight) \in Nat /\ Cardinality(InFlight') \in Nat
        BY <3>1, FS_CardinalityType
      <3>3. Cardinality(InFlight) < MaxParallel
        BY <1>5 DEF Go
      <3>4. QED
        BY <2>2, <3>2, <3>3, ToolBatchAssumption
    <2>4. cancelled' = cancelled /\ late' = late
      BY <1>5 DEF Go, bodies
    <2>5. cancelled => Cardinality(Slots') <= MaxParallel
      BY <1>1, <2>1, FewerInFlight DEF SlotsBound
    <2>6. QED
      BY <2>3, <2>4, <2>5 DEF SlotsBound
  <1>6. CASE Cancel
    <2>1. InFlight' = InFlight /\ Slots' = Committed /\ cancelled'
      BY <1>6 DEF Cancel, InFlight, Committed, SlotsBound, bodies
    <2>2. Committed \in SUBSET InFlight
      BY DEF Committed, InFlight
    <2>3. QED
      BY <1>1, <2>1, <2>2, FewerInFlight DEF SlotsBound
  <1>7. QED
    BY <1>3, <1>4, <1>5, <1>6, StepCases

-----------------------------------------------------------------------------
(* Which events a step adds. *)

LEMMA LoggedStays ==
    ASSUME TypeInvariant, [Next]_vars, NEW type, NEW i, Logged(type, i)
    PROVE  Logged(type, i)'
  <1> DEFINE Events == [type : EventTypes, call : Calls]
  <1>1. log \in Seq(Events)
    BY DEF TypeInvariant
  <1>2. CASE log' = log
    BY <1>2 DEF Logged
  <1>3. ASSUME NEW event \in Events, Grows(event) PROVE Logged(type, i)'
    BY <1>1, <1>3, LoggedGrows
  <1>4. ASSUME NEW j \in Calls, NEW to \in WorkerStates, WorkerMoves(j, to)
        PROVE  Logged(type, i)'
    BY <1>2, <1>3, <1>4, EventTyped DEF WorkerMoves, EventTypes
  <1>5. CASE SettlesNext \/ AnnouncesNext
    BY <1>2, <1>3, <1>5, EventTyped DEF SettlesNext, AnnouncesNext, EventTypes
  <1>6. CASE CommitsNext
    <2>1. CASE log' = Append(Append(log, Event("ToolCallInvalid", next)),
                             Event("ToolResult", next))
      <3>1. Event("ToolCallInvalid", next) \in Events /\ Event("ToolResult", next) \in Events
        BY <1>6, EventTyped DEF CommitsNext, EventTypes
      <3>2. PICK k \in DOMAIN log : log[k] = [type |-> type, call |-> i]
        BY DEF Logged
      <3>3. k \in DOMAIN log' /\ log'[k] = log[k]
        BY <1>1, <2>1, <3>1
      <3>4. QED
        BY <3>2, <3>3 DEF Logged
    <2>2. QED
      BY <1>2, <1>3, <1>6, <2>1, EventTyped DEF CommitsNext, EventTypes
  <1>7. CASE Go \/ Wait \/ ReturnBatch \/ Cancel \/ UNCHANGED vars
    BY <1>2, <1>7 DEF Go, Wait, ReturnBatch, Cancel, NoEmission, vars
  <1>8. QED
    BY <1>4, <1>5, <1>6, <1>7, StepCases

(* Only the worker of a call denies it. *)
LEMMA DeniedByWorker ==
    ASSUME TypeInvariant, NEW i \in Calls, Logged("OutputDenied", i)', ~Logged("OutputDenied", i),
           \/ SettlesNext \/ AnnouncesNext \/ Go \/ Wait \/ CommitsNext
           \/ ReturnBatch \/ Cancel \/ UNCHANGED vars
    PROVE  FALSE
  <1> DEFINE Events == [type : EventTypes, call : Calls]
  <1>1. log \in Seq(Events)
    BY DEF TypeInvariant
  <1>2. log' # log
    BY DEF Logged
  <1>3. ASSUME NEW event \in Events, Grows(event) PROVE event.type = "OutputDenied"
    BY <1>1, <1>3, LoggedGrows DEF Event
  <1>4. CASE SettlesNext \/ AnnouncesNext
    BY <1>2, <1>3, <1>4, EventTyped DEF SettlesNext, AnnouncesNext, EventTypes, Event
  <1>5. CASE CommitsNext
    <2>1. CASE log' = Append(Append(log, Event("ToolCallInvalid", next)),
                             Event("ToolResult", next))
      <3>1. Event("ToolCallInvalid", next) \in Events /\ Event("ToolResult", next) \in Events
        BY <1>5, EventTyped DEF CommitsNext, EventTypes
      <3>2. \A k \in DOMAIN log' : \/ k \in DOMAIN log /\ log'[k] = log[k]
                                  \/ log'[k].type \in {"ToolCallInvalid", "ToolResult"}
        BY <1>1, <2>1, <3>1 DEF Event
      <3>3. QED
        BY <3>2 DEF Logged
    <2>2. QED
      BY <1>2, <1>3, <1>5, <2>1, EventTyped DEF CommitsNext, EventTypes, Event
  <1>6. CASE Go \/ Wait \/ ReturnBatch \/ Cancel \/ UNCHANGED vars
    BY <1>2, <1>6 DEF Go, Wait, ReturnBatch, Cancel, NoEmission, vars
  <1>7. QED
    BY <1>4, <1>5, <1>6

-----------------------------------------------------------------------------
(* The dispatch loop. *)

LEMMA DispatchKept ==
    TypeInvariant /\ DispatchInv /\ WorkerInv /\ [Next]_vars => DispatchInv'
  <1> SUFFICES ASSUME TypeInvariant, DispatchInv, WorkerInv, [Next]_vars PROVE DispatchInv'
    OBVIOUS
  <1>1. next \in 1..(N + 1) /\ N \in Nat
    BY ToolBatchAssumption DEF TypeInvariant
  <1>2. \A type \in EventTypes, i \in Calls : Logged(type, i) => Logged(type, i)'
    BY LoggedStays
  <1>3. ASSUME NEW i \in Calls, NEW to \in WorkerStates, WorkerMoves(i, to)
        PROVE  DispatchInv'
    <2>1. Dispatching /\ i \notin next..N /\ kind[i] # "invalid"
      BY <1>3 DEF WorkerMoves, DispatchInv, WorkerInv, InFlight
    <2>2. phase' = phase /\ next' = next /\ kind' = kind /\ Dispatching'
      BY <1>3, <2>1 DEF WorkerMoves, Dispatching
    <2>3. \A j \in Calls \ {i} : worker'[j] = worker[j] /\ result'[j] = result[j] /\ ctrl'[j] = ctrl[j]
      BY <1>3 DEF WorkerMoves, TypeInvariant
    <2>4. worker'[i] # "idle" /\ (worker'[i] = "done" => Settled(i)')
      BY <1>3 DEF WorkerMoves, TypeInvariant, Settled
    <2>5. phase' \in {"request", "admit"} => next' \in Calls /\ Logged("ToolCallReady", next)'
      BY <1>2, <2>2 DEF DispatchInv, EventTypes
    <2>6. \A j \in next..N : worker'[j] = "idle"
      BY <1>1, <2>1, <2>3 DEF DispatchInv, Calls
    <2>7. \A j \in Calls : worker'[j] \in {"idle", "done"} => j \in next..N \/ Settled(j)'
      BY <2>3, <2>4 DEF DispatchInv, Settled
    <2>8. \A j \in Calls : kind[j] = "invalid" => ctrl'[j] = "none"
      BY <2>1, <2>3 DEF DispatchInv
    <2>9. QED
      BY <2>2, <2>5, <2>6, <2>7, <2>8 DEF DispatchInv
  <1>4. CASE SettlesNext
    <2>1. worker' = worker /\ kind' = kind /\ next \in Calls /\ Dispatching /\ phase' = "dispatch"
          /\ next' = next + 1
      BY <1>4 DEF SettlesNext, WorkersIdle, Dispatching
    <2>2. \A j \in Calls : Settled(j) => Settled(j)'
      BY <1>4 DEF SettlesNext, Settled
    <2>3. \A j \in Calls : j = next => Settled(j)'
      BY <1>4 DEF SettlesNext, Settled
    <2>4. \A j \in Calls : kind[j] = "invalid" => ctrl'[j] = "none"
      BY <1>4 DEF SettlesNext, DispatchInv
    <2>5. \A j \in Calls : j \in next..N => j = next \/ j \in (next + 1)..N
      BY <1>1
    <2>6. \A j \in (next + 1)..N : j \in next..N
      BY <1>1
    <2>7. \A j \in Calls : worker[j] \in {"idle", "done"} => j \in (next + 1)..N \/ Settled(j)'
      BY <2>1, <2>2, <2>3, <2>5 DEF DispatchInv
    <2>8. QED
      BY <2>1, <2>4, <2>6, <2>7 DEF DispatchInv, Dispatching
  <1>5. CASE AnnouncesNext
    <2>1. Logged("ToolCallReady", next)'
      BY <1>5, LoggedGrows, EventTyped DEF AnnouncesNext, EventTypes, TypeInvariant
    <2>2. Dispatching /\ Dispatching' /\ phase' \in {"request", "admit"}
          /\ (phase' = "admit" => kind[next] \in {"plain", "gated", "skip"})
      BY <1>5 DEF AnnouncesNext, Dispatching
    <2>3. UNCHANGED <<kind, worker, next, result, ctrl>> /\ next \in Calls
      BY <1>5 DEF AnnouncesNext, WorkersIdle
    <2>4. QED
      BY <2>1, <2>2, <2>3 DEF DispatchInv, Settled, InFlight
  <1>6. CASE Go
    <2>1. /\ next \in Calls /\ Dispatching /\ phase' = "dispatch" /\ next' = next + 1
          /\ worker' = [worker EXCEPT ![next] = "started"]
          /\ UNCHANGED <<kind, result, ctrl>>
      BY <1>6 DEF Go, NextCall, Dispatching, config
    <2>2. \A j \in Calls : j \in next..N => j = next \/ j \in (next + 1)..N
      BY <1>1
    <2>3. \A j \in (next + 1)..N : j \in next..N /\ j # next /\ j \in Calls
      BY <1>1 DEF Calls
    <2>4. \A j \in (next + 1)..N : worker'[j] = "idle"
      BY <2>1, <2>3 DEF DispatchInv, TypeInvariant
    <2>5. \A j \in Calls : worker'[j] \in {"idle", "done"} => j \in (next + 1)..N \/ Settled(j)'
      BY <2>1, <2>2 DEF DispatchInv, TypeInvariant, Settled
    <2>6. QED
      BY <2>1, <2>4, <2>5 DEF DispatchInv, Dispatching
  <1>7. CASE Wait
    <2>1. UNCHANGED <<kind, worker, result, ctrl>> /\ phase' = "commit" /\ InFlight = {}
      BY <1>7 DEF Wait, config
    <2>2. next..N = {}
      BY <1>1, <1>7 DEF Wait
    <2>3. QED
      BY <2>1, <2>2 DEF DispatchInv, Settled, InFlight, Dispatching
  <1>8. CASE CommitsNext \/ ReturnBatch
    <2>1. UNCHANGED <<kind, worker, result, ctrl>> /\ phase = "commit"
          /\ phase' \in {"commit", "returned"}
      BY <1>8 DEF CommitsNext, ReturnBatch, WorkersIdle, config
    <2>2. QED
      BY <2>1 DEF DispatchInv, Settled, InFlight, Dispatching
  <1>9. CASE Cancel \/ UNCHANGED vars
    BY <1>9 DEF Cancel, NoEmission, config, bodies, vars, DispatchInv, Settled, InFlight,
                Dispatching, Logged
  <1>10. QED
    BY <1>3, <1>4, <1>5, <1>6, <1>7, <1>8, <1>9, StepCases

-----------------------------------------------------------------------------
(* The workers. *)

LEMMA WorkerKept ==
    TypeInvariant /\ DispatchInv /\ WorkerInv /\ [Next]_vars => WorkerInv'
  <1> SUFFICES ASSUME TypeInvariant, DispatchInv, WorkerInv, [Next]_vars PROVE WorkerInv'
    OBVIOUS
  <1>1. \A type \in EventTypes, i \in Calls : Logged(type, i) => Logged(type, i)'
    BY LoggedStays
  <1>2. ASSUME NEW i \in Calls, NEW to \in WorkerStates, WorkerMoves(i, to)
        PROVE  WorkerInv'
    <2> SUFFICES ASSUME NEW j \in Calls
                 PROVE  /\ worker'[j] # "idle" =>
                             kind[j] \in {"plain", "gated", "skip"} /\ Logged("ToolCallReady", j)'
                        /\ worker'[j] \in {"approving", "cleared", "running"} =>
                             kind[j] \in {"plain", "gated"}
                        /\ j \in ran' => worker'[j] \in {"running", "done"}
                                         /\ kind[j] \in {"plain", "gated"}
                        /\ Logged("OutputDenied", j)' => worker'[j] = "done" /\ j \notin ran'
      BY <1>2 DEF WorkerInv, WorkerMoves
    <2>1. j # i => worker'[j] = worker[j]
      BY <1>2 DEF WorkerMoves, TypeInvariant
    <2>2. worker'[i] = to /\ to # "idle" /\ worker[i] \notin {"idle", "done"}
      BY <1>2 DEF WorkerMoves, TypeInvariant
    <2>3. worker'[j] # "idle" => worker[j] # "idle"
      BY <2>1, <2>2
    <2>4. worker'[j] # "idle" => kind[j] \in {"plain", "gated", "skip"} /\ Logged("ToolCallReady", j)'
      BY <1>1, <2>3 DEF WorkerInv, EventTypes
    <2>5. worker'[j] \in {"approving", "cleared", "running"} => kind[j] \in {"plain", "gated"}
      BY <1>2, <2>1, <2>2 DEF WorkerInv, WorkerMoves
    <2>6. j \in ran' => j \in ran \/ (j = i /\ to = "running" /\ worker[i] = "cleared")
      BY <1>2 DEF WorkerMoves
    <2>7. i \in ran => worker[i] = "running" /\ to = "done"
      <3>1. i \in ran => worker[i] = "running"
        BY <2>2 DEF WorkerInv
      <3>2. worker[i] = "running" => to = "done"
        BY <1>2 DEF WorkerMoves
      <3>3. QED
        BY <3>1, <3>2
    <2>8. j \in ran' => worker'[j] \in {"running", "done"} /\ kind[j] \in {"plain", "gated"}
      <3>1. CASE j \in ran /\ j # i
        BY <2>1, <3>1 DEF WorkerInv
      <3>2. CASE j \in ran /\ j = i
        BY <2>2, <2>7, <3>2 DEF WorkerInv
      <3>3. CASE j = i /\ to = "running" /\ worker[i] = "cleared"
        BY <2>2, <3>3 DEF WorkerInv
      <3>4. QED
        BY <2>6, <3>1, <3>2, <3>3
    <2>9. Logged("OutputDenied", j)' =>
            Logged("OutputDenied", j) \/ (j = i /\ worker[i] = "approving" /\ to = "done")
      <3>1. CASE log' = log
        BY <3>1 DEF Logged
      <3>2. ASSUME NEW type \in EventTypes, Grows(Event(type, i)), Logged("OutputDenied", j)'
            PROVE  Logged("OutputDenied", j) \/ (j = i /\ type = "OutputDenied")
        BY <3>2, LoggedGrows, EventTyped DEF TypeInvariant, Event
      <3>3. QED
        BY <1>2, <3>1, <3>2 DEF WorkerMoves, EventTypes
    <2>10. Logged("OutputDenied", j)' => worker'[j] = "done" /\ j \notin ran'
      <3>1. CASE Logged("OutputDenied", j)
        <4>1. worker[j] = "done" /\ j \notin ran /\ j # i
          BY <2>2, <3>1 DEF WorkerInv
        <4>2. QED
          BY <2>1, <2>6, <4>1
      <3>2. CASE j = i /\ worker[i] = "approving" /\ to = "done"
        <4>1. i \notin ran
          BY <3>2 DEF WorkerInv
        <4>2. QED
          BY <2>2, <2>6, <3>2, <4>1
      <3>3. QED
        BY <2>9, <3>1, <3>2
    <2>11. QED
      BY <2>4, <2>5, <2>8, <2>10
  <1>3. ASSUME UNCHANGED <<kind, ran>>,
               \A j \in Calls : worker'[j] # worker[j] =>
                 /\ worker[j] = "idle" /\ worker'[j] = "started"
                 /\ kind[j] \in {"plain", "gated", "skip"} /\ Logged("ToolCallReady", j),
               \A j \in Calls : Logged("OutputDenied", j)' => Logged("OutputDenied", j)
        PROVE  WorkerInv'
    BY <1>1, <1>3 DEF WorkerInv, EventTypes
  <1>4. CASE SettlesNext \/ AnnouncesNext \/ Wait \/ CommitsNext \/ ReturnBatch \/ Cancel
             \/ UNCHANGED vars
    <2>1. UNCHANGED <<kind, ran, worker>>
      BY <1>4 DEF SettlesNext, AnnouncesNext, Wait, CommitsNext, ReturnBatch, Cancel,
                  WorkersIdle, config, bodies, vars
    <2>2. QED
      BY <1>3, <1>4, <2>1, DeniedByWorker
  <1>5. CASE Go
    <2>1. UNCHANGED <<kind, ran>> /\ worker' = [worker EXCEPT ![next] = "started"]
          /\ next \in Calls /\ phase = "admit"
      BY <1>5 DEF Go, config, bodies
    <2>2. worker[next] = "idle" /\ kind[next] \in {"plain", "gated", "skip"}
          /\ Logged("ToolCallReady", next)
      <3>1. next \in next..N
        BY <2>1, ToolBatchAssumption DEF Calls
      <3>2. QED
        BY <2>1, <3>1 DEF DispatchInv, Dispatching
    <2>3. QED
      BY <1>3, <1>5, <2>1, <2>2, DeniedByWorker DEF TypeInvariant
  <1>6. QED
    BY <1>2, <1>4, <1>5, StepCases

-----------------------------------------------------------------------------
(* The order of the log. *)

IsResult(k) == log[k].type = "ToolResult"

LEMMA OrderKept ==
    /\ TypeInvariant /\ DispatchInv /\ LogInv /\ ResultsCommittedInModelOrder
    /\ [Next]_vars
    => LogInv' /\ ResultsCommittedInModelOrder'
  <1> SUFFICES ASSUME TypeInvariant, DispatchInv, LogInv, ResultsCommittedInModelOrder,
                      [Next]_vars
               PROVE  LogInv' /\ ResultsCommittedInModelOrder'
    OBVIOUS
  <1> DEFINE Events == [type : EventTypes, call : Calls]
  <1>1. log \in Seq(Events) /\ next \in 1..(N + 1) /\ N \in Nat
    BY ToolBatchAssumption DEF TypeInvariant
  <1>2. \A k \in DOMAIN log : log[k].call \in Calls
    <2>1. \A k \in DOMAIN log : log[k] \in Events
      BY <1>1, ElementOf
    <2>2. QED
      BY <2>1
  <1>3. ASSUME Dispatching, phase' # "commit",
               log' = log \/ \E type \in EventTypes \ {"ToolResult"}, i \in Calls :
                               Grows(Event(type, i))
        PROVE  LogInv' /\ ResultsCommittedInModelOrder'
    <2>1. \A k \in DOMAIN log' : log'[k].type # "ToolResult"
      <3>1. \A k \in DOMAIN log : log[k].type # "ToolResult"
        BY <1>3 DEF LogInv
      <3>2. ASSUME NEW type \in EventTypes \ {"ToolResult"}, NEW i \in Calls,
                   Grows(Event(type, i)), NEW k \in DOMAIN log'
            PROVE  log'[k].type # "ToolResult"
        <4>1. (k \in DOMAIN log /\ log'[k] = log[k]) \/ log'[k] = Event(type, i)
          BY <1>1, <3>2, GrownLog, EventTyped
        <4>2. QED
          BY <3>1, <3>2, <4>1 DEF Event
      <3>3. QED
        BY <1>3, <3>1, <3>2
    <2>2. QED
      BY <1>3, <2>1 DEF LogInv, ResultsCommittedInModelOrder
  <1>4. ASSUME NEW i \in Calls, NEW to \in WorkerStates, WorkerMoves(i, to)
        PROVE  LogInv' /\ ResultsCommittedInModelOrder'
    <2>1. Dispatching /\ phase' # "commit"
      BY <1>4 DEF WorkerMoves, DispatchInv, InFlight, Dispatching
    <2>2. QED
      BY <1>3, <1>4, <2>1 DEF WorkerMoves, EventTypes
  <1>5. CASE SettlesNext \/ AnnouncesNext
    <2>1. Dispatching /\ phase' # "commit"
      BY <1>5 DEF SettlesNext, AnnouncesNext, Dispatching
    <2>2. QED
      BY <1>3, <1>5, <2>1 DEF SettlesNext, AnnouncesNext, EventTypes
  <1>6. CASE CommitsNext
    <2>1. phase = "commit" /\ next \in Calls /\ next \in Nat
          /\ Event("ToolResult", next) \in Events /\ Event("ToolCallInvalid", next) \in Events
      BY <1>1, <1>6, EventTyped DEF CommitsNext, EventTypes
    <2>2. \A k \in DOMAIN log : IsResult(k) => log[k].call < next
      BY <2>1 DEF LogInv, IsResult
    <2>3. ASSUME NEW k \in DOMAIN log'
          PROVE  \/ k \in DOMAIN log /\ log'[k] = log[k]
                 \/ /\ k > Len(log) /\ log'[k].call = next
                    /\ \/ log'[k].type = "ToolResult" /\ k = Len(log') /\ phase' = "commit"
                       \/ log'[k].type = "ToolCallInvalid"
      <3>1. CASE log' = log
        BY <3>1
      <3>2. CASE Grows(Event("ToolResult", next)) /\ phase' = "commit"
        BY <1>1, <2>1, <2>3, <3>2 DEF Grows, Event
      <3>3. CASE Grows(Event("ToolCallInvalid", next))
        BY <1>1, <2>1, <2>3, <3>3 DEF Grows, Event
      <3>4. CASE /\ log' = Append(Append(log, Event("ToolCallInvalid", next)),
                                  Event("ToolResult", next))
                 /\ phase' = "commit"
        BY <1>1, <2>1, <2>3, <3>4 DEF Event
      <3>5. QED
        BY <1>6, <3>1, <3>2, <3>3, <3>4 DEF CommitsNext
    <2>4. DOMAIN log = 1..Len(log) /\ Len(log) \in Nat /\ DOMAIN log' \subseteq Nat
          /\ \A k \in DOMAIN log' : k <= Len(log')
      <3>1. log' \in Seq(Events)
        BY TypesKept DEF TypeInvariant
      <3>2. QED
        BY <1>1, <3>1
    <2>5. ResultsCommittedInModelOrder'
      <3> SUFFICES ASSUME NEW j \in DOMAIN log', NEW k \in DOMAIN log', j < k,
                          log'[j].type = "ToolResult"
                   PROVE  /\ log'[k].type \in {"ToolResult", "ToolCallInvalid"}
                          /\ log'[j].call < log'[k].call
        BY DEF ResultsCommittedInModelOrder
      <3>1. j \in DOMAIN log /\ log'[j] = log[j]
        BY <2>3, <2>4
      <3>2. CASE k \in DOMAIN log /\ log'[k] = log[k]
        BY <3>1, <3>2 DEF ResultsCommittedInModelOrder
      <3>3. CASE log'[k].call = next /\ log'[k].type \in {"ToolResult", "ToolCallInvalid"}
        BY <2>2, <3>1, <3>3 DEF IsResult
      <3>4. QED
        BY <2>3, <3>2, <3>3
    <2>6. LogInv'
      <3>1. ~Dispatching'
        BY <1>6 DEF CommitsNext, Dispatching
      <3>2. ASSUME phase' = "commit", NEW k \in DOMAIN log', log'[k].type = "ToolResult"
            PROVE  log'[k].call < next'
        <4>1. next' = next + 1
          BY <1>6, <3>2 DEF CommitsNext
        <4>2. log'[k].call = next \/ (k \in DOMAIN log /\ log'[k] = log[k])
          BY <2>3
        <4>3. k \in DOMAIN log /\ log'[k] = log[k] => log'[k].call < next /\ log[k].call \in Nat
          BY <1>2, <2>2, <3>2 DEF IsResult, Calls
        <4>4. QED
          BY <2>1, <4>1, <4>2, <4>3
      <3>3. QED
        BY <3>1, <3>2 DEF LogInv
    <2>7. QED
      BY <2>5, <2>6
  <1>7. CASE Go \/ Wait \/ ReturnBatch \/ Cancel \/ UNCHANGED vars
    <2>1. log' = log
      BY <1>7 DEF Go, Wait, ReturnBatch, Cancel, NoEmission, vars
    <2>2. ResultsCommittedInModelOrder'
      BY <2>1 DEF ResultsCommittedInModelOrder
    <2>3. Dispatching' => Dispatching
      BY <1>7 DEF Go, Wait, ReturnBatch, Cancel, NextCall, Dispatching, vars
    <2>4. phase' = "commit" => (phase = "commit" /\ next' = next) \/ Dispatching
      BY <1>7 DEF Go, Wait, ReturnBatch, Cancel, NextCall, Dispatching, vars
    <2>5. QED
      BY <2>1, <2>2, <2>3, <2>4 DEF LogInv
  <1>8. QED
    BY <1>4, <1>5, <1>6, <1>7, StepCases

-----------------------------------------------------------------------------
(* The outcome. *)

LEMMA CommittedHistory ==
    ASSUME TypeInvariant, next \in Calls, history' = Append(history, next)
    PROVE  /\ Len(history') = Len(history) + 1 /\ Len(history) \in Nat
           /\ history'[Len(history) + 1] = next
           /\ Len(history) + 1 \in DOMAIN history'
           /\ \A k \in DOMAIN history : k \in DOMAIN history' /\ history'[k] = history[k]
           /\ DOMAIN history = 1..Len(history)
  <1>1. history \in Seq(Calls)
    BY DEF TypeInvariant
  <1>2. QED
    BY <1>1

(* A committed result is in the log. *)
LEMMA ResultLogged ==
    ASSUME TypeInvariant, next \in Calls,
           \/ Grows(Event("ToolResult", next))
           \/ log' = log \o <<Event("ToolCallInvalid", next), Event("ToolResult", next)>>,
           NEW i \in Calls, i = next
    PROVE  Logged("ToolResult", i)'
  <1>1. log \in Seq([type : EventTypes, call : Calls])
    BY DEF TypeInvariant
  <1>2. Event("ToolResult", i) \in [type : EventTypes, call : Calls]
        /\ Event("ToolCallInvalid", i) \in [type : EventTypes, call : Calls]
    BY EventTyped DEF EventTypes
  <1>3. CASE Grows(Event("ToolResult", i))
    BY <1>1, <1>2, <1>3, LoggedGrows
  <1>4. CASE log' = log \o <<Event("ToolCallInvalid", i), Event("ToolResult", i)>>
    <2>1. Len(log) + 2 \in DOMAIN log' /\ log'[Len(log) + 2] = Event("ToolResult", i)
      BY <1>1, <1>2, <1>4
    <2>2. QED
      BY <2>1 DEF Logged, Event
  <1>5. QED
    BY <1>3, <1>4

LEMMA CommitKept ==
    TypeInvariant /\ DispatchInv /\ CommitInv /\ [Next]_vars => CommitInv'
  <1> SUFFICES ASSUME TypeInvariant, DispatchInv, CommitInv, [Next]_vars
               PROVE  CommitInv'
    OBVIOUS
  <1>1. next \in 1..(N + 1) /\ N \in Nat
    BY ToolBatchAssumption DEF TypeInvariant
  <1>2. \A type \in EventTypes, i \in Calls : Logged(type, i) => Logged(type, i)'
    BY LoggedStays
  <1>3. ASSUME Dispatching, Dispatching', UNCHANGED <<control, history>>
        PROVE  CommitInv'
    BY <1>3 DEF CommitInv, Dispatching
  <1>4. ASSUME NEW i \in Calls, NEW to \in WorkerStates, WorkerMoves(i, to)
        PROVE  CommitInv'
    <2>1. Dispatching /\ Dispatching' /\ UNCHANGED <<control, history>>
      BY <1>4 DEF WorkerMoves, DispatchInv, InFlight, Dispatching
    <2>2. QED
      BY <1>3, <2>1
  <1>5. CASE SettlesNext \/ AnnouncesNext \/ Go
    <2>1. Dispatching /\ Dispatching' /\ UNCHANGED <<control, history>>
      BY <1>5 DEF SettlesNext, AnnouncesNext, Go, NextCall, Dispatching
    <2>2. QED
      BY <1>3, <2>1
  <1>6. CASE Wait
    <2>1. control' = "none" /\ history' = <<>> /\ next' = 1 /\ phase' = "commit"
      BY <1>6 DEF Wait, CommitInv, Dispatching
    <2>2. 1..(next' - 1) = {} /\ Len(history') = next' - 1
      BY <2>1
    <2>3. QED
      BY <2>1, <2>2 DEF CommitInv, Dispatching
  <1>7. CASE CommitSteps /\ CommitsNext /\ phase' = "returned"
    <2>1. control' = "failed"
      BY <1>7 DEF CommitsNext
    <2>2. QED
      BY <1>7, <2>1 DEF CommitInv, Dispatching
  <1>8. CASE CommitSteps /\ CommitsNext /\ phase' = "commit"
    <2>1. /\ phase = "commit" /\ next \in Calls /\ next' = next + 1 /\ ~Dispatching /\ ~Dispatching'
          /\ UNCHANGED <<kind, ctrl>>
      BY <1>8 DEF CommitsNext, Dispatching, WorkersIdle
    <2>2. \A i \in 1..next : i \in Calls /\ (i = next \/ i \in 1..(next - 1))
      BY <1>1, <2>1 DEF Calls
    <2>3. Settled(next) /\ (kind[next] = "invalid" => ctrl[next] = "none")
      BY <2>1 DEF DispatchInv, InFlight
    <2>4. control' = "none" =>
            /\ control = "none" /\ history' = Append(history, next)
            /\ \A i \in Calls : i = next => Logged("ToolResult", i)'
      <3>1. ASSUME CommitControl PROVE control' # "none"
        BY <2>3, <3>1 DEF CommitControl, PreferControlErr, Settled
      <3>2. ASSUME NEW ok \in BOOLEAN, CommitResult(ok), control' = "none"
            PROVE  /\ control = "none" /\ history' = Append(history, next)
                   /\ Grows(Event("ToolResult", next))
        BY <3>2 DEF CommitResult, Emission, PreferControlErr, Grows, Event
      <3>3. ASSUME NEW ok \in BOOLEAN, CommitInvalid(ok), control' = "none"
            PROVE  /\ control = "none" /\ history' = Append(history, next)
                   /\ log' = log \o <<Event("ToolCallInvalid", next), Event("ToolResult", next)>>
        BY <1>8, <3>3 DEF CommitInvalid, Event
      <3>4. QED
        BY <1>8, <2>1, <3>1, <3>2, <3>3, ResultLogged DEF CommitSteps
    <2>5. control' # "failed" =>
            /\ control # "failed"
            /\ ctrl[next] = "suspended" \/ (ctrl[next] = "none" /\ history' = Append(history, next))
            /\ history' = history \/ history' = Append(history, next)
      <3>1. control \in Controls /\ ctrl[next] \in Controls
        BY <2>1 DEF TypeInvariant
      <3>2. ASSUME CommitControl, control' # "failed"
            PROVE  control # "failed" /\ ctrl[next] = "suspended" /\ history' = history
        BY <2>3, <3>1, <3>2 DEF CommitControl, PreferControlErr, Settled, Controls
      <3>3. ASSUME NEW ok \in BOOLEAN, CommitResult(ok), control' # "failed"
            PROVE  /\ control # "failed" /\ ctrl[next] # "failed"
                   /\ history' = Append(history, next)
        BY <3>1, <3>3 DEF CommitResult, PreferControlErr, Controls
      <3>4. ASSUME NEW ok \in BOOLEAN, CommitInvalid(ok), control' # "failed"
            PROVE  /\ control # "failed" /\ ctrl[next] = "none"
                   /\ history' = Append(history, next)
        BY <1>8, <2>3, <3>4 DEF CommitInvalid, AtCall
      <3>5. QED
        BY <1>8, <3>1, <3>2, <3>3, <3>4 DEF CommitSteps, Controls
    <2>6. ASSUME control' = "none"
          PROVE  /\ Len(history') = next' - 1
                 /\ \A i \in 1..(next' - 1) : history'[i] = i /\ Logged("ToolResult", i)'
      <3>1. Len(history) = next - 1
            /\ \A i \in 1..(next - 1) : history[i] = i /\ Logged("ToolResult", i)
        BY <2>1, <2>4, <2>6 DEF CommitInv
      <3>2. Len(history') = next' - 1 /\ 1..(next' - 1) = 1..next /\ next \in Nat
        BY <1>1, <2>1, <2>4, <2>6, <3>1, CommittedHistory
      <3>3. ASSUME NEW i \in 1..next PROVE history'[i] = i /\ Logged("ToolResult", i)'
        <4>1. CASE i = next
          BY <2>1, <2>4, <2>6, <3>1, <3>2, <4>1, CommittedHistory
        <4>2. CASE i \in 1..(next - 1)
          BY <1>2, <2>1, <2>2, <2>4, <2>6, <3>1, <4>2, CommittedHistory DEF EventTypes
        <4>3. QED
          BY <2>2, <4>1, <4>2
      <3>4. QED
        BY <3>2, <3>3
    <2>7. ASSUME control' # "failed", NEW i \in 1..(next' - 1)
          PROVE  Waits(i)' \/ Recorded(i)'
      <3>1. i \in 1..next
        BY <1>1, <2>1, <2>7
      <3>2. ASSUME Recorded(i) PROVE Recorded(i)'
        BY <2>1, <2>5, <2>7, <3>2, CommittedHistory DEF Recorded
      <3>3. CASE i = next
        <4>1. CASE ctrl[next] = "suspended"
          BY <2>1, <3>3, <4>1 DEF Waits
        <4>2. CASE ctrl[next] = "none" /\ history' = Append(history, next)
          BY <2>1, <3>3, <4>2, CommittedHistory DEF Recorded
        <4>3. QED
          BY <2>5, <2>7, <4>1, <4>2
      <3>4. CASE i \in 1..(next - 1)
        BY <2>1, <2>5, <2>7, <3>2, <3>4 DEF CommitInv, Waits
      <3>5. QED
        BY <2>2, <3>1, <3>3, <3>4
    <2>8. QED
      BY <2>1, <2>6, <2>7, <1>8 DEF CommitInv
  <1>9. CASE ReturnBatch
    <2>1. UNCHANGED <<next, ctrl, control, history, log>> /\ phase = "commit" /\ phase' = "returned"
          /\ next = N + 1
      BY <1>9 DEF ReturnBatch, NoEmission
    <2>2. QED
      BY <2>1 DEF CommitInv, Dispatching, Waits, Recorded, Logged
  <1>10. CASE Cancel \/ UNCHANGED vars
    <2>1. UNCHANGED <<phase, next, ctrl, control, history, log>>
      BY <1>10 DEF Cancel, NoEmission, vars
    <2>2. QED
      BY <2>1 DEF CommitInv, Dispatching, Waits, Recorded, Logged
  <1>11. QED
    BY <1>4, <1>5, <1>6, <1>7, <1>8, <1>9, <1>10, StepCases DEF CommitsNext

-----------------------------------------------------------------------------
(* The theorems.  They hold of FairSpec too, which implies Spec. *)

LEMMA InitHolds == Init => IndInv
  <1> SUFFICES ASSUME Init PROVE IndInv
    OBVIOUS
  <1>1. N \in Nat /\ MaxParallel \in Nat \ {0}
    BY ToolBatchAssumption
  <1>2. TypeInvariant
    <2>1. log \in Seq([type : EventTypes, call : Calls]) /\ history \in Seq(Calls)
      BY DEF Init
    <2>2. next \in 1..(N + 1)
      BY <1>1 DEF Init
    <2>3. QED
      BY <2>1, <2>2 DEF Init, TypeInvariant, WorkerStates, Results, Controls
  <1>3. SlotsBound
    <2>1. InFlight = {}
      BY DEF Init, InFlight
    <2>2. QED
      BY <1>1, <2>1, FS_EmptySet DEF Init, SlotsBound
  <1>4. DispatchInv /\ WorkerInv /\ LogInv /\ ResultsCommittedInModelOrder /\ CommitInv
    BY <1>1 DEF Init, DispatchInv, WorkerInv, LogInv, ResultsCommittedInModelOrder,
                CommitInv, Dispatching, Logged, Calls
  <1>5. QED
    BY <1>2, <1>3, <1>4 DEF IndInv

(* A batch never leaves the inductive invariant, whatever order its loop,   *)
(* its workers, its hooks and its cancellation act in.                      *)
THEOREM Invariance == Spec => []IndInv
  <1>1. IndInv /\ [Next]_vars => IndInv'
    BY TypesKept, SlotsKept, DispatchKept, WorkerKept, OrderKept, CommitKept DEF IndInv
  <1>2. QED
    BY InitHolds, <1>1, PTL DEF Spec

(* Every variable keeps its type and both loops stay within the batch.      *)
THEOREM TypeCorrect == Spec => []TypeInvariant
  <1>1. IndInv => TypeInvariant
    BY DEF IndInv
  <1>2. QED
    BY <1>1, Invariance, PTL

(* A cancellation lets at most MaxParallel more tool bodies start, however  *)
(* many calls are queued (the second look at the context in                 *)
(* approvedToolCall, and the limit of the errgroup).                        *)
THEOREM CancellationIsFelt == Spec => []CancellationCapsStarts
  <1>1. IndInv => CancellationCapsStarts
    <2> SUFFICES ASSUME IndInv PROVE Cardinality(late) <= MaxParallel
      BY DEF CancellationCapsStarts
    <2>1. late \in SUBSET Calls /\ Committed \in SUBSET Calls
      BY DEF IndInv, TypeInvariant, Committed
    <2>2. CASE cancelled
      BY <2>1, <2>2, FewerInFlight DEF IndInv, SlotsBound
    <2>3. CASE ~cancelled
      BY <2>3, FS_EmptySet, ToolBatchAssumption DEF IndInv, SlotsBound
    <2>4. QED
      BY <2>2, <2>3
  <1>2. QED
    BY <1>1, Invariance, PTL

(* The results leave the batch in model order and after everything else it  *)
(* announces, in whatever order the workers finished.                       *)
THEOREM ResultsInOrder == Spec => []ResultsCommittedInModelOrder
  <1>1. IndInv => ResultsCommittedInModelOrder
    BY DEF IndInv
  <1>2. QED
    BY <1>1, Invariance, PTL

(* A tool body runs only for an announced call of the server's own tools    *)
(* that no hook answered, and a denied call never runs.                     *)
THEOREM BodiesAreAnnounced == Spec => []NothingRunsUnannounced
  <1>1. IndInv => NothingRunsUnannounced
    <2> SUFFICES ASSUME IndInv, NEW i \in ran
                 PROVE  /\ kind[i] \in {"plain", "gated"}
                        /\ Logged("ToolCallReady", i) /\ ~Logged("OutputDenied", i)
      BY DEF NothingRunsUnannounced
    <2>1. i \in Calls
      BY DEF IndInv, TypeInvariant
    <2>2. QED
      BY <2>1 DEF IndInv, WorkerInv
  <1>2. QED
    BY <1>1, Invariance, PTL

(* When the run goes on to its next model call, the history has the result  *)
(* of every call of this turn, in model order, and each was emitted.        *)
THEOREM ContinueIsComplete == Spec => []ContinueHasEveryResult
  <1>1. IndInv => ContinueHasEveryResult
    <2> SUFFICES ASSUME IndInv, phase = "returned", control = "none"
                 PROVE  /\ history = [i \in Calls |-> i]
                        /\ \A i \in Calls : Logged("ToolResult", i)
      BY DEF ContinueHasEveryResult
    <2>1. next = N + 1 /\ next - 1 = N /\ 1..(next - 1) = Calls
      BY ToolBatchAssumption DEF IndInv, CommitInv, Calls
    <2>2. Len(history) = N /\ \A i \in Calls : history[i] = i /\ Logged("ToolResult", i)
      BY <2>1 DEF IndInv, CommitInv, Dispatching
    <2>3. history \in Seq(Calls)
      BY DEF IndInv, TypeInvariant
    <2>4. history = [i \in 1..Len(history) |-> history[i]]
      BY <2>3
    <2>5. history = [i \in Calls |-> i]
      BY <2>2, <2>4 DEF Calls
    <2>6. QED
      BY <2>2, <2>5
  <1>2. QED
    BY <1>1, Invariance, PTL

(* When the run is suspended, every call either waits for the caller or has *)
(* its result in the history; a failure is never taken for a suspension     *)
(* (preferControlErr).                                                *)
THEOREM SuspensionIsHonest == Spec => []SuspensionHidesNoFailure
  <1>1. IndInv => SuspensionHidesNoFailure
    <2> SUFFICES ASSUME IndInv, phase = "returned", control = "suspended", NEW i \in Calls
                 PROVE  Waits(i) \/ Recorded(i)
      BY DEF SuspensionHidesNoFailure, Waits, Recorded
    <2>1. 1..(next - 1) = Calls
      BY ToolBatchAssumption DEF IndInv, CommitInv, Calls
    <2>2. QED
      BY <2>1 DEF IndInv, CommitInv, Dispatching
  <1>2. QED
    BY <1>1, Invariance, PTL
=============================================================================
