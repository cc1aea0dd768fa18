--------------------------- MODULE ApprovalResume ----------------------------
(***************************************************************************)
(* Runs that resume from a history with answered approvals, sharing one     *)
(* MemoryApprovalReplayGuard.  Each run reserves the capabilities of all    *)
(* approved calls at once, works through the answered calls in order, and   *)
(* releases what it did not complete when resumeToolApprovals returns.      *)
(*                                                                         *)
(* ReserveApprovals, Complete and Release each hold the guard's mutex, so   *)
(* each is one step; everything between them interleaves.  The reservation  *)
(* is used by its own run only, Release last, so its released flag is the   *)
(* location "returned".                                                     *)
(***************************************************************************)
EXTENDS Integers, Sequences

CONSTANTS
    Runs,          \* runs that resume approvals
    Capabilities,  \* the signatures of the approval requests
    Histories      \* the answered calls a run may find in its history

Answers == [cap : Capabilities, approved : BOOLEAN]

ASSUME ApprovalResumeAssumption == Histories \subseteq Seq(Answers)

VARIABLES
    history,      \* the answered calls of each run, in order
    pc,           \* where resumeToolApprovals is
    at,           \* the call of the loop it is at
    pending,      \* reservation.pending
    terminalErr,  \* terminalErr of the call
    outcome,      \* what resumeToolApprovals returns
    cancelled,    \* the context of the run is done
    claimed,      \* guard.claimed
    consumed,     \* guard.consumed
    attempts      \* tool attempts per capability (history variable)

guardVars == <<claimed, consumed>>
loopVars == <<pc, at, terminalErr, outcome>>
vars == <<history, loopVars, pending, cancelled, guardVars, attempts>>

Locations ==
    {"start", "reserve", "call", "execute", "complete", "report", "release", "returned"}

(* A run returns a resumed history, the context's error, another error, or  *)
(* no history and no error: the last when a hook refused an event.          *)
Outcomes == {"none", "resumed", "cancelled", "replay", "failed", "empty"}

Init ==
    /\ history \in [Runs -> Histories]
    /\ pc = [r \in Runs |-> "start"]
    /\ at = [r \in Runs |-> 1]
    /\ pending = [r \in Runs |-> {}]
    /\ terminalErr = [r \in Runs |-> FALSE]
    /\ outcome = [r \in Runs |-> "none"]
    /\ cancelled = [r \in Runs |-> FALSE]
    /\ claimed = {} /\ consumed = {}
    /\ attempts = [c \in Capabilities |-> 0]

-----------------------------------------------------------------------------
Approved(r) == {i \in DOMAIN history[r] : history[r][i].approved}
Grants(r) == {history[r][i].cap : i \in Approved(r)}
Current(r) == history[r][at[r]]

Repeated(r) ==
    \E i, j \in Approved(r) : i # j /\ history[r][i].cap = history[r][j].cap

Goto(r, from, to) ==
    /\ pc[r] = from
    /\ pc' = [pc EXCEPT ![r] = to]
    /\ UNCHANGED <<history, cancelled>>

Leave(r, from, to, result) ==
    /\ Goto(r, from, to)
    /\ outcome' = [outcome EXCEPT ![r] = result]
    /\ UNCHANGED <<at, terminalErr, pending, guardVars, attempts>>

(* emitObserved returned false. *)
RefusedOutcome(r) == IF cancelled[r] THEN "cancelled" ELSE "empty"

(* Without approved calls nothing is reserved, else the context is checked. *)
Start(r) ==
    \/ /\ Grants(r) = {} /\ Goto(r, "start", "call")
       /\ UNCHANGED <<at, terminalErr, outcome, pending, guardVars, attempts>>
    \/ Grants(r) # {} /\ cancelled[r] /\ Leave(r, "start", "returned", "cancelled")
    \/ /\ Grants(r) # {} /\ ~cancelled[r] /\ Goto(r, "start", "reserve")
       /\ UNCHANGED <<at, terminalErr, outcome, pending, guardVars, attempts>>

(* Mutant: a capability claimed by another run is granted again. *)
ReserveClaimed(r) ==
    /\ ~Repeated(r) /\ Grants(r) \cap consumed = {}
    /\ Goto(r, "reserve", "call")
    /\ claimed' = claimed \cup Grants(r)
    /\ pending' = [pending EXCEPT ![r] = Grants(r)]
    /\ UNCHANGED <<at, terminalErr, outcome, consumed, attempts>>

(* Mutant: the batch is not searched for repetitions. *)
ReserveRepeated(r) ==
    /\ Grants(r) \cap (consumed \cup claimed) = {}
    /\ Goto(r, "reserve", "call")
    /\ claimed' = claimed \cup Grants(r)
    /\ pending' = [pending EXCEPT ![r] = Grants(r)]
    /\ UNCHANGED <<at, terminalErr, outcome, consumed, attempts>>

(* The whole batch is claimed or nothing is. *)
Reserve(r) ==
    /\ ~Repeated(r) /\ Grants(r) \cap (consumed \cup claimed) = {}
    /\ Goto(r, "reserve", "call")
    /\ claimed' = claimed \cup Grants(r)
    /\ pending' = [pending EXCEPT ![r] = Grants(r)]
    /\ UNCHANGED <<at, terminalErr, outcome, consumed, attempts>>

(* Mutant: the batch is claimed while it is checked, and a refusal leaves   *)
(* the claims made so far.                                                  *)
RefuseHalfway(r) ==
    /\ Repeated(r) \/ Grants(r) \cap (consumed \cup claimed) # {}
    /\ Goto(r, "reserve", "returned")
    /\ outcome' = [outcome EXCEPT ![r] = "replay"]
    /\ claimed' = claimed \cup (Grants(r) \ consumed)
    /\ UNCHANGED <<at, terminalErr, pending, consumed, attempts>>

Refuse(r) ==
    /\ Repeated(r) \/ Grants(r) \cap (consumed \cup claimed) # {}
    /\ Leave(r, "reserve", "returned", "replay")

-----------------------------------------------------------------------------
(* The loop over the answered calls. *)

AtCall(r, approved) ==
    /\ pc[r] = "call" /\ at[r] \in DOMAIN history[r]
    /\ Current(r).approved = approved

LoopDone(r) ==
    /\ at[r] \notin DOMAIN history[r]
    /\ Leave(r, "call", "release", "resumed")

(* Mutant: the branch of a denied call advances the loop on its own. *)
DenyAdvances(r) ==
    /\ AtCall(r, FALSE)
    /\ Goto(r, "call", "report")
    /\ at' = [at EXCEPT ![r] = @ + 1]
    /\ UNCHANGED <<terminalErr, outcome, pending, guardVars, attempts>>

(* A denied call runs nothing; whether its event was taken is not looked at. *)
Deny(r) ==
    /\ AtCall(r, FALSE)
    /\ Goto(r, "call", "report")
    /\ \E failed \in BOOLEAN : terminalErr' = [terminalErr EXCEPT ![r] = failed]
    /\ UNCHANGED <<at, outcome, pending, guardVars, attempts>>

Ready(r) ==
    /\ AtCall(r, TRUE) /\ ~cancelled[r]
    /\ Goto(r, "call", "execute")
    /\ UNCHANGED <<at, terminalErr, outcome, pending, guardVars, attempts>>

(* Mutant: the early return skips the release of the reservation. *)
ReadyRefusedUnreleased(r) ==
    AtCall(r, TRUE) /\ Leave(r, "call", "returned", RefusedOutcome(r))

(* Mutant: a refused announcement passes on to the next call. *)
ReadyRefusedSkips(r) ==
    /\ AtCall(r, TRUE)
    /\ Goto(r, "call", "call")
    /\ at' = [at EXCEPT ![r] = @ + 1]
    /\ UNCHANGED <<terminalErr, outcome, pending, guardVars, attempts>>

(* The context is done, or an event hook refuses the announcement. *)
ReadyRefused(r) ==
    AtCall(r, TRUE) /\ Leave(r, "call", "release", RefusedOutcome(r))

(* The tool body starts; it may return or panic. *)
Execute(r) ==
    /\ Goto(r, "execute", "complete")
    /\ attempts' = [attempts EXCEPT ![Current(r).cap] = @ + 1]
    /\ UNCHANGED <<at, terminalErr, outcome, pending, guardVars>>

(* Mutant: Complete gives the claim back without recording it. *)
CompleteUnrecorded(r) ==
    LET c == Current(r).cap
    IN  /\ Goto(r, "complete", "report")
        /\ pending' = [pending EXCEPT ![r] = @ \ {c}]
        /\ claimed' = claimed \ {c}
        /\ \E failed \in BOOLEAN : terminalErr' = [terminalErr EXCEPT ![r] = failed]
        /\ UNCHANGED <<at, outcome, consumed, attempts>>

(* The deferred Complete, also after a panic of the tool, whatever became   *)
(* of the context.  The panic, a failing Complete and a failing output      *)
(* transform stop the run after the result.                                 *)
Complete(r) ==
    LET c == Current(r).cap
    IN  /\ Goto(r, "complete", "report")
        /\ IF c \in pending[r]
           THEN /\ pending' = [pending EXCEPT ![r] = @ \ {c}]
                /\ claimed' = claimed \ {c}
                /\ consumed' = consumed \cup {c}
                /\ \E failed \in BOOLEAN : terminalErr' = [terminalErr EXCEPT ![r] = failed]
           ELSE /\ terminalErr' = [terminalErr EXCEPT ![r] = TRUE]
                /\ UNCHANGED <<pending, guardVars>>
        /\ UNCHANGED <<at, outcome, attempts>>

(* The result is emitted; an error of the call then ends the run. *)
Report(r) ==
    /\ ~cancelled[r]
    /\ IF terminalErr[r]
       THEN Leave(r, "report", "release", "failed")
       ELSE /\ Goto(r, "report", "call")
            /\ at' = [at EXCEPT ![r] = @ + 1]
            /\ UNCHANGED <<terminalErr, outcome, pending, guardVars, attempts>>

(* The receipt cannot be signed, or the result's event is refused. *)
ReportFails(r) ==
    \E result \in {"failed", RefusedOutcome(r)} : Leave(r, "report", "release", result)

(* Mutant: what is released counts as consumed. *)
ReleaseConsumes(r) ==
    /\ Goto(r, "release", "returned")
    /\ claimed' = claimed \ pending[r]
    /\ consumed' = consumed \cup pending[r]
    /\ pending' = [pending EXCEPT ![r] = {}]
    /\ UNCHANGED <<at, terminalErr, outcome, attempts>>

(* The deferred Release. *)
Release(r) ==
    /\ Goto(r, "release", "returned")
    /\ claimed' = claimed \ pending[r]
    /\ pending' = [pending EXCEPT ![r] = {}]
    /\ UNCHANGED <<at, terminalErr, outcome, consumed, attempts>>

Run(r) ==
    \/ Start(r) \/ Reserve(r) \/ Refuse(r)
    \/ LoopDone(r) \/ Deny(r) \/ Ready(r) \/ ReadyRefused(r)
    \/ Execute(r) \/ Complete(r) \/ Report(r) \/ ReportFails(r) \/ Release(r)

Cancel(r) ==
    /\ ~cancelled[r]
    /\ cancelled' = [cancelled EXCEPT ![r] = TRUE]
    /\ UNCHANGED <<history, loopVars, pending, guardVars, attempts>>

Terminated == (\A r \in Runs : pc[r] = "returned") /\ UNCHANGED vars

Next == (\E r \in Runs : Run(r) \/ Cancel(r)) \/ Terminated

Spec == Init /\ [][Next]_vars

(* Every driver goroutine runs: the tool bodies return or panic. *)
FairSpec == Spec /\ \A r \in Runs : WF_vars(Run(r))
-----------------------------------------------------------------------------
(* Properties. *)

(* Every variable stays in its type, and the loop within the history. *)
TypeInvariant ==
    /\ history \in [Runs -> Histories]
    /\ pc \in [Runs -> Locations]
    /\ at \in [Runs -> Nat \ {0}]
    /\ \A r \in Runs : at[r] <= Len(history[r]) + 1
    /\ pending \in [Runs -> SUBSET Capabilities]
    /\ terminalErr \in [Runs -> BOOLEAN]
    /\ outcome \in [Runs -> Outcomes]
    /\ cancelled \in [Runs -> BOOLEAN]
    /\ claimed \subseteq Capabilities /\ consumed \subseteq Capabilities
    /\ attempts \in [Capabilities -> Nat]

(* A signed approval lets its tool call be attempted once, however many      *)
(* runs present it, concurrently or after one another, panics included.      *)
AtMostOneAttempt == \A c \in Capabilities : attempts[c] <= 1

(* Whoever runs a tool holds its capability: Complete never finds that its  *)
(* grant is not pending.                                                    *)
RunnerHoldsCapability ==
    \A r \in Runs :
        pc[r] \in {"execute", "complete"} => Current(r).cap \in pending[r]

(* Every claim in the guard belongs to exactly one live reservation, so no  *)
(* refused, cancelled or failed resume leaves a capability blocked; and     *)
(* whoever runs a tool still holds the claim that Complete will look up.    *)
ClaimsAreOwned ==
    /\ claimed = UNION {pending[r] : r \in Runs}
    /\ \A r, s \in Runs : r # s => pending[r] \cap pending[s] = {}
    /\ \A r \in Runs : pc[r] = "returned" => pending[r] = {}
    /\ claimed \cap consumed = {}
    /\ RunnerHoldsCapability

(* A capability whose call was never attempted is never consumed, so a      *)
(* resume cancelled before it can be retried.                               *)
UnattemptedIsNotConsumed == \A c \in consumed : attempts[c] > 0

(* A history is handed to the model only after every approved call of it    *)
(* was attempted.                                                           *)
ResumedHasEveryAttempt ==
    \A r \in Runs : outcome[r] = "resumed" => \A c \in Grants(r) : attempts[c] = 1

(* No capability stays claimed: it is completed or released. *)
ClaimsEnd == \A c \in Capabilities : c \in claimed ~> c \notin claimed

(* The guard, as the runs use it, keeps the promise of CapabilityLease. *)
Lease == INSTANCE CapabilityLease WITH lease <- pending

ImplementsLease == Lease!Spec
=============================================================================
