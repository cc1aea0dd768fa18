------------------------ MODULE ApprovalResumeProofs -------------------------
(***************************************************************************)
(* Proofs about ApprovalResume, for every number of runs, capabilities and  *)
(* histories.  The invariants follow from one inductive invariant, IndInv,  *)
(* which relates the place of a run in its history to what the guard knows  *)
(* of the capabilities before, at and after that place.                     *)
(***************************************************************************)
EXTENDS ApprovalResume, TLAPS

InLoop == {"call", "execute", "complete", "report"}
OnCall == {"execute", "complete", "report"}
Executing == {"execute", "complete"}

Types ==
    /\ history \in [Runs -> Histories]
    /\ pc \in [Runs -> Locations]
    /\ at \in [Runs -> Nat \ {0}]
    /\ pending \in [Runs -> SUBSET Capabilities]
    /\ terminalErr \in [Runs -> BOOLEAN]
    /\ outcome \in [Runs -> Outcomes]
    /\ cancelled \in [Runs -> BOOLEAN]
    /\ claimed \subseteq Capabilities /\ consumed \subseteq Capabilities
    /\ attempts \in [Capabilities -> Nat]

(* The loop starts at the first call and stays within the history, on an    *)
(* approved call when a tool is being run.                                  *)
Located(r) ==
    /\ at[r] <= Len(history[r]) + 1
    /\ pc[r] \in OnCall => at[r] \in DOMAIN history[r]
    /\ pc[r] \in Executing => Current(r).approved
    /\ pc[r] \in {"start", "reserve"} => at[r] = 1

(* A run in the loop passed the check for repeated capabilities. *)
Distinct(r) == pc[r] \in InLoop => ~Repeated(r)

(* A run in the loop holds the capabilities of the calls it has yet to make. *)
Holding(r) ==
    \A i \in Approved(r) :
        /\ pc[r] \in {"call", "execute", "complete"} /\ i >= at[r] =>
             history[r][i].cap \in pending[r]
        /\ pc[r] = "report" /\ i > at[r] => history[r][i].cap \in pending[r]

(* Those of the calls it has made are consumed. *)
Behind(r) ==
    /\ \A i \in Approved(r) :
        /\ pc[r] \in {"call", "execute", "complete"} /\ i < at[r] =>
             history[r][i].cap \in consumed
        /\ pc[r] = "report" /\ i <= at[r] => history[r][i].cap \in consumed
    /\ outcome[r] = "resumed" => Grants(r) \subseteq consumed

Idle(r) == pc[r] \in {"start", "reserve", "returned"} => pending[r] = {}

Owned ==
    /\ claimed = UNION {pending[r] : r \in Runs}
    /\ \A r, s \in Runs : r # s => pending[r] \cap pending[s] = {}
    /\ claimed \cap consumed = {}

Attempting(c) == \E r \in Runs : pc[r] = "complete" /\ Current(r).cap = c

(* An attempt is either over, and its capability consumed, or under way. *)
Counted ==
    \A c \in Capabilities :
        attempts[c] = IF c \in consumed \/ Attempting(c) THEN 1 ELSE 0

IndInv ==
    /\ Types
    /\ \A r \in Runs : Located(r) /\ Distinct(r) /\ Holding(r) /\ Behind(r) /\ Idle(r)
    /\ Owned
    /\ Counted
-----------------------------------------------------------------------------
(* Lemmas. *)

(* A step of run r leaves the rest of the runs where they are. *)
OthersUnchanged(r) ==
    /\ history' = history
    /\ \A s \in Runs \ {r} :
        /\ pc'[s] = pc[s] /\ at'[s] = at[s]
        /\ outcome'[s] = outcome[s] /\ pending'[s] = pending[s]

(* What the assumption on histories says of one run's history. *)
LEMMA HistoryFacts ==
    ASSUME Types, NEW r \in Runs
    PROVE  /\ Len(history[r]) \in Nat
           /\ DOMAIN history[r] = 1..Len(history[r])
           /\ \A i \in DOMAIN history[r] : history[r][i] \in Answers
           /\ Approved(r) \subseteq Nat
           /\ \A i \in Approved(r) : history[r][i].cap \in Capabilities
  <1>1. history[r] \in Seq(Answers)
    BY ApprovalResumeAssumption DEF Types
  <1>2. /\ Len(history[r]) \in Nat
        /\ DOMAIN history[r] = 1..Len(history[r])
        /\ \A i \in DOMAIN history[r] : history[r][i] \in Answers
    BY <1>1
  <1>3. QED
    BY <1>2 DEF Approved, Answers

(* The parts of the invariant about run s survive a step of another run. *)
LEMMA OtherRun ==
    ASSUME IndInv, NEW r \in Runs, NEW s \in Runs \ {r},
           OthersUnchanged(r), consumed \subseteq consumed'
    PROVE  (Located(s) /\ Distinct(s) /\ Holding(s) /\ Behind(s) /\ Idle(s))'
  <1>1. /\ history'[s] = history[s] /\ pc'[s] = pc[s] /\ at'[s] = at[s]
        /\ outcome'[s] = outcome[s] /\ pending'[s] = pending[s]
    BY DEF OthersUnchanged
  <1>2. Located(s) /\ Distinct(s) /\ Holding(s) /\ Behind(s) /\ Idle(s)
    BY DEF IndInv
  <1>3. /\ Current(s)' = Current(s) /\ Approved(s)' = Approved(s)
        /\ Repeated(s)' = Repeated(s) /\ Grants(s)' = Grants(s)
    BY <1>1 DEF Current, Approved, Repeated, Grants
  <1>4. Located(s)' /\ Distinct(s)' /\ Idle(s)'
    BY <1>1, <1>2, <1>3 DEF Located, Distinct, Idle
  <1>5. Holding(s)'
    BY <1>1, <1>2, <1>3 DEF Holding
  <1>6. Behind(s)'
    BY <1>1, <1>2, <1>3 DEF Behind
  <1>7. QED
    BY <1>4, <1>5, <1>6

(* It is enough to look at the run that moves and at the guard. *)
LEMMA Assemble ==
    ASSUME IndInv, NEW r \in Runs, OthersUnchanged(r), consumed \subseteq consumed',
           Types', Owned', Counted',
           (Located(r) /\ Distinct(r) /\ Holding(r) /\ Behind(r) /\ Idle(r))'
    PROVE  IndInv'
  <1>1. ASSUME NEW s \in Runs
        PROVE  (Located(s) /\ Distinct(s) /\ Holding(s) /\ Behind(s) /\ Idle(s))'
    <2>1. CASE s = r
      BY <2>1
    <2>2. CASE s # r
      <3>1. s \in Runs \ {r}
        BY <2>2
      <3>2. QED
        BY <3>1, OtherRun
    <2>3. QED
      BY <2>1, <2>2
  <1>2. QED
    BY <1>1 DEF IndInv

(* Steps that touch neither the guard nor a running tool. *)
LEMMA GuardUntouched ==
    ASSUME IndInv, NEW r \in Runs, OthersUnchanged(r),
           UNCHANGED <<pending, guardVars, attempts>>,
           pc[r] # "complete", pc'[r] # "complete"
    PROVE  Owned' /\ Counted'
  <1>1. Owned'
    BY DEF IndInv, Owned, guardVars
  <1>2. ASSUME NEW c PROVE Attempting(c)' <=> Attempting(c)
    BY DEF Attempting, Current, OthersUnchanged
  <1>3. Counted'
    BY <1>2 DEF IndInv, Counted, guardVars
  <1>4. QED
    BY <1>1, <1>3

-----------------------------------------------------------------------------
(* One lemma per action. *)

LEMMA InitHolds == Init => IndInv
  <1> SUFFICES ASSUME Init PROVE IndInv
    OBVIOUS
  <1>1. Types
    BY DEF Init, Types, Locations, Outcomes
  <1>2. ASSUME NEW r \in Runs
        PROVE  Located(r) /\ Distinct(r) /\ Holding(r) /\ Behind(r) /\ Idle(r)
    <2>1. Located(r)
      BY <1>1, HistoryFacts DEF Init, Located, OnCall, Executing
    <2>2. Distinct(r) /\ Holding(r) /\ Behind(r) /\ Idle(r)
      BY DEF Init, Distinct, Holding, Behind, Idle, InLoop
    <2>3. QED
      BY <2>1, <2>2
  <1>3. Owned
    BY DEF Init, Owned
  <1>4. Counted
    BY DEF Init, Counted, Attempting
  <1>5. QED
    BY <1>1, <1>2, <1>3, <1>4 DEF IndInv

LEMMA StartKeeps == ASSUME IndInv, NEW r \in Runs, Start(r) PROVE IndInv'
  <1>1. Types'
    BY DEF IndInv, Types, Start, Leave, Goto, Locations, Outcomes, guardVars
  <1>2. OthersUnchanged(r) /\ UNCHANGED <<pending, guardVars, attempts>>
    BY DEF IndInv, Types, Start, Leave, Goto, OthersUnchanged
  <1>3. pc[r] = "start" /\ pc'[r] \in {"call", "reserve", "returned"}
    BY DEF IndInv, Types, Start, Leave, Goto
  <1>4. at'[r] = at[r] /\ outcome'[r] \in {outcome[r], "cancelled"}
    BY DEF IndInv, Types, Start, Leave, Goto
  <1>5. pc'[r] = "call" => Approved(r) = {}
    <2>1. pc'[r] = "call" => Grants(r) = {}
      BY DEF IndInv, Types, Start, Leave, Goto
    <2>2. QED
      BY <2>1 DEF Grants
  <1>6. Owned' /\ Counted'
    BY <1>2, <1>3, GuardUntouched
  <1>7. (Located(r) /\ Distinct(r) /\ Holding(r) /\ Behind(r) /\ Idle(r))'
    <2>1. Approved(r)' = Approved(r) /\ Grants(r)' = Grants(r)
      BY <1>2 DEF OthersUnchanged, Approved, Grants
    <2>2. Located(r)' /\ Idle(r)'
      BY <1>2, <1>3, <1>4 DEF IndInv, Located, Idle, OthersUnchanged, OnCall, Executing
    <2>3. Distinct(r)'
      BY <1>3, <1>5, <2>1 DEF Distinct, Repeated, InLoop
    <2>4. Holding(r)'
      BY <1>3, <1>5, <2>1 DEF Holding
    <2>5. Behind(r)'
      BY <1>2, <1>3, <1>4, <1>5, <2>1 DEF IndInv, Behind, guardVars
    <2>6. QED
      BY <2>2, <2>3, <2>4, <2>5
  <1>8. QED
    BY <1>1, <1>2, <1>6, <1>7, Assemble DEF guardVars

(* Leaving the loop, with the reservation released or about to be. *)
LEMMA LeaveKeeps ==
    ASSUME IndInv, NEW r \in Runs, NEW from \in Locations \ {"complete"},
           NEW to \in {"release", "returned"}, NEW result \in Outcomes,
           Leave(r, from, to, result),
           to = "returned" => pending[r] = {},
           result = "resumed" => Grants(r) \subseteq consumed
    PROVE  IndInv'
  <1>1. Types'
    BY DEF IndInv, Types, Leave, Goto, Locations, guardVars
  <1>2. OthersUnchanged(r) /\ UNCHANGED <<pending, guardVars, attempts>>
    BY DEF IndInv, Types, Leave, Goto, OthersUnchanged
  <1>3. pc[r] = from /\ pc'[r] = to /\ at'[r] = at[r] /\ outcome'[r] = result
    BY DEF IndInv, Types, Leave, Goto
  <1>4. Owned' /\ Counted'
    BY <1>2, <1>3, GuardUntouched
  <1>5. Grants(r)' = Grants(r)
    BY <1>2 DEF OthersUnchanged, Approved, Grants
  <1>6. Located(r)' /\ Distinct(r)' /\ Idle(r)'
    BY <1>2, <1>3
    DEF IndInv, Located, Distinct, Idle, InLoop, OnCall, Executing, OthersUnchanged
  <1>7. Holding(r)' /\ Behind(r)'
    BY <1>2, <1>3, <1>5 DEF Holding, Behind, guardVars
  <1>8. QED
    BY <1>1, <1>2, <1>4, <1>6, <1>7, Assemble DEF guardVars

LEMMA RefuseKeeps == ASSUME IndInv, NEW r \in Runs, Refuse(r) PROVE IndInv'
  <1>1. Leave(r, "reserve", "returned", "replay")
    BY DEF Refuse
  <1>2. pending[r] = {}
    BY <1>1 DEF IndInv, Idle, Leave, Goto
  <1>3. QED
    BY <1>1, <1>2, LeaveKeeps DEF Locations, Outcomes

LEMMA LoopDoneKeeps == ASSUME IndInv, NEW r \in Runs, LoopDone(r) PROVE IndInv'
  <1>1. Leave(r, "call", "release", "resumed") /\ at[r] \notin DOMAIN history[r]
    BY DEF LoopDone
  <1>2. at[r] \in Nat \ {0} /\ Types
    BY DEF IndInv, Types
  <1>3. \A i \in Approved(r) : i < at[r]
    BY <1>1, <1>2, HistoryFacts DEF Approved
  <1>4. Grants(r) \subseteq consumed
    BY <1>1, <1>3 DEF IndInv, Behind, Grants, Leave, Goto
  <1>5. QED
    BY <1>1, <1>4, LeaveKeeps DEF Locations, Outcomes

LEMMA ReadyRefusedKeeps == ASSUME IndInv, NEW r \in Runs, ReadyRefused(r) PROVE IndInv'
  <1>1. Leave(r, "call", "release", RefusedOutcome(r))
    BY DEF ReadyRefused
  <1>2. RefusedOutcome(r) \in Outcomes \ {"resumed"}
    BY DEF RefusedOutcome, Outcomes
  <1>3. QED
    BY <1>1, <1>2, LeaveKeeps DEF Locations

LEMMA ReportFailsKeeps == ASSUME IndInv, NEW r \in Runs, ReportFails(r) PROVE IndInv'
  <1>1. PICK result \in {"failed", RefusedOutcome(r)} :
          Leave(r, "report", "release", result)
    BY DEF ReportFails
  <1>2. result \in Outcomes \ {"resumed"}
    BY DEF RefusedOutcome, Outcomes
  <1>3. QED
    BY <1>1, <1>2, LeaveKeeps DEF Locations

LEMMA DenyKeeps == ASSUME IndInv, NEW r \in Runs, Deny(r) PROVE IndInv'
  <1>1. Types'
    BY DEF IndInv, Types, Deny, Goto, Locations, guardVars
  <1>2. OthersUnchanged(r) /\ UNCHANGED <<pending, guardVars, attempts>>
    BY DEF IndInv, Types, Deny, Goto, OthersUnchanged
  <1>3. /\ pc[r] = "call" /\ pc'[r] = "report"
        /\ at'[r] = at[r] /\ outcome'[r] = outcome[r]
    BY DEF IndInv, Types, Deny, Goto
  <1>4. at[r] \in DOMAIN history[r] /\ ~Current(r).approved
    BY DEF Deny, AtCall
  <1>5. Owned' /\ Counted'
    BY <1>2, <1>3, GuardUntouched
  <1>6. /\ Approved(r)' = Approved(r) /\ Grants(r)' = Grants(r)
        /\ Repeated(r)' = Repeated(r)
    BY <1>2 DEF OthersUnchanged, Approved, Grants, Repeated
  <1>7. Located(r)' /\ Distinct(r)' /\ Idle(r)'
    BY <1>2, <1>3, <1>4, <1>6
    DEF IndInv, Located, Distinct, Idle, InLoop, OnCall, Executing, OthersUnchanged
  <1>8. \A i \in Approved(r) : i # at[r] /\ i \in Nat /\ at[r] \in Nat
    BY <1>4, HistoryFacts DEF IndInv, Types, Approved, Current
  <1>9. Holding(r)'
    BY <1>2, <1>3, <1>6, <1>8 DEF IndInv, Holding, OthersUnchanged
  <1>10. Behind(r)'
    BY <1>2, <1>3, <1>6, <1>8 DEF IndInv, Behind, OthersUnchanged, guardVars
  <1>11. QED
    BY <1>1, <1>2, <1>5, <1>7, <1>9, <1>10, Assemble DEF guardVars

LEMMA ReadyKeeps == ASSUME IndInv, NEW r \in Runs, Ready(r) PROVE IndInv'
  <1>1. Types'
    BY DEF IndInv, Types, Ready, Goto, Locations, guardVars
  <1>2. OthersUnchanged(r) /\ UNCHANGED <<pending, guardVars, attempts>>
    BY DEF IndInv, Types, Ready, Goto, OthersUnchanged
  <1>3. /\ pc[r] = "call" /\ pc'[r] = "execute"
        /\ at'[r] = at[r] /\ outcome'[r] = outcome[r]
    BY DEF IndInv, Types, Ready, Goto
  <1>4. at[r] \in DOMAIN history[r] /\ Current(r).approved
    BY DEF Ready, AtCall
  <1>5. Owned' /\ Counted'
    BY <1>2, <1>3, GuardUntouched
  <1>6. /\ Approved(r)' = Approved(r) /\ Grants(r)' = Grants(r)
        /\ Repeated(r)' = Repeated(r) /\ Current(r)' = Current(r)
    BY <1>2, <1>3 DEF OthersUnchanged, Approved, Grants, Repeated, Current
  <1>7. Located(r)' /\ Distinct(r)' /\ Idle(r)'
    BY <1>2, <1>3, <1>4, <1>6
    DEF IndInv, Located, Distinct, Idle, InLoop, OnCall, Executing, OthersUnchanged
  <1>8. Holding(r)'
    BY <1>2, <1>3, <1>6 DEF IndInv, Holding, OthersUnchanged
  <1>9. Behind(r)'
    BY <1>2, <1>3, <1>6 DEF IndInv, Behind, OthersUnchanged, guardVars
  <1>10. QED
    BY <1>1, <1>2, <1>5, <1>7, <1>8, <1>9, Assemble DEF guardVars

(* The result of a call was taken: on to the next call. *)
LEMMA ReportKeeps == ASSUME IndInv, NEW r \in Runs, Report(r) PROVE IndInv'
  <1>1. CASE terminalErr[r]
    <2>1. Leave(r, "report", "release", "failed")
      BY <1>1 DEF Report
    <2>2. QED
      BY <2>1, LeaveKeeps DEF Locations, Outcomes
  <1>2. CASE ~terminalErr[r]
    <2>1. Types'
      BY <1>2 DEF IndInv, Types, Report, Goto, Locations, guardVars
    <2>2. OthersUnchanged(r) /\ UNCHANGED <<pending, guardVars, attempts>>
      BY <1>2 DEF IndInv, Types, Report, Goto, OthersUnchanged
    <2>3. /\ pc[r] = "report" /\ pc'[r] = "call"
          /\ at'[r] = at[r] + 1 /\ outcome'[r] = outcome[r]
      BY <1>2 DEF IndInv, Types, Report, Goto
    <2>4. Owned' /\ Counted'
      BY <2>2, <2>3, GuardUntouched
    <2>5. /\ Approved(r)' = Approved(r) /\ Grants(r)' = Grants(r)
          /\ Repeated(r)' = Repeated(r)
      BY <2>2 DEF OthersUnchanged, Approved, Grants, Repeated
    <2>6. /\ at[r] \in 1..Len(history[r]) /\ Len(history[r]) \in Nat
          /\ \A i \in Approved(r) : i \in Nat
      BY <2>3, HistoryFacts DEF IndInv, Located, OnCall
    <2>7. Located(r)' /\ Distinct(r)' /\ Idle(r)'
      BY <2>2, <2>3, <2>5, <2>6
      DEF IndInv, Located, Distinct, Idle, InLoop, OnCall, Executing, OthersUnchanged
    <2>8. Holding(r)'
      BY <2>2, <2>3, <2>5, <2>6 DEF IndInv, Holding, OthersUnchanged
    <2>9. Behind(r)'
      BY <2>2, <2>3, <2>5, <2>6 DEF IndInv, Behind, OthersUnchanged, guardVars
    <2>10. QED
      BY <2>1, <2>2, <2>4, <2>7, <2>8, <2>9, Assemble DEF guardVars
  <1>3. QED
    BY <1>1, <1>2

(* The capability about to be used is held by this run alone, so it is not  *)
(* consumed and no other attempt of it is under way.                        *)
LEMMA ExclusiveUse ==
    ASSUME IndInv, NEW r \in Runs, pc[r] \in Executing
    PROVE  /\ Current(r).cap \in pending[r]
           /\ Current(r).cap \in Capabilities \ consumed
           /\ \A s \in Runs \ {r} : pc[s] \in Executing => Current(s).cap # Current(r).cap
  <1>1. ASSUME NEW s \in Runs, pc[s] \in Executing
        PROVE  Current(s).cap \in pending[s]
    <2>1. at[s] \in Approved(s) /\ at[s] >= at[s]
      BY <1>1 DEF IndInv, Types, Located, Executing, OnCall, Approved, Current
    <2>2. QED
      BY <1>1, <2>1 DEF IndInv, Holding, Executing, Current
  <1>2. Current(r).cap \in Capabilities \ consumed
    BY <1>1 DEF IndInv, Types, Owned
  <1>3. \A s \in Runs \ {r} : pc[s] \in Executing => Current(s).cap # Current(r).cap
    BY <1>1 DEF IndInv, Owned
  <1>4. QED
    BY <1>1, <1>2, <1>3

LEMMA ExecuteKeeps == ASSUME IndInv, NEW r \in Runs, Execute(r) PROVE IndInv'
  <1> DEFINE c == Current(r).cap
  <1>1. OthersUnchanged(r) /\ UNCHANGED <<pending, guardVars>>
    BY DEF IndInv, Types, Execute, Goto, OthersUnchanged
  <1>2. /\ pc[r] = "execute" /\ pc'[r] = "complete"
        /\ at'[r] = at[r] /\ outcome'[r] = outcome[r]
    BY DEF IndInv, Types, Execute, Goto
  <1>3. /\ c \in Capabilities \ consumed
        /\ \A s \in Runs \ {r} : pc[s] \in Executing => Current(s).cap # c
    BY <1>2, ExclusiveUse DEF Executing
  <1>4. Types'
    BY <1>3 DEF IndInv, Types, Execute, Goto, Locations, guardVars
  <1>5. /\ Approved(r)' = Approved(r) /\ Grants(r)' = Grants(r)
        /\ Repeated(r)' = Repeated(r) /\ Current(r)' = Current(r)
    BY <1>1, <1>2 DEF OthersUnchanged, Approved, Grants, Repeated, Current
  <1>6. Located(r)' /\ Distinct(r)' /\ Idle(r)'
    BY <1>1, <1>2, <1>5
    DEF IndInv, Located, Distinct, Idle, InLoop, OnCall, Executing, OthersUnchanged
  <1>7. Holding(r)'
    BY <1>1, <1>2, <1>5 DEF IndInv, Holding, OthersUnchanged
  <1>8. Behind(r)'
    BY <1>1, <1>2, <1>5 DEF IndInv, Behind, OthersUnchanged, guardVars
  <1>9. Owned'
    BY <1>1 DEF IndInv, Owned, guardVars
  <1>10. Counted'
    <2>1. \A s \in Runs \ {r} : pc'[s] = pc[s] /\ Current(s)' = Current(s)
      BY <1>1 DEF OthersUnchanged, Current
    <2>2. ~Attempting(c)
      BY <1>2, <1>3 DEF Attempting, Executing
    <2>3. ASSUME NEW d \in Capabilities
          PROVE  Attempting(d)' <=> d = c \/ Attempting(d)
      BY <1>2, <1>5, <2>1 DEF Attempting
    <2>4. attempts' = [attempts EXCEPT ![c] = @ + 1] /\ consumed' = consumed
      BY DEF Execute, guardVars
    <2>5. QED
      BY <1>3, <2>2, <2>3, <2>4 DEF IndInv, Types, Counted
  <1>11. QED
    BY <1>1, <1>4, <1>6, <1>7, <1>8, <1>9, <1>10, Assemble DEF guardVars

LEMMA CompleteKeeps == ASSUME IndInv, NEW r \in Runs, Complete(r) PROVE IndInv'
  <1> DEFINE c == Current(r).cap
  <1>1. /\ pc[r] = "complete" /\ pc'[r] = "report" /\ history' = history
        /\ at' = at /\ outcome' = outcome /\ attempts' = attempts
        /\ \A s \in Runs \ {r} : pc'[s] = pc[s]
    BY DEF IndInv, Types, Complete, Goto
  <1>2. /\ c \in pending[r] /\ c \in Capabilities \ consumed
        /\ \A s \in Runs \ {r} : pc[s] \in Executing => Current(s).cap # c
    BY <1>1, ExclusiveUse DEF Executing
  <1>3. /\ pending' = [pending EXCEPT ![r] = @ \ {c}]
        /\ claimed' = claimed \ {c} /\ consumed' = consumed \cup {c}
    BY <1>2 DEF Complete
  <1>4. /\ pending'[r] = pending[r] \ {c}
        /\ \A s \in Runs \ {r} : pending'[s] = pending[s]
    BY <1>3 DEF IndInv, Types
  <1>5. OthersUnchanged(r)
    BY <1>1, <1>4 DEF OthersUnchanged
  <1>6. Types'
    <2>1. pending' \in [Runs -> SUBSET Capabilities]
      BY <1>3 DEF IndInv, Types
    <2>2. pc' \in [Runs -> Locations]
      BY DEF IndInv, Types, Complete, Goto, Locations
    <2>3. terminalErr' \in [Runs -> BOOLEAN]
      BY <1>2 DEF IndInv, Types, Complete
    <2>4. cancelled' = cancelled
      BY DEF Complete, Goto
    <2>5. QED
      BY <1>1, <1>2, <1>3, <2>1, <2>2, <2>3, <2>4 DEF IndInv, Types
  <1>7. /\ Approved(r)' = Approved(r) /\ Grants(r)' = Grants(r)
        /\ Repeated(r)' = Repeated(r)
    BY <1>1 DEF Approved, Grants, Repeated
  <1>8. /\ at[r] \in Approved(r) /\ c = history[r][at[r]].cap
        /\ \A i \in Approved(r) : i \in Nat
    BY <1>1, HistoryFacts DEF IndInv, Located, Executing, OnCall, Approved, Current
  <1>9. Located(r)' /\ Distinct(r)' /\ Idle(r)'
    BY <1>1, <1>7, <1>8
    DEF IndInv, Located, Distinct, Idle, InLoop, OnCall, Executing, Approved
  <1>10. Holding(r)'
    <2>1. \A i \in Approved(r) : i > at[r] => history[r][i].cap # c
      BY <1>1, <1>8 DEF IndInv, Types, Distinct, InLoop, Repeated
    <2>2. \A i \in Approved(r) : i > at[r] => history[r][i].cap \in pending[r]
      BY <1>1, <1>8 DEF IndInv, Types, Holding
    <2>3. QED
      BY <1>1, <1>4, <1>7, <2>1, <2>2 DEF Holding
  <1>11. Behind(r)'
    <2>1. \A i \in Approved(r) : i <= at[r] => i < at[r] \/ i = at[r]
      BY <1>8
    <2>2. \A i \in Approved(r) : i < at[r] => history[r][i].cap \in consumed
      BY <1>1 DEF IndInv, Behind
    <2>3. outcome[r] = "resumed" => Grants(r) \subseteq consumed
      BY DEF IndInv, Behind
    <2>4. QED
      BY <1>1, <1>3, <1>7, <1>8, <2>1, <2>2, <2>3 DEF Behind
  <1>12. Owned'
    <2>1. claimed' = UNION {pending'[s] : s \in Runs}
      BY <1>2, <1>3, <1>4 DEF IndInv, Owned
    <2>2. QED
      BY <1>3, <1>4, <2>1 DEF IndInv, Owned
  <1>13. Counted'
    <2>1. \A s \in Runs \ {r} : Current(s)' = Current(s)
      BY <1>1 DEF Current
    <2>2. ASSUME NEW d \in Capabilities
          PROVE  d \in consumed' \/ Attempting(d)' <=> d \in consumed \/ Attempting(d)
      BY <1>1, <1>2, <1>3, <2>1 DEF Attempting, Executing
    <2>3. QED
      BY <1>1, <2>2 DEF IndInv, Counted
  <1>14. QED
    BY <1>3, <1>5, <1>6, <1>9, <1>10, <1>11, <1>12, <1>13, Assemble

LEMMA ReserveKeeps == ASSUME IndInv, NEW r \in Runs, Reserve(r) PROVE IndInv'
  <1>1. /\ pc[r] = "reserve" /\ pc'[r] = "call" /\ history' = history
        /\ at' = at /\ outcome' = outcome /\ attempts' = attempts
        /\ consumed' = consumed /\ claimed' = claimed \cup Grants(r)
        /\ pending' = [pending EXCEPT ![r] = Grants(r)]
        /\ \A s \in Runs \ {r} : pc'[s] = pc[s]
    BY DEF IndInv, Types, Reserve, Goto
  <1>2. /\ pending[r] = {} /\ pending'[r] = Grants(r)
        /\ \A s \in Runs \ {r} : pending'[s] = pending[s]
    BY <1>1 DEF IndInv, Types, Idle
  <1>3. ~Repeated(r) /\ Grants(r) \cap (consumed \cup claimed) = {}
    BY DEF Reserve
  <1>4. OthersUnchanged(r)
    BY <1>1, <1>2 DEF OthersUnchanged
  <1>5. Grants(r) \subseteq Capabilities
    BY HistoryFacts DEF IndInv, Grants
  <1>6. Types'
    BY <1>5 DEF IndInv, Types, Reserve, Goto, Locations
  <1>7. /\ Approved(r)' = Approved(r) /\ Grants(r)' = Grants(r)
        /\ Repeated(r)' = Repeated(r)
    BY <1>1 DEF Approved, Grants, Repeated
  <1>8. Located(r)' /\ Distinct(r)' /\ Idle(r)'
    BY <1>1, <1>3, <1>7 DEF IndInv, Located, Distinct, Idle, OnCall, Executing
  <1>9. Holding(r)'
    BY <1>1, <1>2, <1>7 DEF Holding, Grants
  <1>10. Behind(r)'
    <2>1. at'[r] = 1 /\ \A i \in Approved(r) : i \in Nat \ {0}
      BY <1>1, HistoryFacts DEF IndInv, Located, Approved
    <2>2. QED
      BY <1>1, <1>7, <2>1 DEF IndInv, Behind
  <1>11. Owned'
    BY <1>1, <1>2, <1>3 DEF IndInv, Owned
  <1>12. Counted'
    <2>1. ASSUME NEW d PROVE Attempting(d)' <=> Attempting(d)
      BY <1>1 DEF Attempting, Current
    <2>2. QED
      BY <1>1, <2>1 DEF IndInv, Counted
  <1>13. QED
    BY <1>1, <1>4, <1>6, <1>8, <1>9, <1>10, <1>11, <1>12, Assemble

LEMMA ReleaseKeeps == ASSUME IndInv, NEW r \in Runs, Release(r) PROVE IndInv'
  <1>1. /\ pc[r] = "release" /\ pc'[r] = "returned" /\ history' = history
        /\ at' = at /\ outcome' = outcome /\ attempts' = attempts
        /\ consumed' = consumed /\ claimed' = claimed \ pending[r]
        /\ \A s \in Runs \ {r} : pc'[s] = pc[s]
    BY DEF IndInv, Types, Release, Goto
  <1>2. pending'[r] = {} /\ \A s \in Runs \ {r} : pending'[s] = pending[s]
    BY DEF IndInv, Types, Release
  <1>3. OthersUnchanged(r)
    BY <1>1, <1>2 DEF OthersUnchanged
  <1>4. Types'
    BY DEF IndInv, Types, Release, Goto, Locations
  <1>5. Grants(r)' = Grants(r)
    BY <1>1 DEF Approved, Grants
  <1>6. Located(r)' /\ Distinct(r)' /\ Idle(r)'
    BY <1>1, <1>2 DEF IndInv, Located, Distinct, Idle, InLoop, OnCall, Executing
  <1>7. Holding(r)' /\ Behind(r)'
    BY <1>1, <1>5 DEF IndInv, Holding, Behind
  <1>8. Owned'
    BY <1>1, <1>2 DEF IndInv, Owned
  <1>9. Counted'
    <2>1. ASSUME NEW d PROVE Attempting(d)' <=> Attempting(d)
      BY <1>1 DEF Attempting, Current
    <2>2. QED
      BY <1>1, <2>1 DEF IndInv, Counted
  <1>10. QED
    BY <1>1, <1>3, <1>4, <1>6, <1>7, <1>8, <1>9, Assemble

(* The context of a run ends, or nothing of the model changes. *)
LEMMA CancelKeeps ==
    ASSUME IndInv, UNCHANGED <<history, loopVars, pending, guardVars, attempts>>,
           cancelled' \in [Runs -> BOOLEAN]
    PROVE  IndInv'
  <1>1. Types'
    BY DEF IndInv, Types, loopVars, guardVars
  <1>2. Owned' /\ Counted'
    BY DEF IndInv, Owned, Counted, Attempting, Current, loopVars, guardVars
  <1>3. ASSUME NEW s \in Runs
        PROVE  (Located(s) /\ Distinct(s) /\ Holding(s) /\ Behind(s) /\ Idle(s))'
    BY DEF IndInv, Located, Distinct, Holding, Behind, Idle, Current, Approved, Repeated,
           Grants, loopVars, guardVars
  <1>4. QED
    BY <1>1, <1>2, <1>3 DEF IndInv

-----------------------------------------------------------------------------
(* The theorems. *)

(* IndInv holds initially and is preserved by every step. *)
THEOREM Invariance == Spec => []IndInv
  <1>1. IndInv /\ [Next]_vars => IndInv'
    <2> SUFFICES ASSUME IndInv, [Next]_vars PROVE IndInv'
      OBVIOUS
    <2>1. ASSUME NEW r \in Runs, Run(r) PROVE IndInv'
      BY <2>1, StartKeeps, ReserveKeeps, RefuseKeeps, LoopDoneKeeps, DenyKeeps,
         ReadyKeeps, ReadyRefusedKeeps, ExecuteKeeps, CompleteKeeps, ReportKeeps,
         ReportFailsKeeps, ReleaseKeeps DEF Run
    <2>2. ASSUME NEW r \in Runs, Cancel(r) PROVE IndInv'
      <3>1. cancelled' \in [Runs -> BOOLEAN]
        BY <2>2 DEF IndInv, Types, Cancel
      <3>2. QED
        BY <2>2, <3>1, CancelKeeps DEF Cancel
    <2>3. CASE UNCHANGED vars
      <3>1. cancelled' \in [Runs -> BOOLEAN]
        BY <2>3 DEF IndInv, Types, vars
      <3>2. QED
        BY <2>3, <3>1, CancelKeeps DEF vars
    <2>4. QED
      BY <2>1, <2>2, <2>3 DEF Next, Terminated
  <1>2. QED
    BY InitHolds, <1>1, PTL DEF Spec

(* Every variable of the resuming runs and of the guard stays in its type,  *)
(* and the loop over the answered calls within the history.                 *)
THEOREM TypeCorrect == Spec => []TypeInvariant
  <1>1. IndInv => TypeInvariant
    BY DEF IndInv, Types, Located, TypeInvariant
  <1>2. QED
    BY <1>1, Invariance, PTL

(* executeReservedToolCall runs at most once per signed approval, whatever  *)
(* the number of runs that resume with it and however they interleave.      *)
THEOREM AtMostOnce == Spec => []AtMostOneAttempt
  <1>1. IndInv => AtMostOneAttempt
    BY DEF IndInv, Counted, AtMostOneAttempt
  <1>2. QED
    BY <1>1, Invariance, PTL

(* The deferred Complete always finds its grant pending, so a tool attempt  *)
(* is never left unrecorded.                                                *)
THEOREM CompleteFindsItsGrant == Spec => []RunnerHoldsCapability
  <1>1. IndInv => RunnerHoldsCapability
    BY ExclusiveUse DEF Executing, RunnerHoldsCapability
  <1>2. QED
    BY <1>1, Invariance, PTL

(* No claim outlives its reservation: the guard's claimed set is exactly    *)
(* what the live reservations hold, each capability by one of them, and a   *)
(* run that executes a call is still among the holders.                     *)
THEOREM NoClaimLeaks == Spec => []ClaimsAreOwned
  <1>1. IndInv => ClaimsAreOwned
    <2>1. IndInv => RunnerHoldsCapability
      BY ExclusiveUse DEF Executing, RunnerHoldsCapability
    <2>2. QED
      BY <2>1 DEF IndInv, Owned, Idle, ClaimsAreOwned
  <1>2. QED
    BY <1>1, Invariance, PTL

(* An approval whose tool never ran stays usable. *)
THEOREM UnattemptedStaysFresh == Spec => []UnattemptedIsNotConsumed
  <1>1. IndInv => UnattemptedIsNotConsumed
    BY DEF IndInv, Types, Counted, UnattemptedIsNotConsumed
  <1>2. QED
    BY <1>1, Invariance, PTL

(* resumeToolApprovals returns a resumed history only after every approved  *)
(* call of it was attempted.                                                *)
THEOREM NoCallSkipped == Spec => []ResumedHasEveryAttempt
  <1>1. IndInv => ResumedHasEveryAttempt
    <2> SUFFICES ASSUME IndInv, NEW r \in Runs, outcome[r] = "resumed",
                        NEW c \in Grants(r)
                 PROVE  attempts[c] = 1
      BY DEF ResumedHasEveryAttempt
    <2>1. c \in consumed /\ c \in Capabilities
      BY DEF IndInv, Behind, Types
    <2>2. QED
      BY <2>1 DEF IndInv, Counted
  <1>2. QED
    BY <1>1, Invariance, PTL

-----------------------------------------------------------------------------
(* Refinement. *)

(* Steps that neither reserve, execute, complete nor release are stutters.  *)
LEMMA Stutters ==
    ASSUME NEW r \in Runs,
           \/ Start(r) \/ Refuse(r) \/ LoopDone(r) \/ Deny(r) \/ Ready(r)
           \/ ReadyRefused(r) \/ Report(r) \/ ReportFails(r)
    PROVE  UNCHANGED <<pending, attempts>>
  <1>1. CASE Start(r)
    BY <1>1 DEF Start, Leave
  <1>2. CASE Refuse(r) \/ LoopDone(r) \/ ReadyRefused(r) \/ ReportFails(r)
    BY <1>2 DEF Refuse, LoopDone, ReadyRefused, ReportFails, Leave
  <1>3. CASE Deny(r) \/ Ready(r) \/ Report(r)
    BY <1>3 DEF Deny, Ready, Report, Leave
  <1>4. QED
    BY <1>1, <1>2, <1>3

(* Every step of the resuming runs is a step of the lease, or a stutter. *)
LEMMA StepSimulation ==
    ASSUME IndInv, [Next]_vars
    PROVE  [Lease!Next]_(Lease!vars)
  <1>1. ASSUME NEW r \in Runs, Reserve(r) PROVE Lease!Next
    <2>1. /\ pending[r] = {} /\ attempts' = attempts
          /\ pending' = [pending EXCEPT ![r] = Grants(r)]
      BY <1>1 DEF IndInv, Idle, Reserve, Goto
    <2>2. Grants(r) \cap Lease!Held = {}
      BY <1>1 DEF IndInv, Owned, Reserve, Lease!Held
    <2>3. Grants(r) \subseteq Capabilities
      BY HistoryFacts DEF IndInv, Grants
    <2>4. \A c \in Grants(r) : ~Attempting(c)
      <3>1. \A s \in Runs : pc[s] = "complete" => Current(s).cap \in claimed
        BY ExclusiveUse DEF IndInv, Owned, Executing
      <3>2. QED
        BY <1>1, <3>1 DEF Reserve, Attempting
    <2>5. \A c \in Grants(r) : attempts[c] = 0
      BY <1>1, <2>3, <2>4 DEF IndInv, Counted, Reserve
    <2>6. Lease!Acquire(r, Grants(r))
      BY <2>1, <2>2, <2>5 DEF Lease!Acquire
    <2>7. QED
      BY <2>3, <2>6 DEF Lease!Next
  <1>2. ASSUME NEW r \in Runs, Execute(r) PROVE Lease!Next
    <2> DEFINE c == Current(r).cap
    <2>1. pc[r] = "execute" /\ pending' = pending
          /\ attempts' = [attempts EXCEPT ![c] = @ + 1]
      BY <1>2 DEF Execute, Goto
    <2>2. /\ c \in pending[r] /\ c \in Capabilities \ consumed
          /\ \A s \in Runs \ {r} : pc[s] \in Executing => Current(s).cap # c
      BY <2>1, ExclusiveUse DEF Executing
    <2>3. attempts[c] = 0
      BY <2>1, <2>2 DEF IndInv, Counted, Attempting, Executing
    <2>4. Lease!Attempt(r, c)
      BY <2>1, <2>2, <2>3 DEF IndInv, Types, Lease!Attempt
    <2>5. QED
      BY <2>2, <2>4 DEF Lease!Next
  <1>3. ASSUME NEW r \in Runs, Complete(r) PROVE Lease!Next
    <2> DEFINE c == Current(r).cap
    <2>1. pc[r] = "complete" /\ attempts' = attempts
      BY <1>3 DEF Complete, Goto
    <2>2. c \in pending[r] /\ c \in Capabilities
      BY <2>1, ExclusiveUse DEF Executing
    <2>3. pending' = [pending EXCEPT ![r] = @ \ {c}]
      BY <1>3, <2>2 DEF Complete
    <2>4. Lease!GiveBack(r, {c})
      BY <2>1, <2>3 DEF Lease!GiveBack
    <2>5. {c} \in SUBSET Capabilities
      BY <2>2
    <2>6. QED
      BY <2>4, <2>5 DEF Lease!Next
  <1>4. ASSUME NEW r \in Runs, Release(r) PROVE Lease!Next
    <2>1. attempts' = attempts /\ pending' = [pending EXCEPT ![r] = {}]
      BY <1>4 DEF Release
    <2>2. Lease!GiveBack(r, pending[r])
      BY <2>1 DEF Lease!GiveBack
    <2>3. pending[r] \in SUBSET Capabilities
      BY DEF IndInv, Types
    <2>4. QED
      BY <2>2, <2>3 DEF Lease!Next
  <1>5. ASSUME NEW r \in Runs, Run(r) PROVE [Lease!Next]_(Lease!vars)
    <2>1. Lease!Next \/ UNCHANGED <<pending, attempts>>
      BY <1>1, <1>2, <1>3, <1>4, <1>5, Stutters DEF Run
    <2>2. QED
      BY <2>1 DEF Lease!vars
  <1>6. ASSUME (\E r \in Runs : Cancel(r)) \/ Terminated \/ UNCHANGED vars
        PROVE  UNCHANGED Lease!vars
    BY <1>6 DEF Cancel, Terminated, vars, Lease!vars
  <1>7. QED
    BY <1>5, <1>6 DEF Next

(* MemoryApprovalReplayGuard, used as resumeToolApprovals uses it, leases   *)
(* each batch as a whole and lets no capability be attempted twice.         *)
THEOREM Refinement == Spec => ImplementsLease
  <1>1. Init => Lease!Init
    BY DEF Init, Lease!Init
  <1>2. IndInv /\ [Next]_vars => [Lease!Next]_(Lease!vars)
    BY StepSimulation
  <1>3. QED
    BY <1>1, <1>2, Invariance, PTL DEF Spec, ImplementsLease, Lease!Spec
=============================================================================
