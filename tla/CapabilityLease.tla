--------------------------- MODULE CapabilityLease ---------------------------
(***************************************************************************)
(* What the replay guard promises to concurrent resumes of approved tool   *)
(* calls: a batch of capabilities is leased to one run as a whole, a leased *)
(* capability is attempted at most once ever, and a lease ends only by      *)
(* giving the capability back.                                             *)
(***************************************************************************)
EXTENDS Integers

CONSTANTS
    Runs,          \* runs that resume approvals
    Capabilities   \* signed approvals

VARIABLES
    lease,      \* lease[r]: the capabilities run r holds
    attempts    \* how often each capability's tool call was started

vars == <<lease, attempts>>

Init ==
    /\ lease = [r \in Runs |-> {}]
    /\ attempts = [c \in Capabilities |-> 0]

Held == UNION {lease[r] : r \in Runs}

Acquire(r, batch) ==
    /\ lease[r] = {}
    /\ batch \cap Held = {}
    /\ \A c \in batch : attempts[c] = 0
    /\ lease' = [lease EXCEPT ![r] = batch]
    /\ UNCHANGED attempts

Attempt(r, c) ==
    /\ c \in lease[r]
    /\ attempts[c] = 0
    /\ attempts' = [attempts EXCEPT ![c] = 1]
    /\ UNCHANGED lease

GiveBack(r, batch) ==
    /\ lease' = [lease EXCEPT ![r] = @ \ batch]
    /\ UNCHANGED attempts

Next ==
    \E r \in Runs :
        \/ \E batch \in SUBSET Capabilities : Acquire(r, batch) \/ GiveBack(r, batch)
        \/ \E c \in Capabilities : Attempt(r, c)

Spec == Init /\ [][Next]_vars
=============================================================================
