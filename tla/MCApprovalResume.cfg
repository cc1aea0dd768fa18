SPECIFICATION FairSpec
CONSTANTS
    r1 = r1
    r2 = r2
    c1 = c1
    c2 = c2
    Runs = {r1, r2}
    Capabilities = {c1, c2}
    Histories <- MCHistories
INVARIANTS
    TypeInvariant
    AtMostOneAttempt
    ClaimsAreOwned
    UnattemptedIsNotConsumed
    ResumedHasEveryAttempt
PROPERTIES
    ClaimsEnd
    ImplementsLease
