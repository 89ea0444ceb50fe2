\* One run with an ExecutionRuntime of its own, and two takeovers by another process.
SPECIFICATION FairSpec
CONSTANTS
    Run = {r1}
    NoRun = NoRun
    MaxTakeovers = 2
INVARIANTS SelectedOutcomeStands RegisteredKeepsLease HeldLeaseHasHolder
           CancelReachesAgent CompletionAfterRelease
PROPERTIES ImplementsRecord PreparedRunSettles
CHECK_DEADLOCK FALSE
