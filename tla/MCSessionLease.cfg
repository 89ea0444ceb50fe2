\* Two processes take turns on one session with two runs: four purposes, every
\* interleaving of two acquisitions; no symmetry, for the liveness property.
SPECIFICATION FairSpec
CONSTANTS
    Process = {p1, p2}
    Run = {r1, r2}
    Purpose = {"admission", "recovery", "mutation", "legacy"}
    MaxEpoch = 2
    TTL = 1
    NoProcess = NoProcess
    NoRun = NoRun
INVARIANTS HolderRegistered RefsCountHolders
           ReservationExcludesRun BoundToActiveRun
PROPERTIES LiveLeaseNotDisplaced ImplementsFencedGrant AbandonedLeaseLapses
CHECK_DEADLOCK FALSE
