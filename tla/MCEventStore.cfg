\* A run's owner and a writer without a run, each of which may recover, with two
\* faults at any place; an append may be cut in two.
SPECIFICATION FairSpec
CONSTANTS
    Process = {p1, p2}
    Direct = {p2}
    MaxBatches = 3
    MaxRuns = 2
    MaxFaults = 2
    Tears = {"part", "torn"}
    Nobody = Nobody
INVARIANTS CommittedHasBytes CommittedApart SettledWithRun UnreadableOnlyByDamage
PROPERTIES ImplementsTranscript OrphanSettles
CHECK_DEADLOCK FALSE
