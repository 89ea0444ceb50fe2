\* One crash in the middle of an append, and recovery for ever after.
SPECIFICATION FairSpec
CONSTANTS
    Process = {p1, p2}
    Direct = {}
    MaxBatches = 2
    MaxRuns = 2
    MaxFaults = 1
    Tears = {"torn"}
    Nobody = Nobody
PROPERTY TornTailRecovers
CHECK_DEADLOCK FALSE
