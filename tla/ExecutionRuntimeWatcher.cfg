SPECIFICATION Spec
CONSTANTS
    Run = {r1, r2}
    NoRun = NoRun
    MaxTakeovers = 1
SYMMETRY Symmetry
INVARIANT WatcherSparesHeldLease
CHECK_DEADLOCK FALSE
