\* Two processes and at most two executions at once; one call of RunNow or of a
\* management surface, which comes between any two steps of the schedulers.
SPECIFICATION FairSpec
CONSTANTS
    Sched = {p1, p2}
    Exec = {e1, e2}
    NoExec = NoExec
    MaxCalls = 1
INVARIANTS OneLiveClaim
PROPERTY AbandonedReclaimed
CHECK_DEADLOCK FALSE
