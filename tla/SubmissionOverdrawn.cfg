\* One owner that shares the coordinator with a SessionRuntime, whose Shutdown is under
\* way when it is closed.
SPECIFICATION Spec
CONSTANTS
    Sub = {s1}
    NoSub = NoSub
    Adapter = {"shared"}
    MaxCancels = 0
    MaxOverdrafts = 1
INVARIANT OpenWhileShared
CHECK_DEADLOCK FALSE
