\* Two submissions in turn or at once, of an adapter that does not wait for another owner
\* of the lease and of the shared admission path, which does; one cancellation, and one
\* reference that is dropped twice.
SPECIFICATION FairSpec
CONSTANTS
    Sub = {s1, s2}
    NoSub = NoSub
    Adapter = {"tui", "shared"}
    MaxCancels = 1
    MaxOverdrafts = 1
INVARIANTS OneAtATime CompletionIsLast OpenUnlessOverdrawn
PROPERTIES ImplementsTurnstile StoppedSubmissionSettles NoAdmissionLeftBehind
CHECK_DEADLOCK FALSE
