\* A caption, an upload and a send; the channel and a recovery worker that may
\* be restarted, for safety.
SPECIFICATION Spec
CONSTANTS
    Ops = 3
    Prerequisite <- Chain
    Before <- ChainBefore
    Texts = {1}
    Uploads = {2}
    Recovery = {r1}
    Foreign = {}
    Channel = {c}
    NoWorker = NoWorker
    MaxDisruptions = 1
    MaxAccepted = 1
    PromptCalls = FALSE
INVARIANTS PrerequisiteFirst NobodyWaitsForLost IntentAgrees
PROPERTY ImplementsPlan
CHECK_DEADLOCK FALSE
