\* The channel and a recovery worker; nobody crashes, every call ends within its lease.
SPECIFICATION Spec
CONSTANTS
    Ops = 2
    Prerequisite <- Pair
    Before <- PairBefore
    Texts = {}
    Uploads = {1}
    Recovery = {r1}
    Foreign = {}
    Channel = {c}
    NoWorker = NoWorker
    MaxDisruptions = 0
    MaxAccepted = 2
    PromptCalls = TRUE
PROPERTY ConfirmedNotResent
CHECK_DEADLOCK FALSE
