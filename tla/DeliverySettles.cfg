\* An upload and a send without a caption, for liveness.
SPECIFICATION FairSpec
CONSTANTS
    Ops = 2
    Prerequisite <- Pair
    Before <- PairBefore
    Texts = {}
    Uploads = {1}
    Recovery = {r1}
    Foreign = {}
    Channel = {c}
    NoWorker = NoWorker
    MaxDisruptions = 1
    MaxAccepted = 1
    PromptCalls = FALSE
PROPERTY ReplySettles
CHECK_DEADLOCK FALSE
