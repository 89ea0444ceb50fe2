\* One member with its task and a later message, a question, three turns of the lead.
SPECIFICATION FairSpec
CONSTANTS
    Member = {m1}
    MaxRuns = 1
    MaxTurns = 3
    MaxAsks = 1
    MaxSends = 1
    Ends = {"done", "canceled"}
INVARIANTS
    SuccessHasHeard
    StaysForMembers
    AnswerReported
    CompletionMatchesStatus
PROPERTIES
    HookHears
    MembersEnd
    RunEnds
CHECK_DEADLOCK FALSE
