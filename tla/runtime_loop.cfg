\* Runs of at most three turns and four calls, resumed once; eight replies.  A plan of three nodes for two callers.
SPECIFICATION MCSpec
CONSTANTS
    Caller = {c1, c2}
    a = a
    b = b
    unknown = unknown
    gated = gated
    Invocation <- Tools
    Denied <- UnknownTool
    Gated <- GatedTool
    Reading <- Reads
    Evidence <- EvidenceReads
    Plan <- Replies
    MaxTurns = 3
    MaxTasks = 2
    MaxToolCalls = 2
    MaxTotalToolCalls = 4
    MaxResumes = 1
INVARIANT TypeOK
INVARIANT OneSuccessPerInvocation
INVARIANT CheckpointedCallsAreNotRepeated
INVARIANT RepeatsNeedAResumption
INVARIANT LateCallsAreBounded
INVARIANT ResultAgrees
INVARIANT CheckpointIsSettled
PROPERTY RunsSettle
CHECK_DEADLOCK FALSE
