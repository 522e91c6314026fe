SPECIFICATION MCSpec
CONSTANTS
    Scope = {"s1", "s2"}
    Revision = {"r1", "r2"}
    Document = {"d0", "d1", "d2"}
    Expected <- Archive
    LeftOver <- OldDocuments
    None = "none"
    Query = {q1}
    Mine = "r1"
    MaxCrashes = 1
    Publication <- Others
INVARIANT SearchesAreSound
INVARIANT RequestsAreSound
INVARIANT SourcesAndSkillsAgree
INVARIANT RecordsAgree
PROPERTY PublicationsAreOrderly
PROPERTY ThreadsSettle
CHECK_DEADLOCK FALSE
