SPECIFICATION Spec
CONSTANTS
    StudentIds = {1, 2}
    Facts <- MCFacts
    Instances = {1, 2}
    Tutors = {"both", "first"}
    AssignedTo <- MCAssignedTo
    Destinations = {{"both", "first"}, {"first"}}
    DailyRun = 1
    MondayRun = 1
    MaxUnwritten = 1
    PageSize = 1
    Jobs = {"daily", "weekly", "monday"}
    ChunksOf <- MCChunksOf
INVARIANTS
    TypeOK
    NobodyIsSkippedSilently
    HistoryTellsResults
    ReportAddsUp
    BriefingIsWholeOrWarns
PROPERTY
    FirstReportStands
CHECK_DEADLOCK FALSE
