SPECIFICATION Spec
CONSTANTS
    StudentIds = {1, 2}
    Facts <- MCFacts
    Instances = {1, 2}
    Tutors = {"both", "first"}
    AssignedTo <- MCAssignedTo
    Destinations = {{"both", "first"}, {"first"}}
    DailyRun = 1
    MondayRun = 1
    MaxUnwritten = 1
    PageSize = 1
    Jobs = {"monday"}
    ChunksOf <- MCChunksOf
INVARIANT
    EndedRunIsFinal
CHECK_DEADLOCK FALSE
