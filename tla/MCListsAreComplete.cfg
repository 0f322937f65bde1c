SPECIFICATION Spec
CONSTANTS
    Reports <- MCReports
    ExceptionLists <- MCExceptionLists
    BaseScores <- MCBaseScores
    Weight <- MCWeight
    ResourceMaps <- MCResourceMaps
    MaxCalls = 3
INVARIANT ListsAreComplete
CHECK_DEADLOCK FALSE
