SPECIFICATION Spec
CONSTANTS
    Reports <- MCReports
    ExceptionLists <- MCExceptionLists
    BaseScores <- MCBaseScores
    Weight <- MCWeight
    ResourceMaps <- MCResourceMaps
    MaxCalls = 4
INVARIANTS
    CountersAreUnions
    StatusMatchesCounters
PROPERTIES
    RecountIsStable
    ScoresAgree
CHECK_DEADLOCK FALSE
