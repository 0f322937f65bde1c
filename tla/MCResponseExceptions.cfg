SPECIFICATION Spec
CONSTANTS
    RegexMatch <- MCRegexMatch
    Responses <- MCResponses
    ExceptionLists <- MCExceptionLists
    Cluster = {"prod", "test"}
    MaxCalls = 2
INVARIANTS
    OneObjectSatisfiesAll
    MatchesAreGranted
    StatusFollowsException
    NarrowingNeverWidens
CHECK_DEADLOCK FALSE
