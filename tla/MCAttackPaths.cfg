SPECIFICATION Spec
CONSTANTS
    Control <- MCControl
    Tracks <- MCTracks
    Handlers = {h1, h2}
    FailedLists <- MCFailedLists
    KnownSets <- MCKnownSets
    Replicas = {0, 3}
    MaxCalls = 4
INVARIANT
    TypeOK
PROPERTIES
    SearchesAreComplete
    SearchesAreSound
    GeneratedIsConnected
    ScoreSumsEveryChoice
CHECK_DEADLOCK FALSE
