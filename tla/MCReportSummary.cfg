SPECIFICATION ReadingSpec
CONSTANTS
    Controls <- MCControls
    Frameworks <- MCFrameworks
    FrameworkControls <- MCFrameworkControls
    FrameworkOrder <- MCFrameworkOrder
    ScoreFactor <- MCScoreFactor
    Results <- MCResults
    ControlInfos <- MCControlInfos
    MaxInits = 1
    PatternMatch <- MCPatternMatch
    Resource = "r"
    Deployment = d
    Vectors = {v1, v2}
    Object <- MCObject
    ResourceMaps <- MCResourceMaps
    MaxScored = 2
CHECK_DEADLOCK FALSE
SYMMETRY Symmetry
INVARIANTS
    CountersMatchResources
    SeverityMatchesFailures
    AggregateIsWorstFramework
    SubStatusIsMostSpecific
    ComplianceAgrees
    RiskIsMeanOfControls
    ViewsScoredAsWhole
    OrderIndependent
PROPERTIES
    RecalculationIsStable
