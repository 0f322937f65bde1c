SPECIFICATION Spec
CONSTANTS
    PatternMatch <- MCPatternMatch
    Results <- MCResults
    Frameworks <- MCFrameworks
    Filters <- MCFilters
    PolicyLists <- MCPolicyLists
    Attributes <- MCAttributes
    Resource <- MCResource
    MaxCalls = 2
INVARIANTS
    ExceptionsAsDeclared
    JointViewIsWorstView
    ReloadPreservesViews
    SetExceptionsIdempotent
