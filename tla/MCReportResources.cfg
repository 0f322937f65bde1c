\* Resources between the objects of a scan and the report read back: RBAC joins, and lives
\* of MaxCalls calls.  The calls end.
SPECIFICATION Spec
CONSTANTS
    Group <- MCGroup
    GroupHostSensor = "hostdata"
    CloudGroups = {"eks"}
    BindingKinds <- MCBindingKinds
    RoleKinds <- MCRoleKinds
    APIServerNames = {"kube-apiserver"}
    Scenarios <- MCScenarios
    Values = {"sb"}
    Spare <- MCSpare
    MaxResources = 2
    MaxCalls = 4
INVARIANTS
    VectorsAreResolutions
    IDNamesWritten
    ReportShowsSetters
PROPERTIES
    VectorsAreIndependent
CHECK_DEADLOCK FALSE
