SPECIFICATION Spec
CONSTANTS
    Goroutine = {g1, g2}
    Pattern <- MCPattern
    Invalid <- MCInvalid
    Name <- MCName
    Accepts <- MCAccepts
    SchemaKeys <- MCSchemaKeys
    Designator <- MCDesignator
INVARIANTS
    TypeOK
    CachesSound
PROPERTIES
    ImplementsMatcher
    EveryCallReturns
