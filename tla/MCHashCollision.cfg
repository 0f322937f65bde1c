SPECIFICATION Spec
CONSTANTS
    Goroutine = {g1, g2}
    Pattern = {}
    Invalid = {}
    Name = {}
    Accepts = {}
    SchemaKeys = {}
    Designator <- MCDesignator
INVARIANT
    AttributesAreOwn
