SPECIFICATION Spec
CONSTANTS
    Lists = {l1, l2}
    Items = {i1, i2}
    Statuses <- MCStatuses
SYMMETRY Symmetry
INVARIANTS
    CountersMatchItems
    StoredIsMostSignificant
    UpdateCoversSource
PROPERTY
    ImplementsTable
