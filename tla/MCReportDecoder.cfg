\* Whole reports, the metadata of three and every structure on its own with every key
\* of its table, each read in every order of its keys up to every point, and relayed.
\* Reading ends.
SPECIFICATION Spec
CONSTANTS
    Reports <- MCReports
    MaxRelays = 1
INVARIANTS
    DecodedIsCommon
    SectionsAreWhole
CHECK_DEADLOCK FALSE
