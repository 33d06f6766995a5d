\* Rows of one value, and a cap that may fall between them.
SPECIFICATION Spec
CONSTANTS
    MaxRows = 4
    MaxCap = 1
    StartAt = 1
INVARIANTS NextRunCarriesOn
