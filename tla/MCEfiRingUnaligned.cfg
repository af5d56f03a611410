SPECIFICATION Spec
CONSTANTS
    Size = 16
    HeaderSize = 4
    Totals = {5, 6, 7}
    Overwrite = TRUE
    MaxId = 5
    KeepsHandles = FALSE
    Word = 256
INVARIANTS RingWellFormed
CHECK_DEADLOCK FALSE
