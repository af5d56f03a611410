SPECIFICATION MCSpec
CONSTANTS
    Capacity = 6
    Totals = {2, 3, 7}
    Overwrite = FALSE
    Statuses = {0}
    MaxId = 4
    MaxAttempts = 4
INVARIANTS HandlesSound RingImplementsLog EventOutcomesLogged
PROPERTIES FailureLosesOne
CHECK_DEADLOCK FALSE
