SPECIFICATION MCSpec
CONSTANTS
  Cold = {1, 2}
  Hot = {3}
  Allowed = {1, 3}
  Paravisor = TRUE
  Latency = TRUE
  EarlyHot = FALSE
  SharedInterrupt = "slotEmpty"
  StopTpls = {"application"}
  MaxStarts = 2
INVARIANTS NoFailFast ConnectionAgreed SlotAttended
CHECK_DEADLOCK FALSE
