SPECIFICATION Spec
CONSTANTS
  Cold = {1}
  Hot = {3, 4}
  Allowed = {1, 3, 4}
  Paravisor = FALSE
  Latency = FALSE
  EarlyHot = FALSE
  SharedInterrupt = "always"
  StopTpls = {"application"}
  MaxStarts = 1
INVARIANT NoFailFast
CHECK_DEADLOCK FALSE
