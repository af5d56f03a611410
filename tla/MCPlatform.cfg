SPECIFICATION Spec
INVARIANTS DmaDataIntact RangeAsAsked VariablesAsSet ClockKept TypesAsAsked PolicyHeld
INVARIANTS AuthoritiesMeasuredOnce
CHECK_DEADLOCK FALSE
