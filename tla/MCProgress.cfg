SPECIFICATION Spec
PROPERTIES EveryPacketDelivered EveryRequestCompletes RequestsAnswered RootProgresses
CHECK_DEADLOCK FALSE
