SPECIFICATION Spec
INVARIANTS  NoStrandedMessage TimersOnTime CompletionsFindTheirCaller AdapterRecordsTrue
INVARIANTS BarsMapped ReadReturnsFile KeysInOrder ScreenShown CapabilitiesFound RequestsExact
INVARIANTS  AnswersMatch MessagesReadBack
CHECK_DEADLOCK FALSE
