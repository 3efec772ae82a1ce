CONSTANTS
  Providers <- MCProviders
  Choices = 2
  MaxItems = 7
  MaxTool = 1
SPECIFICATION Spec
CHECK_DEADLOCK FALSE
INVARIANTS TextDelivered TracesTell TextsScreened ToldAsSent
PROPERTIES SpanEventually
