CONSTANTS
  c1 = c1
  c2 = c2
  q1 = q1
  cfgA = cfgA
  cfgB = cfgB
  cfgBad = cfgBad
  Caller = {c1, c2}
  Request = {q1}
  Config <- MCConfig
  Startable <- MCStartable
  Off = Off
  Free = Free
  MaxCalls = 2
  MaxVersion = 2
  ThreadsMayFail = TRUE
SPECIFICATION FairSpec
INVARIANTS HandlersAgree OneRefresher RequestsKeepUp
PROPERTIES RulesNeverRegress CallsReturn PollersStop RulesArrive
