SPECIFICATION Spec
CONSTANTS
  c1 = c1
  c2 = c2
  App = App
  NoSpan = NoSpan
  Call <- MCCall
  Shapes <- MCShapes
  MaxTries = 2
  MaxClock = 1
  CounterMax = 1
  CounterBatch = 1
  CounterTtl = 0
SYMMETRY MCSymmetry
INVARIANTS SpansAccounted NumbersTell MarkedCarryUsage
CHECK_DEADLOCK FALSE
