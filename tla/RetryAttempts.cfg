CONSTANTS
  t1 = t1
  t2 = t2
  k1 = k1
  k2 = k2
  k3 = k3
  r1 = r1
  r2 = r2
  d1 = d1
  Thread <- MCThread
  Token <- MCToken
  Run <- MCRun
  Call <- MCCall
  Nobody = Nobody
  NoToken = NoToken
  NoRun = NoRun
  MaxEntries = 2
  EvictBatch = 1
  Ttl = 1
  MapMax = 1
  MapBatch = 1
  MapTtl = 1
  MaxTime = 2
  Supersedes = TRUE
SPECIFICATION Spec
SYMMETRY MCSymmetry
CHECK_DEADLOCK FALSE
INVARIANTS SpansAccounted FinishedRunsLeaveNothing AnswersExactly
PROPERTIES SuppressedForAReason SecondSpanOnlyWhenOld
