SPECIFICATION ObjectsSpec
CONSTANTS
  Calls = {c1, c2, c3}
  Ids = {r1, r2}
  Users = {c1, c2, c3}
  Threads = {t1, t2}
  MaxResponses = 2
  MaxPieces = 2
  MaxSpans = 2
  MaxMessages = 2
  MaxBlocks = 2
SYMMETRY Symmetric
INVARIANTS SpansTell SharedEntriesServe EventTextsTold
CHECK_DEADLOCK FALSE
