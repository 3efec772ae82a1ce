CONSTANTS
  r1 = r1
  r2 = r2
  r3 = r3
  f1 = f1
  f2 = f2
  Reset = reset
  Runs = {r1, r2, r3}
  Flows = {f1, f2}
  Kinds = {"chain", "chat", "retriever"}
SPECIFICATION Spec
SYMMETRY Symmetric
CHECK_DEADLOCK FALSE
INVARIANTS SpansAccounted ContextFollowsRuns
PROPERTY UnderLivingSpan
