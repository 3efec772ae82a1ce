CONSTANTS
  o1 = o1
  o2 = o2
  o3 = o3
  f1 = f1
  f2 = f2
  Ops = {o1, o2, o3}
  Flows = {f1, f2}
  Kinds = {"provider", "workflow", "other"}
SPECIFICATION DispatcherSpec
SYMMETRY Symmetric
CHECK_DEADLOCK FALSE
INVARIANTS SpansAccounted CurrentIsActive
