SPECIFICATION Spec
CONSTANTS
  c1 = c1
  c2 = c2
  Nobody = Nobody
  Call <- MCCall
  ArgsOf <- MCArgsOf
INVARIANTS
  ExportsGuarded
  PipelinesAgree
CHECK_DEADLOCK FALSE
