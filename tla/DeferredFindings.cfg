CONSTANTS
  main = main
  loop = loop
  w1 = w1
  p1 = p1
  l1 = l1
  x1 = x1
  x2 = x2
  Thread <- MCThread
  Loop = loop
  Worker <- MCWorker
  Provider <- MCProvider
  LangChain <- MCLangChain
  LlamaIndex <- MCLlamaIndex
SPECIFICATION Spec
SYMMETRY MCSymmetry
CHECK_DEADLOCK FALSE
INVARIANTS SharedAccounted RecordedFindingsReported
PROPERTY SyncKeepsStrangersOff
