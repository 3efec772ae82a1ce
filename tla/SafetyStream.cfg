CONSTANTS
  Rules <- MCRules
  MaxMatches = 3
  Alphabet = {"a", "b", "c"}
  MaxText = 6
  MaxChunk = 2
  Sizes <- MCSizes
  MayRaise = TRUE
SPECIFICATION StreamSpec
CHECK_DEADLOCK FALSE
INVARIANTS IsolatedMatchesMasked StreamAgreesWithWhole OnlyMatchesMasked
PROPERTY KeepsPromise
