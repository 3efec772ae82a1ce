CONSTANTS
  Rules <- MCRules
  MaxMatches = 9
  Alphabet = {"a", "b", "c"}
  MaxText = 7
  MaxChunk = 2
  Sizes <- MCSizes
  MayRaise = FALSE
SPECIFICATION StreamSpec
CHECK_DEADLOCK FALSE
INVARIANT MaskedBeforeDelivery
