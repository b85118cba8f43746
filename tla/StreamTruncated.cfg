SPECIFICATION StreamSpec
CONSTANTS
  MaxChunks = 2
  NoVerdict = NoVerdict
INVARIANT TruncationIsFailure
CHECK_DEADLOCK FALSE
