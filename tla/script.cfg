CONSTANTS
  Values <- MCValues
  Directories <- MCDirectories
SPECIFICATION Spec
INVARIANTS LoadOutcome EachSubtitleOnce StyledAsWritten
CHECK_DEADLOCK FALSE
