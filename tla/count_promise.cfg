CONSTANTS
  tagged = tagged
  stripped = stripped
  Lines <- MCLines
  Strip <- MCStrip
  Times <- MCTimes
  Never <- MCNever
  HeadNodes <- MCOtherMemory
  MaxPerStart = 2
  MaxPictures = 4
SPECIFICATION SRTSpec
INVARIANT PicturesMatchCount
CHECK_DEADLOCK FALSE
