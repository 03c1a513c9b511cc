CONSTANTS
  line = line
  other = other
  Lines <- MCLines
  Strip <- MCStrip
  Times <- MCTimes
  Never <- MCNever
  HeadNodes <- MCHeadNodes
  MaxPerStart = 2
  MaxPictures = 4
  Buffers = 1
  MaxSeeks = 2
  MaxLines = 1
SPECIFICATION Spec
INVARIANT OneThreadInRenderer
