SPECIFICATION FrameSpec
CONSTANTS
  Formats <- MCFormats
  W = 6
  H = 4
  OutWidths = {6, 8}
  SubtitlePictures <- MCPictures
  FrameByte <- MCFrameByte
  MaxSubpics = 2
  MaxFrames = 2
INVARIANTS Composed InsideBuffers
CHECK_DEADLOCK FALSE
