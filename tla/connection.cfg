CONSTANTS
  Formats <- MCFormats
  Subtype <- MCSubtype
  Frame <- MCFrame
  SampleSize <- MCSampleSize
  EightBit <- MCEightBit
  SixteenBit <- MCSixteenBit
  MaxReconnects = 2
SPECIFICATION BuilderSpec
INVARIANTS FrameFits RendererCurrent ConnectionSound AllTried
PROPERTY BothOrNeither
CHECK_DEADLOCK FALSE
