SPECIFICATION Spec
CONSTANTS
  Modes <- MCModes
  m_lBatchSize = 2
  Marks = {"SendAnyway", "EOS", "NewSegment"}
  ResetModes <- MCResetModes
  InFlight = {"Receive", "EOS"}
  MaxSamples = 4
  MaxQueued = 2
INVARIANTS EachSampleOnce StreamKept SignalsSound
PROPERTIES Returns
CHECK_DEADLOCK FALSE
