SPECIFICATION Spec
CONSTANTS
  Handles = {"m_RenderEvent"}
  Lead = 0
  Negligible = 1
  Deltas = {1, 2}
  MaxTime = 4
  Streams <- MCStreams
  Chunks = 2
  Positions = {1, 3}
  DeliveryWait = 1
  TimerIds = {1, 2}
  MaxEvents = 3
INVARIANTS NoOversleep NothingStale
PROPERTIES NotEarly CompleteAtEnd CommandsReturn PlaysOn PauseCompletes
CHECK_DEADLOCK FALSE
