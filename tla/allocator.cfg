CONSTANTS
  decoder = decoder
  renderer = renderer
  graph = graph
  Threads <- MCThreads
  MaxBuffers = 2
  MaxPolls = 1
SPECIFICATION Spec
INVARIANTS
  NoLostWakeup
  SampleOnce
  AliveWhileOut
PROPERTIES
  DecommitReturns
  ImplementsPool
CHECK_DEADLOCK FALSE
