CONSTANTS
  r1 = r1
  r2 = r2
  None = None
  Renderers <- MCRenderers
  Callbacks <- MCCallbacks
  MaxHeld = 2
  MaxRefs = 7
SPECIFICATION Spec
INVARIANTS
  HolderKeepsAlive
  PlainIsFreed
  SingleIsSound
CHECK_DEADLOCK FALSE
