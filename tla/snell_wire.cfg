SPECIFICATION Spec
CONSTANTS
  FrameSize = 1460
  MaxPayload = 16383
  Lens = {1, 100, 60000}
  MaxCalls = 3
  MaxPings = 1
  MaxWire = 3
INVARIANTS InStep FrameFits
CHECK_DEADLOCK FALSE
