SPECIFICATION Spec
CONSTANTS
  Object = {"player", "demux", "vDecode", "aDecode", "audioPlay"}
  Slot = {1}
  File <- Interleaved
  OpenOutcome = {"ok"}
  maxList = 3
  maxFrame = 3
  Delay = 1
  Operations = {"seek"}
  MaxOps = 1
  Targets = {0, 2}
  DecodeFails = {}
  Slow = {}
  Overlapping = {}
INVARIANTS
  QueueOrder
PROPERTIES
  FrameSafe
  CallReturns
