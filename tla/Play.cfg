SPECIFICATION Spec
CONSTANTS
  Object = {"player", "demux", "vDecode", "aDecode", "audioPlay"}
  Slot = {1}
  File <- Longer
  OpenOutcome = {"ok"}
  maxList = 2
  maxFrame = 1
  Delay = 0
  Operations = {}
  MaxOps = 0
  Targets = {}
  DecodeFails = {}
  Slow = {}
  Overlapping = {}
INVARIANTS
  TypeOK
  QueueBounds
  SingleOwner
PROPERTIES
  PlaysInOrder
  PlaybackProgress
