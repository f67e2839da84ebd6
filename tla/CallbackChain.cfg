SPECIFICATION Spec
CONSTANTS
  Object = {"player", "demux", "vDecode", "aDecode", "audioPlay"}
  Slot = {1}
  File <- Interleaved
  OpenOutcome = {"ok"}
  maxList = 1
  maxFrame = 0
  Delay = 0
  Operations = {}
  MaxOps = 0
  Targets = {}
  DecodeFails = {}
  Slow = {}
  Overlapping = {}
INVARIANTS
  CallbacksContinue
