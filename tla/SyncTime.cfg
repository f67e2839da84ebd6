SPECIFICATION Spec
CONSTANTS
  Object = {"player", "demux", "vDecode", "aDecode", "audioPlay"}
  Slot = {1, 2}
  File <- Short
  OpenOutcome = {"ok"}
  maxList = 1
  maxFrame = 0
  Delay = 0
  Operations = {"open"}
  MaxOps = 1
  Targets = {}
  DecodeFails = {}
  Slow = {}
  Overlapping = {"player"}
INVARIANTS
  SyncTimeOfThisFile
