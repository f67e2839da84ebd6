SPECIFICATION Spec
CONSTANTS
  Object = {"player", "demux", "vDecode", "aDecode", "audioPlay"}
  Slot = {1}
  File <- Interleaved
  OpenOutcome = {"ok"}
  maxList = 1
  maxFrame = 0
  Delay = 0
  Operations = {"pause"}
  MaxOps = 2
  Targets = {}
  DecodeFails = {}
  Slow = {"demux", "vDecode"}
  Overlapping = {}
INVARIANTS
  PauseLeak
PROPERTIES
  PlaybackProgress
