SPECIFICATION Spec
CONSTANTS
  Object = {"player", "demux", "vDecode", "aDecode", "audioPlay"}
  Slot = {1}
  File <- AudioAhead
  OpenOutcome = {"ok"}
  maxList = 1
  maxFrame = 0
  Delay = 0
  Operations = {"seek"}
  MaxOps = 1
  Targets = {1}
  DecodeFails = {}
  Slow = {}
  Overlapping = {}
PROPERTIES
  CallReturns
