SPECIFICATION Spec
CONSTANTS
  ThreadCount = 3
  MaxPackets = 4
  Codecs <- AllCodecs
  User = User
  None = None
  MaxDrainErrors = 3
INVARIANTS
  TypeOK
  Assertions
  FramesAreComplete
  HardwareIsSerial
PROPERTIES
  DecodesAsQueue
  CallsReturn
