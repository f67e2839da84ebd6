SPECIFICATION Spec
CONSTANTS
  Object = {demux}
  Slot = {1, 2}
  MAX_WAIT_STOP_TIME = 2
  PAUSE_WAIT_STOP_TIME = 2
INVARIANTS
  TypeOK
  RunningAccurate
  StopSound
  BodiesAfterStop
  
PROPERTIES
  WorkersQuiesce
  ResumeTakesEffect
