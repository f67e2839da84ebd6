SPECIFICATION Spec
CONSTANTS
  Renderer = {v1, v2}
  Resampler = {a1, a2}
  Window = {w1, w2}
  Channels = {2, 6}
  Caller = Caller
  None = None
  Nobody = Nobody
  MaxCalls = 3
SYMMETRY Names
INVARIANTS
  TypeOK
  CrashOnlyWhenMet
  
  HoldersLetGo

  
