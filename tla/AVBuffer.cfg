SPECIFICATION Spec
CONSTANTS
  Thread = {t1, t2}
  Ref = {r1, r2, r3}
  Buffer = {b1, b2, b3}
  Data = {d1, d2, d3}
  Pool = {p1, p2}
  None = None
SYMMETRY Names
INVARIANTS
  TypeOK
  NoDangling
  CountsReferences
  WriterIsAlone
  PoolOutlivesBuffers
  NothingLeaks
