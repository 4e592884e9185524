SPECIFICATION Spec
CONSTANTS
  None = None
  Ids = {g1, g2, g3}
  Contents = {c1, c2}
  Buckets = {b1}
  Scores = {1, 2}
  MaxManaged = 1
  MaxFailures = 1
SYMMETRY Symmetry
INVARIANTS
  IndexSound
  BestExists
  WriteThrough
  OneEntryPerContent
