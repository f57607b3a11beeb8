SPECIFICATION Spec
CONSTANTS
  Files = {f1, f2}
  Paths = {p1, p2}
  Ids = {i1, i2}
  Threats = {t1, t2}
  None = None
  Partial = Partial
  Damaged = Damaged
SYMMETRY Symmetry
INVARIANTS
  
  EntriesWhole
  Isolated
