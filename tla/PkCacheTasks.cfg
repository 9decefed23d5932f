CONSTANTS
  Task = {t1, t2}
  Pk = {p1, p2}
  Ctx = {c1, c2}
  Cell = {e1, e2}
  Null = Null
  Free = Free
  Serial = FALSE
SPECIFICATION Spec
INVARIANTS
  PointersStayCached
SYMMETRY Symmetry
