CONSTANTS
  Task = {t1, t2}
  Pk = {p1, p2, p3}
  Ctx = {c1, c2, c3}
  Cell = {e1, e2, e3}
  Null = Null
  Free = Free
  Serial = TRUE
SPECIFICATION Spec
INVARIANTS
  TypeOK NoFreedAccess NothingLeaks PointersStayCached
PROPERTIES
  CallsReturn ImplementsPkCache
