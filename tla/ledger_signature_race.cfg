SPECIFICATION Spec
SYMMETRY Interchangeable
CHECK_DEADLOCK FALSE
CONSTANTS
  Nil = Nil
  o1 = o1
  o2 = o2
  FirstId = o1
  Objects = {o1, o2}
  Seeded = {o1}
  Types = {t1}
  Tags = {g1}
  Requests = {r1, r2, r3}
  Targets = {"InStock", "Out", "Lost", "Resting", "Deleted"}
  Faulty = {}
  MaxInFlight = 2
  MaxBatch = 1
  ClockSteps = {1}
INVARIANTS LoanFromStockIsSigned
