SPECIFICATION Spec
SYMMETRY MCSymmetry
CONSTANTS
  LastDate = 4
  MonthEnds = {1, 2, 4}
  Officers = {o1, o2}
  MaxEvents = 4
INVARIANTS PeriodTypeOK LockReopenable
PROPERTIES ReopenOpens
