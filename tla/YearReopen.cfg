SPECIFICATION YearSpec
SYMMETRY MCSymmetry
CONSTANTS
  Accounts <- MCAccounts
  Revenue = {"sales"}
  Expense = {}
  RetainedEarnings = "retained"
  LastDate = 2
  MonthEnds = {1, 2}
  YearLength = 2
  Now = 3
  Dates = {1}
  Postings <- MCSales
  Links <- MCNoLinks
  Handlers = {h1}
  Officers = {o1}
  MaxEvents = 3
  MaxEntries = 2
PROPERTIES CarriedYearsStayClosed
