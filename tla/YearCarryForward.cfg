SPECIFICATION YearSpec
SYMMETRY MCSymmetry
CONSTANTS
  Accounts <- MCAccounts
  Revenue = {"sales"}
  Expense = {}
  RetainedEarnings = "retained"
  LastDate = 1
  MonthEnds = {1}
  YearLength = 1
  Now = 2
  Dates = {1, 2}
  Postings <- MCSales
  Links <- MCCarryForwardLinks
  Handlers = {h1}
  Officers = {o1}
  MaxEvents = 2
  MaxEntries = 4
INVARIANTS YearTypeOK CarryForwardOnce CarryForwardExact
