SPECIFICATION YearSpec
SYMMETRY MCSymmetry
CONSTANTS
  Accounts <- MCAccounts
  Revenue = {"sales"}
  Expense = {}
  RetainedEarnings = "retained"
  LastDate = 1
  MonthEnds = {1}
  YearLength = 1
  Now = 2
  Dates = {1}
  Postings <- MCRequests
  Links <- MCReversalLinks
  Handlers = {h1, h2}
  Officers = {o1}
  MaxEvents = 1
  MaxEntries = 4
INVARIANTS OneReversal BooksBalance
