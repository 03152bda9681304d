SPECIFICATION Spec
SYMMETRY MCSymmetry
CONSTANTS
  None = None
  Payments = {p1, p2}
  Invoices = {}
  Total <- MCTotal
  Amounts = {1}
  Numbers = {1, 2}
  Senders = {}
  l1 = l1
  l2 = l2
  x1 = x1
  k1 = k1
  k2 = k2
  Lines = {l1, l2}
  Files <- MCFiles
  LineRef <- MCLineRef
  LineKey <- MCLineKey
  LineType <- MCLineType
  LineAmount <- MCLineAmount
  BankRows = {b1, b2}
  Reconciliations = {r1}
  Clerks = {c1, c2}
  Importers = {c1}
  Matchers = {c1}
INVARIANTS BankTypeOK ImportedOnce NoPaymentLeftOver AutoMatchesDistinct
PROPERTIES PaymentsAsPromised MatchesStand
CHECK_DEADLOCK FALSE
