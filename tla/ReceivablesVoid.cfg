SPECIFICATION Spec
SYMMETRY MCSymmetry
CHECK_DEADLOCK FALSE
CONSTANTS
  None = None
  Payments = {p1, p2, p3}
  Invoices = {i1}
  Total <- MCTotal
  Amounts = {2}
  Numbers = {1, 2, 3}
  Senders = {}
INVARIANT VoidedHasNoPayments
