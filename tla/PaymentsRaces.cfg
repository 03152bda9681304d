SPECIFICATION Spec
SYMMETRY MCSymmetry
CONSTANTS
  None = None
  Payments = {p1, p2, p3}
  Invoices = {i1}
  Total <- MCTotal
  Amounts = {1, 2}
  Numbers = {1, 2, 3}
  Senders = {s1}
  Tx = {t1, t2}
INVARIANTS TxTypeOK NoOverAllocation ReversalsPair NumbersDense PaidBackedByAllocations NoPaymentLost StatusMatchesPaid
PROPERTIES VoidedNotPaid VoidedOnlySent
