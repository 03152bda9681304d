SPECIFICATION FairSpec
CONSTANTS
  None = None
  Payments = {p1, p2}
  Invoices = {i1, i2}
  Total <- MCUnitTotal
  Amounts = {1}
  Numbers = {1, 2}
  Senders = {}
  Tx = {t1, t2}
INVARIANTS TxInv
PROPERTIES ImplementsReceivables TransactionsEnd
