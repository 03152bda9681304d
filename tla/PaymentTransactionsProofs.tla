---------------------- MODULE PaymentTransactionsProofs ----------------------
(***************************************************************************)
(* For any number of payments, invoices, amounts and connections: TxInv is *)
(* an invariant of PaymentTransactions, and every step of it is a step of  *)
(* Receivables or leaves the committed rows alone.  What the committed     *)
(* rows promise follows from the atomic operations, in the second half.    *)
(***************************************************************************)
EXTENDS PaymentTransactions, SumTheorems, FunctionTheorems

-----------------------------------------------------------------------------
(* Rules on one row *)

\* An order names every element of a finite set once.
LEMMA OrderEnumerates ==
    ASSUME NEW S \in SUBSET Invoices, NEW order \in SetToSeqs(S)
    PROVE  /\ order \in Seq(Invoices) /\ Len(order) \in Nat
           /\ \A k \in 1..Len(order) : order[k] \in S
           /\ \A i \in S : \E k \in 1..Len(order) : order[k] = i
           /\ \A k, l \in 1..Len(order) : order[k] = order[l] => k = l
<1> DEFINE n == Cardinality(S)
<1>1. IsFiniteSet(S)
  BY FiniteAssumption, FS_Subset
<1>2. n \in Nat
  BY <1>1, FS_CardinalityType
<1>3. order \in [1..n -> S] /\ \A k, l \in 1..n : k # l => order[k] # order[l]
  BY DEF SetToSeqs
<1>4. order \in Injection(1..n, S)
  BY <1>3, Fun_IsInj
<1>5. IsFiniteSet(1..n) /\ Cardinality(1..n) = n
  BY <1>2, FS_Interval
<1>6. order \in Surjection(1..n, S)
  BY <1>1, <1>4, <1>5, FS_Injection
<1>7. order \in Seq(S) /\ Len(order) = n
  BY <1>2, <1>3
<1>8. order \in Seq(Invoices)
  BY <1>2, <1>3
<1>9. \A i \in S : \E k \in 1..n : order[k] = i
  BY <1>6 DEF Surjection
<1> QED
  BY <1>2, <1>3, <1>7, <1>8, <1>9

\* A payment update gives an invoice row, whatever its sign.
LEMMA UpdateType ==
    ASSUME NEW row \in Invoice, NEW total \in Nat, NEW amount \in Int, NEW late \in BOOLEAN
    PROVE  calculatePaymentUpdate(row, total, amount, late) \in Invoice
BY DEF calculatePaymentUpdate, unpaidInvoiceStatusAt, Invoice, InvoiceStatuses

\* Requests and reversals are payment rows.
LEMMA RowTypes ==
    /\ NoPayment \in Payment
    /\ PaymentRequests \subseteq Payment
    /\ \A p \in Payments, row \in Payment : ReversalOf(p, row) \in Payment
<1>1. NoPayment \in Payment
  BY DEF NoPayment, Payment, NoAllocations, PaymentTypes
<1>2. PaymentRequests \subseteq Payment
  <2> SUFFICES ASSUME NEW row \in PaymentRequests PROVE row \in Payment
    OBVIOUS
  <2>1. row \in [type : PaymentTypes, number : {0}, amount : Amounts,
                 alloc : [Invoices -> Amounts \union {0}],
                 reversalOf : {None}, reversedBy : {None}]
    BY DEF PaymentRequests
  <2>2. row.alloc \in [Invoices -> Amounts \union {0}] /\ Amounts \union {0} \subseteq Nat
    BY <2>1, AmountsAssumption
  <2>3. row.alloc \in [Invoices -> Nat]
    BY <2>2
  <2> QED
    BY <2>1, <2>3, AmountsAssumption DEF Payment
<1>3. \A p \in Payments, row \in Payment : ReversalOf(p, row) \in Payment
  BY DEF ReversalOf, reversePaymentType, Payment, PaymentTypes
<1> QED BY <1>1, <1>2, <1>3

LEMMA IdleType == Idle \in Transactions
BY RowTypes DEF Idle, Transactions, Invoice, InvoiceStatuses, DraftInvoice

-----------------------------------------------------------------------------
(* A step of one transaction that commits nothing *)

\* The predicates of a transaction that does not move, over rows that do not
\* change, keep their values.
LEMMA Unmoved ==
    ASSUME UNCHANGED stateVars, NEW u \in Tx, tx'[u] = tx[u]
    PROVE  /\ \A p \in Payments : HoldsPayment(u, p)' <=> HoldsPayment(u, p)
           /\ HoldsNumber(u)' <=> HoldsNumber(u)
           /\ \A i \in Invoices : LocksInvoice(u, i)' <=> LocksInvoice(u, i)
           /\ \A i \in Invoices : SharesInvoice(u, i)' <=> SharesInvoice(u, i)
           /\ CreateOK(u)' <=> CreateOK(u)
           /\ ReverseOK(u)' <=> ReverseOK(u)
           /\ AllocateOK(u)' <=> AllocateOK(u)
<1>1. /\ \A p \in Payments : HoldsPayment(u, p)' <=> HoldsPayment(u, p)
      /\ HoldsNumber(u)' <=> HoldsNumber(u)
  BY DEF HoldsPayment, HoldsNumber
<1>2. Width(u)' = Width(u)
  BY DEF Width
<1>3. \A i \in Invoices : LocksInvoice(u, i)' <=> LocksInvoice(u, i)
  BY <1>2 DEF LocksInvoice
<1>4. \A i \in Invoices : SharesInvoice(u, i)' <=> SharesInvoice(u, i)
  BY <1>2 DEF SharesInvoice
<1>5. OrderOK(u)' <=> OrderOK(u)
  BY <1>2 DEF OrderOK, Targets
<1>6. Unnumbered(u)' = Unnumbered(u)
  BY DEF Unnumbered
<1>7. pay' = pay
  BY DEF stateVars
<1>8. CreateOK(u)' <=> CreateOK(u)
  BY <1>5, <1>6 DEF CreateOK
<1>9. ReverseOK(u)' <=> ReverseOK(u)
  BY <1>5, <1>6, <1>7 DEF ReverseOK, Exists, IsReversal, IsReversed
<1>10. AllocateOK(u)' <=> AllocateOK(u)
  BY <1>5, <1>7 DEF AllocateOK, Exists, IsReversal, IsReversed
<1> QED
  BY <1>1, <1>3, <1>4, <1>8, <1>9, <1>10

\* What a locked invoice of t must look like.
LEMMA LocalStep ==
    ASSUME TxInv, UNCHANGED stateVars, NEW t \in Tx, NEW r \in Transactions,
           tx' = [tx EXCEPT ![t] = r],
           CreateOK(t)', ReverseOK(t)', AllocateOK(t)',
           r.op = "none" <=> r.pc = "idle",
           r.op = "none" => r.new = None,
           r.pc # "run" => r.step = 0,
           r.pc = "insert" => r.row.number \in Numbers,
           r.new # None => ~Exists(r.new) /\ \A u \in Tx \ {t} : tx[u].new # r.new,
           HoldsNumber(t)' =>
              /\ r.row.number \in Numbers \ UsedNumbers(r.row.type)
              /\ \A u \in Tx \ {t} :
                    ~(HoldsNumber(u) /\ tx[u].row.type = r.row.type
                                     /\ tx[u].row.number = r.row.number),
           \A p \in Payments : HoldsPayment(t, p)' => \A u \in Tx \ {t} : ~HoldsPayment(u, p),
           \A i \in Invoices :
              /\ LocksInvoice(t, i)' =>
                    /\ inv[i].status # "VOIDED"
                    /\ \A u \in Tx \ {t} : ~SharesInvoice(u, i)
                    /\ \E late \in BOOLEAN :
                          /\ late => i \in pastDue
                          /\ r.invoice[i] = calculatePaymentUpdate(inv[i], Total[i],
                                               Sign(t)' * r.row.alloc[i], late)
              /\ SharesInvoice(t, i)' => \A u \in Tx \ {t} : ~LocksInvoice(u, i)
    PROVE  TxInv'
<1>1. TxTypeOK /\ tx \in [Tx -> Transactions]
  BY DEF TxInv, TxTypeOK
<1>2. tx'[t] = r /\ \A u \in Tx \ {t} : tx'[u] = tx[u]
  BY <1>1
<1>3. pay' = pay /\ inv' = inv /\ pastDue' = pastDue /\ sending' = sending
  BY DEF stateVars
<1>4. TxTypeOK'
  BY <1>1, <1>3 DEF TxTypeOK, TypeOK
<1>5. \A u \in Tx \ {t} :
         /\ \A p \in Payments : HoldsPayment(u, p)' <=> HoldsPayment(u, p)
         /\ HoldsNumber(u)' <=> HoldsNumber(u)
         /\ \A i \in Invoices : LocksInvoice(u, i)' <=> LocksInvoice(u, i)
         /\ \A i \in Invoices : SharesInvoice(u, i)' <=> SharesInvoice(u, i)
         /\ CreateOK(u)' <=> CreateOK(u)
         /\ ReverseOK(u)' <=> ReverseOK(u)
         /\ AllocateOK(u)' <=> AllocateOK(u)
  BY <1>2, Unmoved
<1>6. PaymentsExclusive'
  BY <1>5 DEF PaymentsExclusive, TxInv
<1>7. InvoicesExclusive'
  <2> SUFFICES ASSUME NEW u \in Tx, NEW v \in Tx, NEW i \in Invoices,
                      LocksInvoice(u, i)', SharesInvoice(v, i)'
               PROVE  u = v
    BY DEF InvoicesExclusive
  <2>1. CASE u = t
    BY <2>1, <1>5
  <2>2. CASE u # t /\ v = t
    BY <2>2, <1>5
  <2>3. CASE u # t /\ v # t
    BY <2>3, <1>5 DEF InvoicesExclusive, TxInv
  <2> QED BY <2>1, <2>2, <2>3
<1>8. UpdatesNotStale'
  <2> SUFFICES ASSUME NEW u \in Tx, NEW i \in Invoices, LocksInvoice(u, i)'
               PROVE  (/\ inv[i].status # "VOIDED"
                       /\ \E late \in BOOLEAN :
                            /\ late => i \in pastDue
                            /\ tx[u].invoice[i] = calculatePaymentUpdate(inv[i], Total[i],
                                                     Sign(u) * tx[u].row.alloc[i], late))'
    BY DEF UpdatesNotStale
  <2>1. CASE u = t
    BY <2>1, <1>2, <1>3 DEF calculatePaymentUpdate, unpaidInvoiceStatusAt
  <2>2. CASE u # t
    <3>1. tx'[u] = tx[u] /\ LocksInvoice(u, i)
      BY <2>2, <1>2, <1>5
    <3>2. Sign(u)' = Sign(u)
      BY <3>1 DEF Sign
    <3> QED
      BY <3>1, <3>2, <1>3 DEF TxInv, UpdatesNotStale, calculatePaymentUpdate, unpaidInvoiceStatusAt
  <2> QED BY <2>1, <2>2
<1>9. NewOK'
  <2>1. \A p : Exists(p)' <=> Exists(p)
    BY <1>3 DEF Exists
  <2>2. \A type : UsedNumbers(type)' = UsedNumbers(type)
    BY <1>3 DEF UsedNumbers, Exists
  <2> SUFFICES ASSUME NEW u \in Tx
               PROVE  (/\ tx[u].op = "none" <=> tx[u].pc = "idle"
                       /\ tx[u].op = "none" => tx[u].new = None
                       /\ tx[u].pc # "run" => tx[u].step = 0
                       /\ tx[u].pc = "insert" => tx[u].row.number \in Numbers
                       /\ tx[u].new # None =>
                             ~Exists(tx[u].new) /\ \A v \in Tx : tx[v].new = tx[u].new => u = v
                       /\ HoldsNumber(u) =>
                             /\ tx[u].row.number \in Numbers \ UsedNumbers(tx[u].row.type)
                             /\ \A v \in Tx :
                                   HoldsNumber(v) /\ tx[v].row.type = tx[u].row.type
                                      /\ tx[v].row.number = tx[u].row.number => u = v)'
    BY DEF NewOK
  <2>3. CASE u = t
    BY <2>1, <2>2, <2>3, <1>2, <1>5
  <2>4. CASE u # t
    <3>1. /\ tx[u].op = "none" <=> tx[u].pc = "idle"
          /\ tx[u].op = "none" => tx[u].new = None
          /\ tx[u].pc # "run" => tx[u].step = 0
          /\ tx[u].pc = "insert" => tx[u].row.number \in Numbers
          /\ tx[u].new # None =>
                ~Exists(tx[u].new) /\ \A v \in Tx : tx[v].new = tx[u].new => u = v
          /\ HoldsNumber(u) =>
                /\ tx[u].row.number \in Numbers \ UsedNumbers(tx[u].row.type)
                /\ \A v \in Tx : HoldsNumber(v) /\ tx[v].row.type = tx[u].row.type
                                   /\ tx[v].row.number = tx[u].row.number => u = v
      BY DEF TxInv, NewOK
    <3>2. tx'[u] = tx[u] /\ (HoldsNumber(u)' <=> HoldsNumber(u))
      BY <2>4, <1>2, <1>5
    <3> QED
      BY <2>1, <2>2, <2>4, <3>1, <3>2, <1>2, <1>5
  <2> QED BY <2>3, <2>4
<1>10. \A u \in Tx : CreateOK(u)' /\ ReverseOK(u)' /\ AllocateOK(u)'
  BY <1>5 DEF TxInv
<1> QED
  BY <1>4, <1>6, <1>7, <1>8, <1>9, <1>10 DEF TxInv

\* Before it inserts, a transaction locks no invoice.
LEMMA NoInvoiceLocks ==
    ASSUME NEW t \in Tx, tx[t].pc # "run" \/ tx[t].step = 0, Width(t) \in Nat, tx[t].step \in Nat
    PROVE  \A i \in Invoices : ~LocksInvoice(t, i) /\ ~SharesInvoice(t, i)
BY DEF LocksInvoice, SharesInvoice

LEMMA RollbackStep ==
    ASSUME TxInv, NEW t \in Tx, Rollback(t)
    PROVE  TxInv'
<1>1. tx' = [tx EXCEPT ![t] = Idle] /\ UNCHANGED stateVars /\ Idle \in Transactions
  BY IdleType DEF Rollback
<1>2. tx'[t] = Idle
  BY <1>1 DEF TxInv, TxTypeOK
<1>3. CreateOK(t)' /\ ReverseOK(t)' /\ AllocateOK(t)'
  BY <1>2 DEF Idle, CreateOK, ReverseOK, AllocateOK
<1>4. ~HoldsNumber(t)' /\ \A p \in Payments : ~HoldsPayment(t, p)'
  BY <1>2 DEF Idle, HoldsNumber, HoldsPayment
<1>5. \A i \in Invoices : ~LocksInvoice(t, i)' /\ ~SharesInvoice(t, i)'
  BY <1>2 DEF Idle, LocksInvoice, SharesInvoice
<1>6. Idle.op = "none" /\ Idle.pc = "idle" /\ Idle.new = None /\ Idle.step = 0
  BY DEF Idle
<1> QED
  BY <1>1, <1>3, <1>4, <1>5, <1>6, LocalStep

LEMMA BeginCreateStep ==
    ASSUME TxInv, NEW t \in Tx, BeginCreate(t)
    PROVE  TxInv'
<1>0. PICK p \in Payments, row \in PaymentRequests :
        /\ ~Exists(p) /\ \A u \in Tx : tx[u].new # p
        /\ \E order \in SetToSeqs(Targets(row.alloc)) :
              tx' = [tx EXCEPT ![t] = [Idle EXCEPT !.op = "create", !.pc = "number",
                                                   !.new = p, !.row = row, !.order = order]]
  BY DEF BeginCreate
<1>1. PICK order \in SetToSeqs(Targets(row.alloc)) :
        tx' = [tx EXCEPT ![t] = [Idle EXCEPT !.op = "create", !.pc = "number",
                                                !.new = p, !.row = row, !.order = order]]
  BY <1>0
<1> DEFINE r == [Idle EXCEPT !.op = "create", !.pc = "number",
                             !.new = p, !.row = row, !.order = order]
<1>2. row \in Payment /\ Targets(row.alloc) \subseteq Invoices
  BY RowTypes DEF Targets
<1>3. /\ order \in Seq(Invoices) /\ Len(order) \in Nat
      /\ \A k \in 1..Len(order) : order[k] \in Targets(row.alloc)
      /\ \A i \in Targets(row.alloc) : \E k \in 1..Len(order) : order[k] = i
      /\ \A k, l \in 1..Len(order) : order[k] = order[l] => k = l
  BY <1>2, OrderEnumerates
<1>4. r \in Transactions
  BY <1>2, <1>3, IdleType DEF Transactions
<1>5. /\ r.op = "create" /\ r.pc = "number" /\ r.new = p /\ r.row = row /\ r.order = order
      /\ r.target = None /\ r.step = 0
  BY DEF Idle
<1>6. tx' = [tx EXCEPT ![t] = r] /\ UNCHANGED stateVars /\ tx'[t] = r
  BY <1>1 DEF BeginCreate, TxInv, TxTypeOK
<1> HIDE DEF r
<1>7. OrderOK(t)'
  <2>1. Width(t)' = Len(order) /\ tx'[t].order = order /\ tx'[t].row = row /\ tx'[t].step = 0
    BY <1>5, <1>6 DEF Width
  <2> QED
    BY <1>3, <2>1 DEF OrderOK, Targets
<1>8. Unnumbered(t)' \in PaymentRequests
  <2>1. row.number = 0 /\ [row EXCEPT !.number = 0] = row
    BY DEF PaymentRequests
  <2>2. tx'[t].row = row
    BY <1>5, <1>6
  <2> QED
    BY <2>1, <2>2 DEF Unnumbered
<1>9. CreateOK(t)' /\ ReverseOK(t)' /\ AllocateOK(t)'
  BY <1>5, <1>6, <1>7, <1>8, NoneAssumption DEF CreateOK, ReverseOK, AllocateOK
<1>10. ~HoldsNumber(t)' /\ \A q \in Payments : ~HoldsPayment(t, q)'
  BY <1>5, <1>6, NoneAssumption DEF HoldsNumber, HoldsPayment
<1>11. \A i \in Invoices : ~LocksInvoice(t, i)' /\ ~SharesInvoice(t, i)'
  BY <1>5, <1>6 DEF LocksInvoice, SharesInvoice
<1> QED
  BY <1>0, <1>4, <1>5, <1>6, <1>9, <1>10, <1>11, LocalStep

LEMMA BeginReverseStep ==
    ASSUME TxInv, NEW t \in Tx, BeginReverse(t)
    PROVE  TxInv'
<1>0. PICK p \in Payments, q \in Payments :
        /\ Exists(p)
        /\ ~Exists(q) /\ \A u \in Tx : tx[u].new # q
        /\ tx' = [tx EXCEPT ![t] = [Idle EXCEPT !.op = "reverse", !.pc = "lock",
                                                !.target = p, !.new = q]]
  BY DEF BeginReverse
<1> DEFINE r == [Idle EXCEPT !.op = "reverse", !.pc = "lock", !.target = p, !.new = q]
<1>1. r \in Transactions
  BY IdleType DEF Transactions
<1>2. r.op = "reverse" /\ r.pc = "lock" /\ r.new = q /\ r.target = p /\ r.step = 0
  BY DEF Idle
<1>3. tx' = [tx EXCEPT ![t] = r] /\ UNCHANGED stateVars /\ tx'[t] = r
  BY <1>0 DEF BeginReverse, TxInv, TxTypeOK
<1> HIDE DEF r
<1>4. Exists(p)'
  BY <1>0, <1>3 DEF Exists, stateVars
<1>5. CreateOK(t)' /\ ReverseOK(t)' /\ AllocateOK(t)'
  BY <1>2, <1>3, <1>4, NoneAssumption DEF CreateOK, ReverseOK, AllocateOK
<1>6. ~HoldsNumber(t)' /\ \A s \in Payments : ~HoldsPayment(t, s)'
  BY <1>2, <1>3 DEF HoldsNumber, HoldsPayment
<1>7. \A i \in Invoices : ~LocksInvoice(t, i)' /\ ~SharesInvoice(t, i)'
  BY <1>2, <1>3 DEF LocksInvoice, SharesInvoice
<1> QED
  BY <1>0, <1>1, <1>2, <1>3, <1>5, <1>6, <1>7, LocalStep

LEMMA BeginAllocateStep ==
    ASSUME TxInv, NEW t \in Tx, BeginAllocate(t)
    PROVE  TxInv'
<1>0. PICK p \in Payments, i \in Invoices, amount \in Amounts :
        /\ Exists(p)
        /\ tx' = [tx EXCEPT ![t] = [Idle EXCEPT !.op = "allocate", !.pc = "lock", !.target = p,
                                                !.row.alloc[i] = amount, !.order = <<i>>]]
  BY DEF BeginAllocate
<1> DEFINE alloc == [NoAllocations EXCEPT ![i] = amount]
           r     == [Idle EXCEPT !.op = "allocate", !.pc = "lock", !.target = p,
                                 !.row.alloc[i] = amount, !.order = <<i>>]
<1>1. amount \in Nat \ {0} /\ alloc \in [Invoices -> Nat] /\ Targets(alloc) = {i}
  BY AmountsAssumption DEF NoAllocations, Targets
<1>2. /\ r.op = "allocate" /\ r.pc = "lock" /\ r.target = p /\ r.order = <<i>>
      /\ r.new = None /\ r.step = 0 /\ r.row = [NoPayment EXCEPT !.alloc = alloc]
      /\ r.row.alloc = alloc
  BY DEF Idle, NoPayment
<1>3. r \in Transactions
  <2>1. r.row \in Payment
    BY <1>1, <1>2, RowTypes DEF Payment
  <2>2. <<i>> \in Seq(Invoices)
    OBVIOUS
  <2>3. r = [[Idle EXCEPT !.row = r.row] EXCEPT !.op = "allocate", !.pc = "lock",
                                                !.target = p, !.order = <<i>>]
    BY ZenonT(60) DEF Idle
  <2> HIDE DEF r
  <2> QED
    BY <2>1, <2>2, <2>3, IdleType DEF Transactions
<1>4. tx' = [tx EXCEPT ![t] = r] /\ UNCHANGED stateVars /\ tx'[t] = r
  BY <1>0 DEF BeginAllocate, TxInv, TxTypeOK
<1> HIDE DEF r, alloc
<1>5. Exists(p)'
  BY <1>0, <1>4 DEF Exists, stateVars
<1>6. OrderOK(t)'
  <2>0. Len(<<i>>) = 1 /\ <<i>>[1] = i
    OBVIOUS
  <2>1. Width(t)' = 1 /\ tx'[t].order[1] = i /\ tx'[t].row.alloc = alloc /\ tx'[t].step = 0
    <3>1. tx'[t].order = <<i>> /\ tx'[t].row.alloc = alloc /\ tx'[t].step = 0
      BY <1>2, <1>4
    <3> QED
      BY <2>0, <3>1 DEF Width
  <2>2. Targets(tx[t].row.alloc)' = {i}
    BY <1>1, <2>1 DEF Targets
  <2>3. \A k \in 1..Width(t)' : k = 1
    BY <2>1
  <2> QED
    BY <2>1, <2>2, <2>3 DEF OrderOK
<1>7. CreateOK(t)' /\ ReverseOK(t)' /\ AllocateOK(t)'
  <2> USE DEF alloc
  <2> QED
    BY ZenonT(60), <1>2, <1>4, <1>5, <1>6, NoneAssumption DEF CreateOK, ReverseOK, AllocateOK
<1>8. ~HoldsNumber(t)' /\ \A s \in Payments : ~HoldsPayment(t, s)'
  BY <1>2, <1>4 DEF HoldsNumber, HoldsPayment
<1>9. \A j \in Invoices : ~LocksInvoice(t, j)' /\ ~SharesInvoice(t, j)'
  BY <1>2, <1>4 DEF LocksInvoice, SharesInvoice
<1> QED
  BY <1>0, <1>2, <1>3, <1>4, <1>7, <1>8, <1>9, LocalStep

-----------------------------------------------------------------------------
(* Statements *)

\* A statement after the checks leaves the request as it is: what the checks
\* established still holds.
LEMMA SameRequest ==
    ASSUME TxInv, UNCHANGED stateVars, NEW t \in Tx,
           tx[t].pc \in {"number", "insert", "run"}, tx'[t].pc \in {"insert", "run"},
           tx[t].op = "allocate" => tx[t].pc = "run" /\ tx'[t].pc = "run",
           tx'[t].op = tx[t].op, tx'[t].target = tx[t].target, tx'[t].new = tx[t].new,
           tx'[t].order = tx[t].order, tx'[t].row.alloc = tx[t].row.alloc,
           Unnumbered(t)' = Unnumbered(t), tx'[t].step <= 2 * Width(t)
    PROVE  CreateOK(t)' /\ ReverseOK(t)' /\ AllocateOK(t)'
<1>1. CreateOK(t) /\ ReverseOK(t) /\ AllocateOK(t)
  BY DEF TxInv
<1>2. pay' = pay /\ Width(t)' = Width(t)
  BY DEF stateVars, Width
<1>3. OrderOK(t) => OrderOK(t)'
  BY <1>2 DEF OrderOK, Targets
<1>4. CreateOK(t)'
  BY <1>1, <1>3 DEF CreateOK
<1>5. ReverseOK(t)'
  BY <1>1, <1>2, <1>3 DEF ReverseOK, Exists, IsReversal, IsReversed
<1>6. AllocateOK(t)'
  BY <1>1, <1>2, <1>3 DEF AllocateOK, Exists, IsReversal, IsReversed
<1> QED BY <1>4, <1>5, <1>6

\* What TxInv says of the record of one transaction.
LEMMA OneTransaction ==
    ASSUME TxInv, NEW t \in Tx
    PROVE  /\ tx \in [Tx -> Transactions] /\ tx[t] \in Transactions
           /\ pay \in [Payments -> Payment] /\ inv \in [Invoices -> Invoice]
           /\ Width(t) \in Nat /\ tx[t].step \in Nat
           /\ \A k \in 1..Width(t) : tx[t].order[k] \in Invoices
           /\ tx[t].op = "none" <=> tx[t].pc = "idle"
           /\ tx[t].pc # "run" => tx[t].step = 0
           /\ tx[t].new # None =>
                 ~Exists(tx[t].new) /\ \A u \in Tx \ {t} : tx[u].new # tx[t].new
<1>1. tx \in [Tx -> Transactions] /\ tx[t] \in Transactions
  BY DEF TxInv, TxTypeOK
<1>2. pay \in [Payments -> Payment] /\ inv \in [Invoices -> Invoice]
  BY DEF TxInv, TxTypeOK, TypeOK
<1>3. tx[t].order \in Seq(Invoices) /\ tx[t].step \in Nat
  BY <1>1 DEF Transactions
<1>4. Width(t) \in Nat /\ \A k \in 1..Width(t) : tx[t].order[k] \in Invoices
  BY <1>3 DEF Width
<1> QED
  BY <1>1, <1>2, <1>3, <1>4 DEF TxInv, NewOK

LEMMA LockForReverseStep ==
    ASSUME TxInv, NEW t \in Tx, LockForReverse(t)
    PROVE  TxInv'
<1> DEFINE p == tx[t].target
<1>1. CASE IsReversal(p) \/ IsReversed(p)
  BY <1>1, RollbackStep DEF LockForReverse
<1>2. CASE ~(IsReversal(p) \/ IsReversed(p))
  <2>0. tx[t].pc = "lock" /\ tx[t].op = "reverse" /\ ~Blocked(t) /\ UNCHANGED stateVars
    BY <1>2 DEF LockForReverse
  <2>1. p \in Payments /\ Exists(p) /\ tx[t].new # None
    <3>1. p \in Payments \union {None}
      BY OneTransaction DEF Transactions
    <3> QED BY <3>1, <2>0 DEF TxInv, ReverseOK
  <2>2. PICK order \in SetToSeqs(Targets(pay[p].alloc)) :
          tx' = [tx EXCEPT ![t].pc = "number", ![t].order = order,
                           ![t].row = ReversalOf(p, pay[p])]
    BY <1>2 DEF LockForReverse
  <2> DEFINE row == ReversalOf(p, pay[p])
             r   == [tx[t] EXCEPT !.pc = "number", !.order = order, !.row = row]
  <2>3. pay[p] \in Payment /\ row \in Payment /\ Targets(pay[p].alloc) \subseteq Invoices
    BY <2>1, OneTransaction, RowTypes DEF Targets
  <2>4. row.alloc = pay[p].alloc /\ [row EXCEPT !.number = 0] = row
    BY <2>3 DEF ReversalOf, Payment
  <2> HIDE DEF row
  <2>5. /\ order \in Seq(Invoices) /\ Len(order) \in Nat
        /\ \A k \in 1..Len(order) : order[k] \in Targets(row.alloc)
        /\ \A i \in Targets(row.alloc) : \E k \in 1..Len(order) : order[k] = i
        /\ \A k, l \in 1..Len(order) : order[k] = order[l] => k = l
    BY <2>3, <2>4, OrderEnumerates
  <2>6. r \in Transactions
    <3>1. tx[t] \in Transactions
      BY OneTransaction
    <3> QED BY <2>3, <2>5, <3>1 DEF Transactions
  <2>7. /\ r.op = "reverse" /\ r.pc = "number" /\ r.target = p /\ r.new = tx[t].new
        /\ r.row = row /\ r.order = order /\ r.step = 0
    BY <2>0, OneTransaction DEF Transactions
  <2>8. tx' = [tx EXCEPT ![t] = r] /\ tx'[t] = r
    BY <2>2, OneTransaction DEF row
  <2> HIDE DEF r
  <2>9. OrderOK(t)'
    <3>1. Width(t)' = Len(order) /\ tx'[t].order = order /\ tx'[t].row = row /\ tx'[t].step = 0
      BY <2>7, <2>8 DEF Width
    <3> QED
      BY <2>5, <3>1 DEF OrderOK, Targets
  <2>10. Unnumbered(t)' = ReversalOf(p, pay[p])
    <3>1. tx'[t].row = row
      BY <2>7, <2>8
    <3> QED
      BY <2>4, <3>1 DEF Unnumbered, row
  <2>11. CreateOK(t)' /\ ReverseOK(t)' /\ AllocateOK(t)'
    <3>1. pay' = pay
      BY <2>0 DEF stateVars
    <3>2. tx'[t].op = "reverse" /\ tx'[t].target = p /\ tx'[t].new # None
      BY <2>1, <2>7, <2>8
    <3>3. ReverseOK(t)'
      BY <1>2, <2>1, <2>9, <2>10, <3>1, <3>2, NoneAssumption
      DEF ReverseOK, Exists, IsReversal, IsReversed
    <3> QED
      BY <3>2, <3>3 DEF CreateOK, AllocateOK
  <2>12. \A s \in Payments : HoldsPayment(t, s)' => \A u \in Tx \ {t} : ~HoldsPayment(u, s)
    BY <2>0, <2>7, <2>8 DEF HoldsPayment, Blocked, WaitsFor
  <2>13. /\ ~HoldsNumber(t)'
         /\ \A j \in Invoices : ~LocksInvoice(t, j)' /\ ~SharesInvoice(t, j)'
    BY <2>7, <2>8 DEF HoldsNumber, LocksInvoice, SharesInvoice
  <2> QED
    BY <2>0, <2>6, <2>7, <2>8, <2>11, <2>12, <2>13, LocalStep, OneTransaction
<1> QED BY <1>1, <1>2

LEMMA ReadNumberStep ==
    ASSUME TxInv, NEW t \in Tx, ReadNumber(t)
    PROVE  TxInv'
<1>1. PICK n \in Numbers : tx' = [tx EXCEPT ![t].pc = "insert", ![t].row.number = n]
  BY DEF ReadNumber
<1> DEFINE row == [tx[t].row EXCEPT !.number = n]
           r   == [tx[t] EXCEPT !.pc = "insert", !.row = row]
<1>2. tx[t].pc = "number" /\ UNCHANGED stateVars
  BY DEF ReadNumber
<1>3. tx[t].row \in Payment /\ row \in Payment
  <2>1. tx[t].row \in Payment
    BY OneTransaction DEF Transactions
  <2> QED BY <2>1 DEF Payment
<1>4. row.alloc = tx[t].row.alloc /\ row.number = n
      /\ [row EXCEPT !.number = 0] = [tx[t].row EXCEPT !.number = 0]
  BY <1>3 DEF Payment
<1>5. r \in Transactions
  <2>1. tx[t] \in Transactions
    BY OneTransaction
  <2> QED BY <1>3, <2>1 DEF Transactions
<1>6. tx' = [tx EXCEPT ![t] = r] /\ tx'[t] = r
  BY <1>1, OneTransaction
<1> HIDE DEF row
<1>7. /\ r.pc = "insert" /\ r.row = row /\ r.op = tx[t].op /\ r.target = tx[t].target
      /\ r.new = tx[t].new /\ r.order = tx[t].order /\ r.step = 0
  BY <1>2, OneTransaction DEF Transactions
<1> HIDE DEF r
<1>8. CreateOK(t)' /\ ReverseOK(t)' /\ AllocateOK(t)'
  <2>1. Unnumbered(t)' = Unnumbered(t)
    <3>1. tx'[t].row = row
      BY <1>6, <1>7
    <3> QED BY <3>1, <1>4 DEF Unnumbered
  <2>2. tx[t].op # "allocate"
    BY <1>2 DEF TxInv, AllocateOK
  <2>3. tx'[t].step <= 2 * Width(t)
    BY <1>6, <1>7, OneTransaction
  <2>4. tx'[t].row.alloc = tx[t].row.alloc
    BY <1>4, <1>6, <1>7
  <2> QED
    BY <1>2, <1>6, <1>7, <2>1, <2>2, <2>3, <2>4, SameRequest
<1>9. \A p \in Payments : HoldsPayment(t, p)' => \A u \in Tx \ {t} : ~HoldsPayment(u, p)
  BY <1>2, <1>6, <1>7 DEF HoldsPayment, TxInv, PaymentsExclusive
<1>10. /\ ~HoldsNumber(t)'
       /\ \A j \in Invoices : ~LocksInvoice(t, j)' /\ ~SharesInvoice(t, j)'
  BY <1>6, <1>7 DEF HoldsNumber, LocksInvoice, SharesInvoice
<1>11. /\ r.op # "none" /\ r.pc = "insert" /\ r.step = 0 /\ r.row.number \in Numbers
       /\ r.new # None => ~Exists(r.new) /\ \A u \in Tx \ {t} : tx[u].new # r.new
  BY <1>2, <1>4, <1>7, OneTransaction
<1> QED
  BY <1>2, <1>5, <1>6, <1>8, <1>9, <1>10, <1>11, LocalStep

\* A transaction that starts to run its statements has locked no invoice yet.
LEMMA LockForAllocateStep ==
    ASSUME TxInv, NEW t \in Tx, LockForAllocate(t)
    PROVE  TxInv'
<1> DEFINE p       == tx[t].target
           Granted == /\ ~IsReversal(p) /\ ~IsReversed(p)
                      /\ tx[t].row.alloc[tx[t].order[1]] <= UnallocatedAmount(pay[p])
<1>1. CASE ~Granted
  BY <1>1, RollbackStep DEF LockForAllocate
<1>2. CASE Granted
  <2> DEFINE r == [tx[t] EXCEPT !.pc = "run"]
  <2>1. /\ tx[t].pc = "lock" /\ tx[t].op = "allocate" /\ ~Blocked(t) /\ UNCHANGED stateVars
        /\ tx' = [tx EXCEPT ![t].pc = "run"]
    BY <1>2 DEF LockForAllocate
  <2>2. r \in Transactions
    <3>1. tx[t] \in Transactions
      BY OneTransaction
    <3> QED BY <3>1 DEF Transactions
  <2>3. tx' = [tx EXCEPT ![t] = r] /\ tx'[t] = r
    BY <2>1, OneTransaction
  <2>4. /\ r.op = "allocate" /\ r.pc = "run" /\ r.target = p /\ r.new = None /\ r.step = 0
        /\ r.order = tx[t].order /\ r.row = tx[t].row
    BY ZenonT(60), <2>1, OneTransaction DEF Transactions, TxInv, AllocateOK
  <2> HIDE DEF r
  <2>5. OrderOK(t)'
    <3>1. OrderOK(t) /\ tx[t].step = 0
      BY <2>1, OneTransaction DEF TxInv, AllocateOK
    <3>2. tx'[t].order = tx[t].order /\ tx'[t].row = tx[t].row /\ tx'[t].step = tx[t].step
      BY <2>3, <2>4, <3>1
    <3> QED BY <3>1, <3>2 DEF OrderOK, Width, Targets
  <2>6. AllocateOK(t)'
    <3>1. PICK i \in Invoices, amount \in Amounts :
            /\ tx[t].order = <<i>>
            /\ tx[t].row.alloc = [NoAllocations EXCEPT ![i] = amount]
      BY <2>1 DEF TxInv, AllocateOK
    <3>2. <<i>>[1] = i /\ [NoAllocations EXCEPT ![i] = amount][i] = amount
      BY DEF NoAllocations
    <3>3. amount <= UnallocatedAmount(pay[p])
      BY <1>2, <3>1, <3>2
    <3>4. pay' = pay /\ p # None /\ Exists(p)
      BY <2>1 DEF stateVars, TxInv, AllocateOK
    <3>5. tx'[t] = r /\ UnallocatedAmount(pay[p])' = UnallocatedAmount(pay[p])
      BY <2>1, <2>3, <3>4 DEF UnallocatedAmount
    <3> QED
      BY <1>2, <2>3, <2>4, <2>5, <3>1, <3>3, <3>4, <3>5
      DEF AllocateOK, Exists, IsReversal, IsReversed
  <2>7. CreateOK(t)' /\ ReverseOK(t)'
    BY <2>3, <2>4 DEF CreateOK, ReverseOK
  <2>8. \A s \in Payments : HoldsPayment(t, s)' => \A u \in Tx \ {t} : ~HoldsPayment(u, s)
    BY <2>1, <2>3, <2>4 DEF HoldsPayment, Blocked, WaitsFor
  <2>9. ~HoldsNumber(t)' /\ \A j \in Invoices : ~LocksInvoice(t, j)' /\ ~SharesInvoice(t, j)'
    <3>1. Width(t)' = Width(t)
      BY <2>3, <2>4 DEF Width
    <3> QED
      BY <2>3, <2>4, <3>1, OneTransaction DEF HoldsNumber, LocksInvoice, SharesInvoice
  <2> QED
    BY <2>1, <2>2, <2>3, <2>4, <2>6, <2>7, <2>8, <2>9, LocalStep
<1> QED BY <1>1, <1>2

LEMMA InsertPaymentStep ==
    ASSUME TxInv, NEW t \in Tx, InsertPayment(t)
    PROVE  TxInv'
<1> DEFINE Refused == \/ tx[t].row.number \in UsedNumbers(tx[t].row.type)
                      \/ tx[t].op = "reverse" /\ IsReversed(tx[t].target)
<1>1. CASE Refused
  BY <1>1, RollbackStep DEF InsertPayment
<1>2. CASE ~Refused
  <2> DEFINE r == [tx[t] EXCEPT !.pc = "run"]
  <2>1. /\ tx[t].pc = "insert" /\ ~Blocked(t) /\ UNCHANGED stateVars
        /\ tx' = [tx EXCEPT ![t].pc = "run"]
    BY <1>2 DEF InsertPayment
  <2>2. r \in Transactions
    <3>1. tx[t] \in Transactions
      BY OneTransaction
    <3> QED BY <3>1 DEF Transactions
  <2>3. tx' = [tx EXCEPT ![t] = r] /\ tx'[t] = r
    BY <2>1, OneTransaction
  <2>4. /\ r.op = tx[t].op /\ r.pc = "run" /\ r.target = tx[t].target /\ r.new = tx[t].new
        /\ r.step = 0 /\ r.order = tx[t].order /\ r.row = tx[t].row
    BY <2>1, OneTransaction DEF Transactions
  <2> HIDE DEF r
  <2>5. CreateOK(t)' /\ ReverseOK(t)' /\ AllocateOK(t)'
    <3>1. tx[t].op # "allocate"
      BY <2>1 DEF TxInv, AllocateOK
    <3>2. Unnumbered(t)' = Unnumbered(t) /\ tx'[t].step <= 2 * Width(t)
      BY <2>3, <2>4, OneTransaction DEF Unnumbered
    <3> QED
      BY <2>1, <2>3, <2>4, <3>1, <3>2, SameRequest
  <2>6. \A s \in Payments : HoldsPayment(t, s)' => \A u \in Tx \ {t} : ~HoldsPayment(u, s)
    BY <2>1, <2>3, <2>4 DEF HoldsPayment, TxInv, PaymentsExclusive
  <2>7. \A j \in Invoices : ~LocksInvoice(t, j)' /\ ~SharesInvoice(t, j)'
    <3>1. Width(t)' = Width(t)
      BY <2>3, <2>4 DEF Width
    <3> QED
      BY <2>3, <2>4, <3>1, OneTransaction DEF LocksInvoice, SharesInvoice
  <2>8. r.row.number \in Numbers \ UsedNumbers(r.row.type)
    BY <1>2, <2>1, <2>4 DEF TxInv, NewOK
  <2>9. \A u \in Tx \ {t} :
           ~(HoldsNumber(u) /\ tx[u].row.type = r.row.type /\ tx[u].row.number = r.row.number)
    BY <2>1, <2>4 DEF Blocked, WaitsFor, WaitsForNumber
  <2>10. r.new # None => ~Exists(r.new) /\ \A u \in Tx \ {t} : tx[u].new # r.new
    BY <2>4, OneTransaction
  <2>11. r.op # "none"
    BY <2>1, <2>4, OneTransaction
  <2> QED
    BY <2>1, <2>2, <2>3, <2>4, <2>5, <2>6, <2>7, <2>8, <2>9, <2>10, <2>11, LocalStep
<1> QED BY <1>1, <1>2

\* In "run", everything but the invoices is settled: what remains to show of a
\* statement is the invoice rows it touches.
LEMMA RunStep ==
    ASSUME TxInv, UNCHANGED stateVars, NEW t \in Tx, NEW r \in Transactions,
           tx' = [tx EXCEPT ![t] = r],
           tx[t].pc = "run", r.pc = "run", r.op = tx[t].op, r.target = tx[t].target,
           r.new = tx[t].new, r.row = tx[t].row, r.order = tx[t].order,
           r.step <= 2 * Width(t),
           \A i \in Invoices :
              /\ LocksInvoice(t, i)' =>
                    /\ inv[i].status # "VOIDED"
                    /\ \A u \in Tx \ {t} : ~SharesInvoice(u, i)
                    /\ \E late \in BOOLEAN :
                          /\ late => i \in pastDue
                          /\ r.invoice[i] = calculatePaymentUpdate(inv[i], Total[i],
                                               Sign(t) * r.row.alloc[i], late)
              /\ SharesInvoice(t, i)' => \A u \in Tx \ {t} : ~LocksInvoice(u, i)
    PROVE  TxInv'
<1>1. tx'[t] = r
  BY OneTransaction
<1>2. CreateOK(t)' /\ ReverseOK(t)' /\ AllocateOK(t)'
  <2>1. Unnumbered(t)' = Unnumbered(t)
    BY <1>1 DEF Unnumbered
  <2> QED BY <1>1, <2>1, SameRequest
<1>3. \A s \in Payments : HoldsPayment(t, s)' => \A u \in Tx \ {t} : ~HoldsPayment(u, s)
  BY ZenonT(60), <1>1 DEF HoldsPayment, TxInv, PaymentsExclusive
<1>4. HoldsNumber(t)' =>
        /\ r.row.number \in Numbers \ UsedNumbers(r.row.type)
        /\ \A u \in Tx \ {t} :
              ~(HoldsNumber(u) /\ tx[u].row.type = r.row.type /\ tx[u].row.number = r.row.number)
  BY <1>1 DEF HoldsNumber, TxInv, NewOK
<1>5. /\ r.op # "none"
      /\ r.new # None => ~Exists(r.new) /\ \A u \in Tx \ {t} : tx[u].new # r.new
  BY OneTransaction
<1>6. Sign(t)' = Sign(t)
  BY <1>1 DEF Sign
<1> QED
  BY <1>2, <1>3, <1>4, <1>5, <1>6, LocalStep

\* The invoice of the next statement is one of the order.
LEMMA NextInvoiceType ==
    ASSUME TxInv, NEW t \in Tx, Inserting(t) \/ Recording(t)
    PROVE  /\ NextInvoice(t) \in Invoices
           /\ Inserting(t) => NextInvoice(t) = tx[t].order[tx[t].step + 1]
           /\ Recording(t) => NextInvoice(t) = tx[t].order[tx[t].step + 1 - Width(t)]
<1>1. Width(t) \in Nat /\ tx[t].step \in Nat /\ \A k \in 1..Width(t) : tx[t].order[k] \in Invoices
  BY OneTransaction
<1>2. CASE Inserting(t)
  BY <1>1, <1>2 DEF NextInvoice, Inserting, Recording
<1>3. CASE Recording(t)
  BY <1>1, <1>3 DEF NextInvoice, Inserting, Recording
<1> QED BY <1>2, <1>3

LEMMA InsertAllocationStep ==
    ASSUME TxInv, NEW t \in Tx, InsertAllocation(t)
    PROVE  TxInv'
<1> DEFINE r == [tx[t] EXCEPT !.step = @ + 1]
<1>1. /\ Inserting(t) /\ ~Blocked(t) /\ UNCHANGED stateVars
      /\ tx' = [tx EXCEPT ![t] = r] /\ tx'[t] = r
  BY OneTransaction DEF InsertAllocation
<1>2. tx[t] \in Transactions /\ Width(t) \in Nat /\ tx[t].step \in Nat
  BY OneTransaction
<1>3. r \in Transactions
  BY <1>2 DEF Transactions
<1>4. /\ r.op = tx[t].op /\ r.pc = "run" /\ r.target = tx[t].target /\ r.new = tx[t].new
      /\ r.order = tx[t].order /\ r.row = tx[t].row /\ r.step = tx[t].step + 1
      /\ tx[t].pc = "run"
  BY <1>1, <1>2 DEF Transactions, Inserting
<1> HIDE DEF r
<1>5. Width(t)' = Width(t) /\ tx[t].step < Width(t)
  BY <1>1, <1>4 DEF Width, Inserting
<1>6. \A i \in Invoices : ~LocksInvoice(t, i)'
  BY <1>1, <1>2, <1>4, <1>5 DEF LocksInvoice
<1>7. ASSUME NEW i \in Invoices, SharesInvoice(t, i)', NEW u \in Tx \ {t}
      PROVE  ~LocksInvoice(u, i)
  <2>1. SharesInvoice(t, i) \/ i = NextInvoice(t)
    <3>1. PICK k \in 1..Width(t) : tx[t].order[k] = i /\ k <= tx[t].step + 1
      BY <1>1, <1>4, <1>5, <1>7 DEF SharesInvoice
    <3>2. CASE k <= tx[t].step
      BY <3>1, <3>2, <1>4 DEF SharesInvoice
    <3>3. CASE k = tx[t].step + 1
      BY <3>1, <3>3, <1>1, NextInvoiceType
    <3> QED BY <3>1, <3>2, <3>3, <1>2
  <2> QED
    BY <2>1, <1>1 DEF TxInv, InvoicesExclusive, Blocked, WaitsFor, WaitsForInvoice
<1>8. r.step <= 2 * Width(t)
  BY <1>2, <1>4, <1>5
<1> QED
  BY <1>1, <1>3, <1>4, <1>6, <1>7, <1>8, RunStep

LEMMA RecordPaymentStep ==
    ASSUME TxInv, NEW t \in Tx, RecordPayment(t)
    PROVE  TxInv'
<1> DEFINE i == NextInvoice(t)
           computed == calculatePaymentUpdate(inv[i], Total[i],
                                              Sign(t) * tx[t].row.alloc[i], i \in pastDue)
           rows == [tx[t].invoice EXCEPT ![i] = computed]
           r == [tx[t] EXCEPT !.step = tx[t].step + 1, !.invoice = rows]
<1>1. CASE inv[i].status = "VOIDED"
  BY <1>1, RollbackStep DEF RecordPayment
<1>2. CASE inv[i].status # "VOIDED"
  <2>1. /\ Recording(t) /\ ~Blocked(t) /\ UNCHANGED stateVars
        /\ tx' = [tx EXCEPT ![t].step = @ + 1, ![t].invoice[i] = computed]
    BY <1>2 DEF RecordPayment
  <2>2. tx[t] \in Transactions /\ Width(t) \in Nat /\ tx[t].step \in Nat /\ i \in Invoices
    BY <2>1, OneTransaction, NextInvoiceType
  <2>3. tx' = [tx EXCEPT ![t] = r] /\ tx'[t] = r
    BY <2>1, <2>2, OneTransaction
  <2>4. computed \in Invoice
    <3>1. inv[i] \in Invoice /\ Total[i] \in Nat /\ (i \in pastDue) \in BOOLEAN
      BY <2>2, OneTransaction, TotalAssumption
    <3>2. tx[t].row.alloc[i] \in Nat
      BY <2>2 DEF Transactions, Payment
    <3>3. Sign(t) * tx[t].row.alloc[i] \in Int
      BY <3>2 DEF Sign
    <3> QED BY <3>1, <3>3, UpdateType
  <2> HIDE DEF computed, i
  <2>5. r \in Transactions
    <3>1. rows \in [Invoices -> Invoice]
      BY <2>2, <2>4 DEF Transactions
    <3>2. tx[t].step + 1 \in Nat
      BY <2>2
    <3> HIDE DEF rows
    <3>3. [tx[t] EXCEPT !.step = tx[t].step + 1] \in Transactions
      BY <2>2, <3>2 DEF Transactions
    <3>4. [[tx[t] EXCEPT !.step = tx[t].step + 1] EXCEPT !.invoice = rows] \in Transactions
      BY <3>1, <3>3 DEF Transactions
    <3>5. r = [[tx[t] EXCEPT !.step = tx[t].step + 1] EXCEPT !.invoice = rows]
      BY <2>2 DEF Transactions
    <3> QED BY <3>4, <3>5
  <2>6. /\ r.op = tx[t].op /\ r.pc = "run" /\ r.target = tx[t].target /\ r.new = tx[t].new
        /\ r.order = tx[t].order /\ r.row = tx[t].row /\ r.step = tx[t].step + 1
        /\ r.invoice = [tx[t].invoice EXCEPT ![i] = computed] /\ tx[t].pc = "run"
    BY <2>1, <2>2 DEF Transactions, Recording
  <2>7. r.invoice[i] = computed /\ \A j \in Invoices \ {i} : r.invoice[j] = tx[t].invoice[j]
    BY <2>2, <2>6 DEF Transactions
  <2> HIDE DEF r
  <2>8. Width(t)' = Width(t) /\ tx[t].step >= Width(t) /\ tx[t].step < 2 * Width(t)
    BY <2>1, <2>3, <2>6 DEF Width, Recording
  <2>9. ASSUME NEW j \in Invoices, LocksInvoice(t, j)', j # i
        PROVE  LocksInvoice(t, j)
    <3>1. PICK k \in 1..Width(t) : tx[t].order[k] = j /\ k + Width(t) <= tx[t].step + 1
      BY <2>3, <2>6, <2>8, <2>9 DEF LocksInvoice
    <3>2. k + Width(t) # tx[t].step + 1
      <4>1. i = tx[t].order[tx[t].step + 1 - Width(t)]
        BY <2>1, NextInvoiceType DEF i
      <4> QED BY <3>1, <4>1, <2>2, <2>9
    <3> QED BY <3>1, <3>2, <2>2, <2>6 DEF LocksInvoice
  <2>10. ASSUME NEW j \in Invoices, SharesInvoice(t, j)'
         PROVE  SharesInvoice(t, j)
    <3>1. PICK k \in 1..Width(t) : tx[t].order[k] = j
      BY <2>3, <2>6, <2>8, <2>10 DEF SharesInvoice
    <3> QED BY <3>1, <2>2, <2>6, <2>8 DEF SharesInvoice
  <2>11. ASSUME NEW j \in Invoices, LocksInvoice(t, j)'
         PROVE  /\ inv[j].status # "VOIDED"
                /\ \A u \in Tx \ {t} : ~SharesInvoice(u, j)
                /\ \E late \in BOOLEAN :
                      /\ late => j \in pastDue
                      /\ r.invoice[j] = calculatePaymentUpdate(inv[j], Total[j],
                                           Sign(t) * r.row.alloc[j], late)
    <3>1. CASE j = i
      <4>1. \A u \in Tx \ {t} : ~SharesInvoice(u, i)
        BY <2>1 DEF Blocked, WaitsFor, WaitsForInvoice, i
      <4>2. r.invoice[i] = calculatePaymentUpdate(inv[i], Total[i],
                                Sign(t) * r.row.alloc[i], i \in pastDue)
        BY <2>6, <2>7 DEF computed
      <4>3. \E late \in BOOLEAN :
               /\ late => i \in pastDue
               /\ r.invoice[i] = calculatePaymentUpdate(inv[i], Total[i],
                                    Sign(t) * r.row.alloc[i], late)
        <5>1. (i \in pastDue) \in BOOLEAN
          OBVIOUS
        <5> QED BY <5>1, <4>2, Zenon
      <4> QED BY <3>1, <4>1, <4>3, <1>2 DEF i
    <3>2. CASE j # i
      BY <3>2, <2>6, <2>7, <2>9, <2>11 DEF TxInv, UpdatesNotStale, InvoicesExclusive
    <3> QED BY <3>1, <3>2
  <2>12. \A j \in Invoices : SharesInvoice(t, j)' => \A u \in Tx \ {t} : ~LocksInvoice(u, j)
    BY <2>10 DEF TxInv, InvoicesExclusive
  <2>13. r.step <= 2 * Width(t)
    BY <2>2, <2>6, <2>8
  <2> QED
    BY ZenonT(60), <2>1, <2>3, <2>5, <2>6, <2>11, <2>12, <2>13, RunStep
<1> QED BY <1>1, <1>2

-----------------------------------------------------------------------------
(* Commit *)

\* A transaction that can commit, by what it does.
LEMMA Committing ==
    ASSUME TxInv, NEW t \in Tx, Finished(t)
    PROVE  /\ tx[t].pc = "run" /\ tx[t].row \in Payment /\ tx[t].op # "none"
           /\ tx[t].op # "create" => tx[t].target \in Payments /\ Exists(tx[t].target)
           /\ tx[t].op # "allocate" =>
                 /\ tx[t].new \in Payments /\ ~Exists(tx[t].new)
                 /\ tx[t].row.number # 0
           /\ tx[t].op = "create" => tx[t].target = None
           /\ tx[t].op = "allocate" => tx[t].new = None
           /\ OrderOK(t) /\ CreateOK(t) /\ ReverseOK(t) /\ AllocateOK(t)
<1>1. tx[t].pc = "run" /\ tx[t] \in Transactions /\ tx[t].op # "none"
  BY OneTransaction DEF Finished
<1>2. /\ tx[t].row \in Payment
      /\ tx[t].target \in Payments \union {None} /\ tx[t].new \in Payments \union {None}
      /\ tx[t].op \in {"create", "reverse", "allocate"}
  BY <1>1 DEF Transactions
<1>3. CreateOK(t) /\ ReverseOK(t) /\ AllocateOK(t)
  BY DEF TxInv
<1>7. tx[t].new # None => tx[t].row.number # 0
  BY <1>1, NumbersAssumption DEF TxInv, NewOK, HoldsNumber
<1>4. CASE tx[t].op = "create"
  BY <1>1, <1>2, <1>3, <1>4, <1>7, OneTransaction DEF CreateOK
<1>5. CASE tx[t].op = "reverse"
  BY <1>1, <1>2, <1>3, <1>5, <1>7, OneTransaction DEF ReverseOK
<1>6. CASE tx[t].op = "allocate"
  BY <1>1, <1>2, <1>3, <1>6 DEF AllocateOK
<1> QED BY <1>2, <1>4, <1>5, <1>6

\* The payments after a commit: one more, and at most the target changed.
LEMMA CommittedPayments ==
    ASSUME TxInv, NEW t \in Tx, Commit(t)
    PROVE  /\ pay' \in [Payments -> Payment]
           /\ \A p \in Payments : Exists(p)' <=> Exists(p) \/ p = tx[t].new
           /\ \A p \in Payments : p # tx[t].target /\ p # tx[t].new => pay'[p] = pay[p]
           /\ \A p \in Payments : p # tx[t].new =>
                 pay'[p].type = pay[p].type /\ pay'[p].number = pay[p].number
           /\ tx[t].new # None => pay'[tx[t].new] = tx[t].row
<1>1. /\ tx[t].pc = "run" /\ tx[t].row \in Payment /\ tx[t].op # "none"
      /\ tx[t].op # "create" => tx[t].target \in Payments /\ Exists(tx[t].target)
      /\ tx[t].op # "allocate" =>
            tx[t].new \in Payments /\ ~Exists(tx[t].new) /\ tx[t].row.number # 0
      /\ tx[t].op = "create" => tx[t].target = None
      /\ tx[t].op = "allocate" => tx[t].new = None
  BY Committing DEF Commit
<1>2. pay \in [Payments -> Payment] /\ pay' = WrittenPayments(t)
  BY OneTransaction DEF Commit
<1>3. tx[t].op \in {"create", "reverse", "allocate"}
  BY <1>1, OneTransaction DEF Transactions
<1>4. CASE tx[t].op = "create"
  <2>1. pay' = [pay EXCEPT ![tx[t].new] = tx[t].row]
    BY <1>2, <1>4 DEF WrittenPayments
  <2> QED
    BY <1>1, <1>2, <1>4, <2>1, NoneAssumption DEF Exists
<1>5. CASE tx[t].op = "reverse"
  <2> DEFINE p == tx[t].target
             marked == [pay[p] EXCEPT !.reversedBy = tx[t].new]
  <2>1. p \in Payments /\ tx[t].new \in Payments /\ p # tx[t].new
    BY <1>1, <1>5
  <2>2. pay' = [pay EXCEPT ![p].reversedBy = tx[t].new, ![tx[t].new] = tx[t].row]
    BY <1>2, <1>5 DEF WrittenPayments
  <2>3. /\ pay'[tx[t].new] = tx[t].row /\ pay'[p] = marked
        /\ \A q \in Payments : q # p /\ q # tx[t].new => pay'[q] = pay[q]
    BY <1>2, <2>1, <2>2
  <2>4. /\ marked \in Payment /\ marked.type = pay[p].type /\ marked.number = pay[p].number
        /\ marked.amount = pay[p].amount
    BY <1>2, <2>1 DEF Payment
  <2>5. DOMAIN pay' = Payments /\ pay' = [q \in Payments |-> pay'[q]]
    BY <1>2, <2>2
  <2> HIDE DEF marked
  <2> QED
    BY <1>1, <1>2, <1>5, <2>1, <2>3, <2>4, <2>5, NoneAssumption DEF Exists
<1>6. CASE tx[t].op = "allocate"
  <2> DEFINE p == tx[t].target
             i == tx[t].order[1]
             alloc == [pay[p].alloc EXCEPT ![i] = @ + tx[t].row.alloc[i]]
             raised == [pay[p] EXCEPT !.alloc = alloc]
  <2>1. p \in Payments /\ tx[t].new = None
    BY <1>1, <1>6
  <2>2. pay' = [pay EXCEPT ![p].alloc[i] = @ + tx[t].row.alloc[i]]
    BY <1>2, <1>6 DEF WrittenPayments
  <2>3. pay'[p] = raised /\ \A q \in Payments : q # p => pay'[q] = pay[q]
    BY <1>2, <2>1, <2>2
  <2>4. i \in Invoices
    <3>1. PICK j \in Invoices : tx[t].order = <<j>>
      BY <1>6 DEF TxInv, AllocateOK
    <3> QED BY <3>1
  <2>5. alloc \in [Invoices -> Nat]
    BY <1>1, <1>2, <2>1, <2>4 DEF Payment
  <2> HIDE DEF alloc
  <2>6. /\ raised \in Payment /\ raised.type = pay[p].type /\ raised.number = pay[p].number
        /\ raised.amount = pay[p].amount
    BY <1>2, <2>1, <2>5 DEF Payment
  <2>7. DOMAIN pay' = Payments /\ pay' = [q \in Payments |-> pay'[q]]
    BY <1>2, <2>2
  <2> HIDE DEF raised
  <2> QED
    BY <1>1, <1>2, <2>1, <2>3, <2>6, <2>7, NoneAssumption DEF Exists
<1> QED BY <1>3, <1>4, <1>5, <1>6

\* A transaction that has an invoice FOR UPDATE also shares it.
LEMMA LocksShare ==
    ASSUME TxInv, NEW t \in Tx, NEW i \in Invoices, LocksInvoice(t, i)
    PROVE  SharesInvoice(t, i)
BY OneTransaction DEF LocksInvoice, SharesInvoice

LEMMA CommitStep ==
    ASSUME TxInv, NEW t \in Tx, Commit(t)
    PROVE  TxInv'
<1>1. /\ tx' = [tx EXCEPT ![t] = Idle] /\ tx'[t] = Idle
      /\ \A u \in Tx \ {t} : tx'[u] = tx[u]
      /\ Finished(t) /\ inv' = WrittenInvoices(t) /\ pastDue' = pastDue /\ sending' = sending
  BY OneTransaction DEF Commit
<1>2. /\ tx[t].pc = "run" /\ tx[t].op # "none"
      /\ tx[t].op # "create" => tx[t].target \in Payments /\ Exists(tx[t].target)
      /\ tx[t].op = "create" => tx[t].target = None
      /\ tx[t].op # "allocate" => tx[t].new \in Payments
      /\ tx[t].op = "allocate" => tx[t].new = None
  BY <1>1, Committing
<1>3. /\ pay' \in [Payments -> Payment]
      /\ \A p \in Payments : Exists(p)' <=> Exists(p) \/ p = tx[t].new
      /\ \A p \in Payments : p # tx[t].target /\ p # tx[t].new => pay'[p] = pay[p]
      /\ \A p \in Payments : p # tx[t].new =>
            pay'[p].type = pay[p].type /\ pay'[p].number = pay[p].number
      /\ tx[t].new # None => pay'[tx[t].new] = tx[t].row
  BY CommittedPayments
<1>4. TxTypeOK'
  <2>1. inv' \in [Invoices -> Invoice]
    <3>1. tx[t].invoice \in [Invoices -> Invoice] /\ inv \in [Invoices -> Invoice]
      BY OneTransaction DEF Transactions
    <3> QED BY <1>1, <3>1 DEF WrittenInvoices
  <2>2. tx' \in [Tx -> Transactions]
    BY <1>1, IdleType, OneTransaction
  <2> QED
    BY <1>1, <1>3, <2>1, <2>2 DEF TxTypeOK, TypeOK, TxInv
<1>5. \A u \in Tx :
         /\ \A p \in Payments : HoldsPayment(u, p)' <=> u # t /\ HoldsPayment(u, p)
         /\ HoldsNumber(u)' <=> u # t /\ HoldsNumber(u)
         /\ \A i \in Invoices : LocksInvoice(u, i)' <=> u # t /\ LocksInvoice(u, i)
         /\ \A i \in Invoices : SharesInvoice(u, i)' <=> u # t /\ SharesInvoice(u, i)
  <2> SUFFICES ASSUME NEW u \in Tx
               PROVE  /\ \A p \in Payments : HoldsPayment(u, p)' <=> u # t /\ HoldsPayment(u, p)
                      /\ HoldsNumber(u)' <=> u # t /\ HoldsNumber(u)
                      /\ \A i \in Invoices : LocksInvoice(u, i)' <=> u # t /\ LocksInvoice(u, i)
                      /\ \A i \in Invoices : SharesInvoice(u, i)' <=> u # t /\ SharesInvoice(u, i)
    OBVIOUS
  <2>1. CASE u = t
    BY <2>1, <1>1 DEF Idle, HoldsPayment, HoldsNumber, LocksInvoice, SharesInvoice
  <2>2. CASE u # t
    <3>1. tx'[u] = tx[u] /\ Width(u)' = Width(u)
      BY <2>2, <1>1 DEF Width
    <3> QED
      BY <2>2, <3>1 DEF HoldsPayment, HoldsNumber, LocksInvoice, SharesInvoice
  <2> QED BY <2>1, <2>2
<1>6. PaymentsExclusive' /\ InvoicesExclusive'
  BY <1>5 DEF PaymentsExclusive, InvoicesExclusive, TxInv
<1>7. UpdatesNotStale'
  <2> SUFFICES ASSUME NEW u \in Tx, NEW i \in Invoices, LocksInvoice(u, i)'
               PROVE  (/\ inv[i].status # "VOIDED"
                       /\ \E late \in BOOLEAN :
                            /\ late => i \in pastDue
                            /\ tx[u].invoice[i] = calculatePaymentUpdate(inv[i], Total[i],
                                                     Sign(u) * tx[u].row.alloc[i], late))'
    BY DEF UpdatesNotStale
  <2>1. u # t /\ LocksInvoice(u, i) /\ tx'[u] = tx[u] /\ Sign(u)' = Sign(u)
    BY <1>1, <1>5 DEF Sign
  <2>2. ~LocksInvoice(t, i)
    BY <2>1, LocksShare DEF TxInv, InvoicesExclusive
  <2>3. inv'[i] = inv[i]
    BY <1>1, <2>2 DEF WrittenInvoices
  <2> QED
    BY <1>1, <2>1, <2>3
    DEF TxInv, UpdatesNotStale, calculatePaymentUpdate, unpaidInvoiceStatusAt
<1>8. ASSUME NEW u \in Tx \ {t}, NEW p \in Payments, HoldsPayment(u, p), Exists(p)
      PROVE  pay'[p] = pay[p]
  <2>1. p # tx[t].target
    BY <1>2, <1>8 DEF HoldsPayment, TxInv, PaymentsExclusive
  <2>2. p # tx[t].new
    BY <1>2, <1>8, OneTransaction, NoneAssumption
  <2> QED BY <1>3, <2>1, <2>2
<1>9. ASSUME NEW u \in Tx
      PROVE  CreateOK(u)' /\ ReverseOK(u)' /\ AllocateOK(u)'
  <2>1. CASE u = t
    BY <2>1, <1>1 DEF Idle, CreateOK, ReverseOK, AllocateOK
  <2>2. CASE u # t
    <3>1. tx'[u] = tx[u] /\ CreateOK(u) /\ ReverseOK(u) /\ AllocateOK(u)
      BY <2>2, <1>1 DEF TxInv
    <3>2. (OrderOK(u)' <=> OrderOK(u)) /\ Unnumbered(u)' = Unnumbered(u)
      BY <3>1 DEF OrderOK, Width, Targets, Unnumbered
    <3>3. tx[u].target \in Payments \union {None}
      BY OneTransaction DEF Transactions
    <3>4. tx[u].target # None /\ Exists(tx[u].target) => Exists(tx[u].target)'
      BY <1>3, <3>1, <3>3 DEF Exists
    <3>5. tx[u].target # None /\ Exists(tx[u].target) /\ tx[u].pc \in {"number", "insert", "run"}
             => pay'[tx[u].target] = pay[tx[u].target]
      BY <2>2, <3>3, <1>8 DEF HoldsPayment
    <3>6. CreateOK(u)'
      BY <3>1, <3>2 DEF CreateOK
    <3>7. ReverseOK(u)'
      BY <3>1, <3>2, <3>4, <3>5 DEF ReverseOK, IsReversal, IsReversed, Exists
    <3>8. AllocateOK(u)'
      BY <3>1, <3>2, <3>4, <3>5 DEF AllocateOK, IsReversal, IsReversed, Exists
    <3> QED BY <3>6, <3>7, <3>8
  <2> QED BY <2>1, <2>2
<1>10. NewOK'
  <2> SUFFICES ASSUME NEW u \in Tx
               PROVE  (/\ tx[u].op = "none" <=> tx[u].pc = "idle"
                       /\ tx[u].op = "none" => tx[u].new = None
                       /\ tx[u].pc # "run" => tx[u].step = 0
                       /\ tx[u].pc = "insert" => tx[u].row.number \in Numbers
                       /\ tx[u].new # None =>
                             ~Exists(tx[u].new) /\ \A v \in Tx : tx[v].new = tx[u].new => u = v
                       /\ HoldsNumber(u) =>
                             /\ tx[u].row.number \in Numbers \ UsedNumbers(tx[u].row.type)
                             /\ \A v \in Tx :
                                   HoldsNumber(v) /\ tx[v].row.type = tx[u].row.type
                                      /\ tx[v].row.number = tx[u].row.number => u = v)'
    BY DEF NewOK
  <2>1. CASE u = t
    BY <2>1, <1>1, <1>5 DEF Idle
  <2>2. CASE u # t
    <3>1. /\ tx[u].op = "none" <=> tx[u].pc = "idle"
          /\ tx[u].op = "none" => tx[u].new = None
          /\ tx[u].pc # "run" => tx[u].step = 0
          /\ tx[u].pc = "insert" => tx[u].row.number \in Numbers
          /\ tx[u].new # None =>
                ~Exists(tx[u].new) /\ \A v \in Tx : tx[v].new = tx[u].new => u = v
          /\ HoldsNumber(u) =>
                /\ tx[u].row.number \in Numbers \ UsedNumbers(tx[u].row.type)
                /\ \A v \in Tx : HoldsNumber(v) /\ tx[v].row.type = tx[u].row.type
                                   /\ tx[v].row.number = tx[u].row.number => u = v
      BY DEF TxInv, NewOK
    <3>2. tx'[u] = tx[u] /\ \A v \in Tx \ {t} : tx'[v] = tx[v]
      BY <2>2, <1>1
    <3>3. tx[u].new # None => tx[u].new \in Payments /\ tx[u].new # tx[t].new
      BY <2>2, <3>1, OneTransaction DEF Transactions
    <3>4. tx[u].new # None =>
             ~Exists(tx[u].new)' /\ \A v \in Tx : tx'[v].new = tx'[u].new => u = v
      <4>1. tx'[t].new = None
        BY <1>1 DEF Idle
      <4> QED BY <1>3, <3>1, <3>2, <3>3, <4>1
    <3>5. HoldsNumber(u) => tx[u].row.number \notin UsedNumbers(tx[u].row.type)'
      <4> SUFFICES ASSUME HoldsNumber(u), tx[u].row.number \in UsedNumbers(tx[u].row.type)'
                   PROVE  FALSE
        OBVIOUS
      <4>1. PICK p \in Payments :
              Exists(p)' /\ pay'[p].type = tx[u].row.type /\ pay'[p].number = tx[u].row.number
        BY <3>2 DEF UsedNumbers
      <4>2. CASE p = tx[t].new
        <5>1. p # None /\ pay'[p] = tx[t].row
          BY <4>2, <1>3, NoneAssumption
        <5>2. HoldsNumber(t)
          BY <4>2, <5>1, <1>2 DEF HoldsNumber
        <5> QED BY <2>2, <3>1, <4>1, <5>1, <5>2
      <4>3. CASE p # tx[t].new
        BY <4>1, <4>3, <1>3, <3>1 DEF UsedNumbers
      <4> QED BY <4>2, <4>3
    <3>6. HoldsNumber(u)' =>
             /\ tx'[u].row.number \in Numbers \ UsedNumbers(tx[u].row.type)'
             /\ \A v \in Tx : HoldsNumber(v)' /\ tx'[v].row.type = tx'[u].row.type
                                /\ tx'[v].row.number = tx'[u].row.number => u = v
      BY <1>5, <3>1, <3>2, <3>5
    <3> QED BY <3>1, <3>2, <3>4, <3>6
  <2> QED BY <2>1, <2>2
<1> QED BY <1>4, <1>6, <1>7, <1>9, <1>10 DEF TxInv

-----------------------------------------------------------------------------
(* Single statements, and the clock *)

\* A statement outside the transactions changes only invoices nobody has
\* locked, and due dates only pass.
LEMMA OutsideStep ==
    ASSUME TxInv, UNCHANGED <<pay, tx>>,
           inv' \in [Invoices -> Invoice], sending' \in [Senders -> Invoices \union {None}],
           pastDue \subseteq pastDue', pastDue' \subseteq Invoices,
           \A t \in Tx, i \in Invoices : LocksInvoice(t, i) => inv'[i] = inv[i]
    PROVE  TxInv'
<1>1. TxTypeOK'
  BY DEF TxInv, TxTypeOK, TypeOK
<1>2. PaymentsExclusive' /\ InvoicesExclusive'
  BY DEF TxInv, PaymentsExclusive, InvoicesExclusive, HoldsPayment, LocksInvoice,
         SharesInvoice, Width
<1>3. UpdatesNotStale'
  <2> SUFFICES ASSUME NEW u \in Tx, NEW i \in Invoices, LocksInvoice(u, i)'
               PROVE  (/\ inv[i].status # "VOIDED"
                       /\ \E late \in BOOLEAN :
                            /\ late => i \in pastDue
                            /\ tx[u].invoice[i] = calculatePaymentUpdate(inv[i], Total[i],
                                                     Sign(u) * tx[u].row.alloc[i], late))'
    BY DEF UpdatesNotStale
  <2>1. LocksInvoice(u, i) /\ Sign(u)' = Sign(u)
    BY DEF LocksInvoice, Width, Sign
  <2> QED
    BY <2>1 DEF TxInv, UpdatesNotStale, calculatePaymentUpdate, unpaidInvoiceStatusAt
<1>4. NewOK'
  BY DEF TxInv, NewOK, HoldsNumber, UsedNumbers, Exists
<1>5. \A t \in Tx : CreateOK(t)' /\ ReverseOK(t)' /\ AllocateOK(t)'
  <2> SUFFICES ASSUME NEW t \in Tx PROVE CreateOK(t)' /\ ReverseOK(t)' /\ AllocateOK(t)'
    OBVIOUS
  <2>1. CreateOK(t) /\ ReverseOK(t) /\ AllocateOK(t)
    BY DEF TxInv
  <2>2. CreateOK(t)'
    BY <2>1 DEF CreateOK, OrderOK, Unnumbered, Width, Targets, Exists
  <2>3. ReverseOK(t)'
    BY <2>1 DEF ReverseOK, OrderOK, Unnumbered, Width, Targets, Exists, IsReversal, IsReversed
  <2>4. AllocateOK(t)'
    <3>1. OrderOK(t) => OrderOK(t)'
      BY DEF OrderOK, Width, Targets
    <3>2. pay'[tx[t].target] = pay[tx[t].target] /\ tx'[t] = tx[t]
      OBVIOUS
    <3> QED
      BY <2>1, <3>1, <3>2 DEF AllocateOK, Exists, IsReversal, IsReversed
  <2> QED
    BY <2>2, <2>3, <2>4
<1> QED BY <1>1, <1>2, <1>3, <1>4, <1>5 DEF TxInv

\* Writing another status gives an invoice row.
LEMMA StatusType ==
    ASSUME NEW row \in Invoice, NEW status \in InvoiceStatuses
    PROVE  [row EXCEPT !.status = status] \in Invoice
BY DEF Invoice

LEMMA SingleStatements ==
    ASSUME TxInv, \/ \E s \in Senders : SendWrite(s)
                  \/ \E i \in Invoices : VoidInvoice(i)
                  \/ UpdateOverdueStatus
                  \/ OtherStep
    PROVE  TxInv'
<1>1. TypeOK
  BY DEF TxInv, TxTypeOK
<1>2. ASSUME NEW s \in Senders, SendWrite(s) PROVE TxInv'
  <2>1. sending[s] \in Invoices /\ inv[sending[s]] \in Invoice
    BY <1>1, <1>2 DEF SendWrite, R!SendWrite, TypeOK
  <2>2. /\ inv' = [inv EXCEPT ![sending[s]].status = "SENT"] /\ Unlocked(sending[s])
        /\ sending' = [sending EXCEPT ![s] = None] /\ UNCHANGED <<pay, tx, pastDue>>
    BY <1>2 DEF SendWrite, R!SendWrite
  <2>3. inv' \in [Invoices -> Invoice]
    BY <1>1, <2>1, <2>2, StatusType DEF TypeOK, InvoiceStatuses
  <2> QED BY <1>1, <2>1, <2>2, <2>3, OutsideStep DEF TypeOK, Unlocked
<1>3. ASSUME NEW i \in Invoices, VoidInvoice(i) PROVE TxInv'
  <2>1. /\ inv' = [inv EXCEPT ![i].status = "VOIDED"] /\ Unlocked(i)
        /\ UNCHANGED <<pay, tx, pastDue, sending>>
    BY <1>3 DEF VoidInvoice, R!VoidInvoice
  <2>2. inv' \in [Invoices -> Invoice]
    BY <1>1, <2>1, StatusType DEF TypeOK, InvoiceStatuses
  <2> QED BY <1>1, <2>1, <2>2, OutsideStep DEF TypeOK, Unlocked
<1>4. CASE UpdateOverdueStatus
  <2>1. /\ inv' = [i \in Invoices |->
                      IF i \in R!Overdue THEN [inv[i] EXCEPT !.status = "OVERDUE"] ELSE inv[i]]
        /\ \A i \in R!Overdue : Unlocked(i)
        /\ UNCHANGED <<pay, tx, pastDue, sending>>
    BY <1>4 DEF UpdateOverdueStatus, R!UpdateOverdueStatus
  <2>2. inv' \in [Invoices -> Invoice]
    BY <1>1, <2>1, StatusType DEF TypeOK, InvoiceStatuses
  <2> QED BY <1>1, <2>1, <2>2, OutsideStep DEF TypeOK, Unlocked
<1>5. CASE OtherStep
  <2>1. UNCHANGED <<pay, tx, inv>>
    BY <1>5 DEF OtherStep, R!SendCrash, R!SendRead, R!DueDatePasses
  <2>2. /\ sending' \in [Senders -> Invoices \union {None}]
        /\ pastDue \subseteq pastDue' /\ pastDue' \subseteq Invoices
    BY <1>1, <1>5 DEF OtherStep, R!SendCrash, R!SendRead, R!DueDatePasses, TypeOK
  <2> QED BY <1>1, <2>1, <2>2, OutsideStep DEF TypeOK
<1> QED BY <1>2, <1>3, <1>4, <1>5

-----------------------------------------------------------------------------
(* The invariant *)

LEMMA InitTxInv == Init => TxInv
<1> SUFFICES ASSUME Init PROVE TxInv
  OBVIOUS
<1>1. /\ pay = [p \in Payments |-> NoPayment] /\ inv = [i \in Invoices |-> DraftInvoice]
      /\ pastDue = {} /\ sending = [s \in Senders |-> None]
  BY DEF Init, R!Init, R!NoPayment, R!DraftInvoice, NoPayment, DraftInvoice,
         R!NoAllocations, NoAllocations
<1>2. tx = [t \in Tx |-> Idle]
  BY DEF Init
<1>3. TxTypeOK
  BY <1>1, <1>2, RowTypes, IdleType
  DEF TxTypeOK, TypeOK, DraftInvoice, Invoice, InvoiceStatuses
<1>4. \A t \in Tx :
         /\ ~HoldsNumber(t) /\ \A p \in Payments : ~HoldsPayment(t, p)
         /\ \A i \in Invoices : ~LocksInvoice(t, i) /\ ~SharesInvoice(t, i)
         /\ CreateOK(t) /\ ReverseOK(t) /\ AllocateOK(t)
         /\ tx[t].op = "none" /\ tx[t].pc = "idle" /\ tx[t].new = None /\ tx[t].step = 0
  BY <1>2 DEF Idle, HoldsNumber, HoldsPayment, LocksInvoice, SharesInvoice,
              CreateOK, ReverseOK, AllocateOK
<1> QED
  BY <1>3, <1>4 DEF TxInv, PaymentsExclusive, InvoicesExclusive, UpdatesNotStale, NewOK

LEMMA StepTxInv == TxInv /\ [Next]_vars => TxInv'
<1> SUFFICES ASSUME TxInv, [Next]_vars PROVE TxInv'
  OBVIOUS
<1>1. ASSUME NEW t \in Tx, Begin(t) PROVE TxInv'
  BY <1>1, BeginCreateStep, BeginReverseStep, BeginAllocateStep DEF Begin
<1>2. ASSUME NEW t \in Tx, Statement(t) PROVE TxInv'
  BY <1>2, LockForReverseStep, LockForAllocateStep, ReadNumberStep, InsertPaymentStep,
     InsertAllocationStep, RecordPaymentStep, CommitStep DEF Statement
<1>3. ASSUME NEW t \in Tx, Fail(t) \/ DeadlockVictim(t) PROVE TxInv'
  BY <1>3, RollbackStep DEF Fail, DeadlockVictim
<1>4. CASE UNCHANGED vars
  <2>1. inv' = inv /\ sending' = sending /\ pastDue' = pastDue /\ UNCHANGED <<pay, tx>>
    BY <1>4 DEF vars, stateVars
  <2> QED BY <2>1, OutsideStep DEF TxInv, TxTypeOK, TypeOK
<1> QED BY <1>1, <1>2, <1>3, <1>4, SingleStatements DEF Next

\* Every transaction keeps what its checks established until it ends, whatever
\* the other transactions, the senders and the voids do in between.
THEOREM TransactionsIsolated == Spec => []TxInv
BY InitTxInv, StepTxInv, PTL DEF Spec

\* No value of the rows, nor of a transaction's record, leaves its type: in
\* particular the paid amount of an invoice never drops below zero.
THEOREM TypesKept == Spec => []TxTypeOK
<1>1. TxInv => TxTypeOK
  BY DEF TxInv
<1> QED BY <1>1, TransactionsIsolated, PTL

-----------------------------------------------------------------------------
(* Every step is a step of Receivables *)

\* The rules Receivables reads are the rules read here.
LEMMA SameRules ==
    /\ \A p : R!Exists(p) <=> Exists(p)
    /\ \A p : R!IsReversal(p) <=> IsReversal(p)
    /\ \A p : R!IsReversed(p) <=> IsReversed(p)
    /\ \A alloc : R!Targets(alloc) = Targets(alloc)
    /\ \A type : R!UsedNumbers(type) = UsedNumbers(type)
    /\ \A p, row : R!ReversalOf(p, row) = ReversalOf(p, row)
    /\ \A row, total, amount, late :
          R!calculatePaymentUpdate(row, total, amount, late)
             = calculatePaymentUpdate(row, total, amount, late)
    /\ R!NoAllocations = NoAllocations
    /\ R!stateVars = stateVars
<1>1. \A p : R!Exists(p) <=> Exists(p)
  BY DEF R!Exists, Exists
<1>2. \A type : R!UsedNumbers(type) = UsedNumbers(type)
  BY DEF R!UsedNumbers, UsedNumbers, R!Exists, Exists
<1>3. \A p, row : R!ReversalOf(p, row) = ReversalOf(p, row)
  BY DEF R!ReversalOf, ReversalOf, R!reversePaymentType, reversePaymentType
<1>4. \A row, total, amount, late :
          R!calculatePaymentUpdate(row, total, amount, late)
             = calculatePaymentUpdate(row, total, amount, late)
  BY DEF R!calculatePaymentUpdate, calculatePaymentUpdate,
         R!unpaidInvoiceStatusAt, unpaidInvoiceStatusAt
<1> QED
  BY <1>1, <1>2, <1>3, <1>4
  DEF R!IsReversal, IsReversal, R!IsReversed, IsReversed, R!Targets, Targets,
      R!NoAllocations, NoAllocations, R!stateVars, stateVars

LEMMA SameAmounts ==
    /\ \A row : R!UnallocatedAmount(row) = UnallocatedAmount(row)
    /\ R!PaymentRequests = PaymentRequests
<1>1. \A row : R!UnallocatedAmount(row) = UnallocatedAmount(row)
  BY DEF R!UnallocatedAmount, UnallocatedAmount, R!SumFunction, SumFunction,
         R!SumFunctionOnSet, SumFunctionOnSet, R!FoldFunctionOnSet, FoldFunctionOnSet,
         R!MapThenFoldSet, MapThenFoldSet
<1>2. R!PaymentRequests = PaymentRequests
  BY <1>1 DEF R!PaymentRequests, PaymentRequests, R!PaymentTypes, PaymentTypes
<1> QED BY <1>1, <1>2

\* The invoices a commit writes are those RecordPayments gives.
LEMMA CommitRecords ==
    ASSUME TxInv, NEW t \in Tx, Commit(t)
    PROVE  R!RecordPayments(tx[t].row.alloc, Sign(t))
<1> DEFINE alloc == tx[t].row.alloc
           Computed(i, l) == calculatePaymentUpdate(inv[i], Total[i], Sign(t) * alloc[i], l)
           late == {i \in pastDue : LocksInvoice(t, i) /\ tx[t].invoice[i] = Computed(i, TRUE)}
<1>1. Finished(t) /\ OrderOK(t) /\ inv' = WrittenInvoices(t)
  BY Committing DEF Commit
<1>2. \A i \in Invoices : i \in Targets(alloc) <=> LocksInvoice(t, i)
  <2>1. Width(t) \in Nat /\ tx[t].step = 2 * Width(t) /\ tx[t].pc = "run"
    BY <1>1, OneTransaction DEF Finished
  <2> QED BY <1>1, <2>1 DEF OrderOK, LocksInvoice
<1>3. \A i \in Targets(alloc) : inv[i].status # "VOIDED"
  BY <1>2 DEF TxInv, UpdatesNotStale, Targets
<1>4. late \in SUBSET pastDue
  OBVIOUS
<1>5. ASSUME NEW i \in Invoices, LocksInvoice(t, i)
      PROVE  tx[t].invoice[i] = Computed(i, i \in late)
  <2>1. PICK l \in BOOLEAN : (l => i \in pastDue) /\ tx[t].invoice[i] = Computed(i, l)
    BY <1>5 DEF TxInv, UpdatesNotStale
  <2>2. CASE l = TRUE
    <3>1. i \in late
      BY <1>5, <2>1, <2>2
    <3>2. (i \in late) = TRUE
      BY <3>1
    <3> QED BY <2>1, <2>2, <3>2, Zenon
  <2>3. CASE l = FALSE
    <3>1. CASE i \in late
      <4>1. (i \in late) = TRUE /\ tx[t].invoice[i] = Computed(i, TRUE)
        BY <3>1
      <4> QED BY <4>1, Zenon
    <3>2. CASE i \notin late
      <4> HIDE DEF late
      <4>1. (i \in late) = FALSE
        BY <3>2
      <4> QED BY <2>1, <2>3, <4>1, Zenon
    <3> QED BY <3>1, <3>2
  <2> QED BY <2>1, <2>2, <2>3
<1>6. inv' = [i \in Invoices |-> IF i \in Targets(alloc) THEN Computed(i, i \in late) ELSE inv[i]]
  <2> HIDE DEF late, Computed
  <2> QED BY <1>1, <1>2, <1>5 DEF WrittenInvoices
<1>7. inv' = [i \in Invoices |->
                IF i \in R!Targets(alloc)
                THEN R!calculatePaymentUpdate(inv[i], Total[i], Sign(t) * alloc[i], i \in late)
                ELSE inv[i]]
  <2> HIDE DEF late
  <2> QED BY <1>6, SameRules
<1> HIDE DEF late, alloc
<1>8. \A i \in R!Targets(alloc) : inv[i].status # "VOIDED"
  BY <1>3, SameRules
<1>9. R!RecordPayments(alloc, Sign(t))
  BY <1>4, <1>7, <1>8 DEF R!RecordPayments
<1> QED BY <1>9 DEF alloc

\* A commit is the operation its transaction began.
LEMMA CommitMaps ==
    ASSUME TxInv, NEW t \in Tx, Commit(t)
    PROVE  R!PaymentNext
<1> DEFINE row == tx[t].row
           p == tx[t].target
           q == tx[t].new
<1>1. /\ tx[t].pc = "run" /\ row \in Payment /\ tx[t].op # "none"
      /\ tx[t].op # "create" => p \in Payments /\ Exists(p)
      /\ tx[t].op # "allocate" => q \in Payments /\ ~Exists(q)
      /\ CreateOK(t) /\ ReverseOK(t) /\ AllocateOK(t)
  BY Committing DEF Commit
<1>2. /\ pay' = WrittenPayments(t) /\ UNCHANGED <<pastDue, sending>>
      /\ R!RecordPayments(row.alloc, Sign(t))
  BY CommitRecords DEF Commit
<1>3. tx[t].op \in {"create", "reverse", "allocate"}
  BY <1>1, OneTransaction DEF Transactions
<1>4. ASSUME q # None
      PROVE  /\ row.number \in Numbers \ R!UsedNumbers(row.type)
             /\ R!Numbered(row)
             /\ row \in R!NumberedRows(Unnumbered(t))
  <2>1. row.number \in Numbers \ UsedNumbers(row.type)
    BY <1>1, <1>4 DEF TxInv, NewOK, HoldsNumber
  <2>2. row = [Unnumbered(t) EXCEPT !.number = row.number]
    BY <1>1 DEF Unnumbered, Payment
  <2> QED BY <2>1, <2>2, SameRules DEF R!Numbered, R!NumberedRows
<1>5. CASE tx[t].op = "create"
  <2>1. Unnumbered(t) \in R!PaymentRequests /\ q \in Payments /\ ~R!Exists(q) /\ q # None
    BY <1>1, <1>5, SameAmounts, SameRules, NoneAssumption DEF CreateOK
  <2>2. Sign(t) = 1 /\ pay' = [pay EXCEPT ![q] = row]
    BY <1>2, <1>5 DEF Sign, WrittenPayments
  <2>3. R!CreatePayment(q, row)
    BY <1>2, <1>4, <2>1, <2>2 DEF R!CreatePayment, Unnumbered
  <2> QED BY <1>4, <2>1, <2>3 DEF R!PaymentNext
<1>6. CASE tx[t].op = "reverse"
  <2>1. /\ ~R!IsReversal(p) /\ ~R!IsReversed(p) /\ R!Exists(p) /\ ~R!Exists(q)
        /\ Unnumbered(t) = R!ReversalOf(p, pay[p]) /\ p \in Payments /\ q \in Payments /\ q # None
    BY <1>1, <1>6, SameRules, NoneAssumption DEF ReverseOK
  <2>2. Sign(t) = -1 /\ pay' = [pay EXCEPT ![p].reversedBy = q, ![q] = row]
    BY <1>2, <1>6 DEF Sign, WrittenPayments
  <2>3. R!ReversePayment(p, q, row)
    BY <1>2, <1>4, <2>1, <2>2 DEF R!ReversePayment, Unnumbered
  <2> QED BY <1>4, <2>1, <2>3 DEF R!PaymentNext
<1>7. CASE tx[t].op = "allocate"
  <2>1. PICK i \in Invoices, amount \in Amounts :
          /\ tx[t].order = <<i>>
          /\ row.alloc = [NoAllocations EXCEPT ![i] = amount]
          /\ tx[t].pc = "run" =>
                ~IsReversal(p) /\ ~IsReversed(p) /\ amount <= UnallocatedAmount(pay[p])
    BY <1>1, <1>7 DEF AllocateOK
  <2>2. /\ p \in Payments /\ R!Exists(p) /\ ~R!IsReversal(p) /\ ~R!IsReversed(p)
        /\ amount <= R!UnallocatedAmount(pay[p])
    BY <1>1, <1>7, <2>1, SameRules, SameAmounts
  <2>3. tx[t].order[1] = i /\ row.alloc[i] = amount
    BY <2>1 DEF NoAllocations
  <2>4. Sign(t) = 1 /\ pay' = [pay EXCEPT ![p].alloc[i] = @ + amount]
    BY <1>2, <1>7, <2>3 DEF Sign, WrittenPayments
  <2>5. R!RecordPayments([R!NoAllocations EXCEPT ![i] = amount], 1)
    BY <1>2, <2>1, <2>4, SameRules
  <2>6. R!AllocateToInvoice(p, i, amount)
    BY <1>2, <2>2, <2>4, <2>5 DEF R!AllocateToInvoice
  <2> QED BY <2>2, <2>6 DEF R!PaymentNext
<1> QED BY <1>3, <1>5, <1>6, <1>7

LEMMA StepMaps == TxInv /\ [Next]_vars => [R!Next]_(R!stateVars)
<1> SUFFICES ASSUME TxInv, [Next]_vars PROVE R!Next \/ UNCHANGED stateVars
  BY DEF R!stateVars, stateVars
<1>1. ASSUME NEW t \in Tx, Begin(t) \/ Fail(t) \/ DeadlockVictim(t)
      PROVE  UNCHANGED stateVars
  BY <1>1 DEF Begin, BeginCreate, BeginReverse, BeginAllocate, Fail, DeadlockVictim, Rollback
<1>2. ASSUME NEW t \in Tx, Statement(t) PROVE R!Next \/ UNCHANGED stateVars
  <2>1. CASE Commit(t)
    BY <2>1, CommitMaps DEF R!Next
  <2>2. CASE ~Commit(t)
    BY <1>2, <2>2 DEF Statement, LockForReverse, LockForAllocate, ReadNumber, InsertPayment,
                      InsertAllocation, RecordPayment, Rollback
  <2> QED BY <2>1, <2>2
<1>3. ASSUME \/ \E s \in Senders : SendWrite(s)
             \/ \E i \in Invoices : VoidInvoice(i)
             \/ UpdateOverdueStatus
             \/ OtherStep
      PROVE  R!Next
  BY <1>3 DEF SendWrite, VoidInvoice, UpdateOverdueStatus, OtherStep, R!Next, R!InvoiceNext
<1>4. CASE UNCHANGED vars
  BY <1>4 DEF vars
<1> QED BY <1>1, <1>2, <1>3, <1>4 DEF Next

\* Payments, reversals and allocations are atomic, for any number of payments,
\* invoices and connections: whatever their statements interleave with, the
\* committed rows move as if each operation ran alone, or not at all.
THEOREM PaymentsAtomic == Spec => ImplementsReceivables
<1>1. Init => R!Init
  BY DEF Init
<1> QED
  BY <1>1, StepMaps, TransactionsIsolated, PTL DEF Spec, ImplementsReceivables, R!Spec

-----------------------------------------------------------------------------
(* Reversals *)

\* Only the row of a new payment is written, and nothing pointed at its id.
LEMMA CreateKeepsPairs ==
    ASSUME TypeOK, ReversalsPair, NEW p \in Payments, NEW row, ~Exists(p),
           row.reversalOf = None, row.reversedBy = None, pay' = [pay EXCEPT ![p] = row]
    PROVE  ReversalsPair'
<1>1. pay'[p] = row /\ \A a \in Payments \ {p} : pay'[a] = pay[a]
  BY DEF TypeOK
<1>2. \A a \in Payments : pay[a].reversalOf # p /\ pay[a].reversedBy # p
  BY DEF ReversalsPair
<1>3. p # None
  BY NoneAssumption
<1> QED
  BY <1>1, <1>2, <1>3, NoneAssumption DEF ReversalsPair, Exists, IsReversal, IsReversed

\* The original and the new row are in no other pair.
LEMMA NewPair ==
    ASSUME ReversalsPair, NEW p \in Payments, NEW q \in Payments, p # q,
           \A a \in Payments \ {p, q} : pay'[a] = pay[a],
           \A a \in Payments : pay[a].reversalOf \notin {p, q} /\ pay[a].reversedBy \notin {p, q},
           pay'[p].reversalOf = None, pay'[p].reversedBy = q,
           pay'[q].reversalOf = p, pay'[q].reversedBy = None,
           Exists(p)', Exists(q)',
           pay'[q].amount = pay'[p].amount, pay'[q].alloc = pay'[p].alloc,
           pay'[q].type # pay'[p].type
    PROVE  ReversalsPair'
<1> SUFFICES ASSUME NEW a \in Payments, NEW b \in Payments
             PROVE  /\ pay'[b].reversalOf = a =>
                          /\ Exists(a)' /\ Exists(b)'
                          /\ pay'[a].reversedBy = b
                          /\ ~IsReversal(a)' /\ ~IsReversed(b)'
                          /\ pay'[b].amount = pay'[a].amount /\ pay'[b].alloc = pay'[a].alloc
                          /\ pay'[b].type # pay'[a].type
                    /\ pay'[a].reversedBy = b => pay'[b].reversalOf = a
  BY DEF ReversalsPair
<1>1. CASE a \notin {p, q} /\ b \notin {p, q}
  <2>1. pay'[a] = pay[a] /\ pay'[b] = pay[b]
    BY <1>1
  <2> QED
    BY <2>1 DEF ReversalsPair, Exists, IsReversal, IsReversed
<1>2. CASE a = p /\ b = q
  BY <1>2 DEF IsReversal, IsReversed
<1>3. CASE ~(a \notin {p, q} /\ b \notin {p, q}) /\ ~(a = p /\ b = q)
  <2>1. pay'[b].reversalOf # a /\ pay'[a].reversedBy # b
    BY <1>3, NoneAssumption
  <2> QED
    BY <2>1
<1> QED
  BY <1>1, <1>2, <1>3

LEMMA ReverseKeepsPairs ==
    ASSUME TypeOK, ReversalsPair, NEW p \in Payments, NEW q \in Payments, NEW n \in Numbers,
           Exists(p), ~IsReversal(p), ~IsReversed(p), ~Exists(q),
           pay' = [pay EXCEPT ![p].reversedBy = q,
                              ![q] = [ReversalOf(p, pay[p]) EXCEPT !.number = n]]
    PROVE  ReversalsPair'
<1> DEFINE row == [ReversalOf(p, pay[p]) EXCEPT !.number = n]
<1>1. p # q /\ p # None /\ q # None /\ pay[p] \in Payment
  BY NoneAssumption DEF TypeOK
<1>2. /\ row.reversalOf = p /\ row.reversedBy = None
      /\ row.amount = pay[p].amount /\ row.alloc = pay[p].alloc
      /\ row.type = reversePaymentType(pay[p].type) /\ row.number # 0
  BY <1>1, NumbersAssumption DEF ReversalOf, Payment
<1>3. row.type # pay[p].type
  BY <1>1, <1>2 DEF reversePaymentType, Payment, PaymentTypes
<1>4. /\ pay'[q] = row
      /\ pay'[p] = [pay[p] EXCEPT !.reversedBy = q]
      /\ \A a \in Payments \ {p, q} : pay'[a] = pay[a]
  BY <1>1 DEF TypeOK
<1>5. /\ pay'[p].reversedBy = q /\ pay'[p].reversalOf = None
      /\ pay'[p].amount = pay[p].amount /\ pay'[p].alloc = pay[p].alloc
      /\ pay'[p].type = pay[p].type /\ pay'[p].number = pay[p].number
  BY <1>1, <1>4 DEF Payment, IsReversal
<1>6. \A a \in Payments : pay[a].reversalOf \notin {p, q} /\ pay[a].reversedBy \notin {p, q}
  BY NoneAssumption DEF ReversalsPair, IsReversal, IsReversed
<1> HIDE DEF row
<1>7. Exists(p)' /\ Exists(q)'
  BY <1>2, <1>4, <1>5 DEF Exists
<1>8. /\ pay'[q].reversalOf = p /\ pay'[q].reversedBy = None
      /\ pay'[q].amount = pay'[p].amount /\ pay'[q].alloc = pay'[p].alloc
      /\ pay'[q].type # pay'[p].type
  BY <1>2, <1>3, <1>4, <1>5
<1> QED
  BY <1>1, <1>4, <1>5, <1>6, <1>7, <1>8, NewPair

\* A payment that may be allocated is in no pair.
LEMMA AllocateKeepsPairs ==
    ASSUME TypeOK, ReversalsPair, NEW p \in Payments, NEW i \in Invoices, NEW amount,
           ~IsReversal(p), ~IsReversed(p),
           pay' = [pay EXCEPT ![p].alloc[i] = @ + amount]
    PROVE  ReversalsPair'
<1>1. pay[p] \in Payment /\ \A a \in Payments \ {p} : pay'[a] = pay[a]
  BY DEF TypeOK
<1>2. /\ pay'[p].reversalOf = None /\ pay'[p].reversedBy = None
      /\ pay'[p].amount = pay[p].amount /\ pay'[p].number = pay[p].number
  BY <1>1 DEF TypeOK, Payment, IsReversal, IsReversed
<1>3. \A a \in Payments : pay[a].reversalOf # p /\ pay[a].reversedBy # p
  BY NoneAssumption DEF ReversalsPair, IsReversal, IsReversed
<1> QED
  BY <1>1, <1>2, <1>3, NoneAssumption DEF ReversalsPair, Exists, IsReversal, IsReversed

LEMMA OperationsKeepPairs ==
    ASSUME TypeOK, ReversalsPair, R!Next
    PROVE  ReversalsPair'
<1>1. CASE R!InvoiceNext
  <2>1. pay' = pay
    BY <1>1 DEF R!InvoiceNext, R!SendWrite, R!SendCrash, R!SendRead, R!VoidInvoice,
                R!DueDatePasses, R!UpdateOverdueStatus
  <2> QED
    BY <2>1 DEF ReversalsPair, Exists, IsReversal, IsReversed
<1>2. ASSUME NEW p \in Payments, NEW request \in R!PaymentRequests,
             NEW row \in R!NumberedRows(request), R!CreatePayment(p, row)
      PROVE  ReversalsPair'
  <2>1. request \in PaymentRequests /\ ~Exists(p) /\ pay' = [pay EXCEPT ![p] = row]
    BY <1>2, SameRules, SameAmounts DEF R!CreatePayment
  <2>2. row.reversalOf = None /\ row.reversedBy = None
    BY <2>1 DEF R!NumberedRows, PaymentRequests
  <2> QED
    BY <2>1, <2>2, CreateKeepsPairs
<1>3. ASSUME NEW p \in Payments, NEW q \in Payments,
             NEW row \in R!NumberedRows(R!ReversalOf(p, pay[p])), R!ReversePayment(p, q, row)
      PROVE  ReversalsPair'
  <2>1. /\ Exists(p) /\ ~IsReversal(p) /\ ~IsReversed(p) /\ ~Exists(q)
        /\ pay' = [pay EXCEPT ![p].reversedBy = q, ![q] = row]
    BY <1>3, SameRules DEF R!ReversePayment
  <2>2. PICK n \in Numbers : row = [ReversalOf(p, pay[p]) EXCEPT !.number = n]
    BY <1>3, SameRules DEF R!NumberedRows
  <2> QED
    BY <2>1, <2>2, ReverseKeepsPairs
<1>4. ASSUME NEW p \in Payments, NEW i \in Invoices, NEW amount \in Amounts,
             R!AllocateToInvoice(p, i, amount)
      PROVE  ReversalsPair'
  <2>1. ~IsReversal(p) /\ ~IsReversed(p) /\ pay' = [pay EXCEPT ![p].alloc[i] = @ + amount]
    BY <1>4, SameRules DEF R!AllocateToInvoice
  <2> QED
    BY <2>1, AllocateKeepsPairs
<1> QED
  BY <1>1, <1>2, <1>3, <1>4 DEF R!Next, R!PaymentNext

\* A payment is reversed at most once and a reversal never, and the two rows
\* mirror each other, however many Reverse and AllocateToInvoice calls of one
\* payment run at once (payments/service.go:173).
THEOREM ReversalsMirror == Spec => []ReversalsPair
<1>1. Init => ReversalsPair
  BY NoneAssumption DEF Init, R!Init, R!NoPayment, ReversalsPair
<1>2. TxInv /\ ReversalsPair /\ [Next]_vars => ReversalsPair'
  <2> SUFFICES ASSUME TxInv, ReversalsPair, [Next]_vars PROVE ReversalsPair'
    OBVIOUS
  <2>1. CASE R!Next
    BY <2>1, OperationsKeepPairs DEF TxInv, TxTypeOK
  <2>2. CASE UNCHANGED R!stateVars
    BY <2>2 DEF R!stateVars, ReversalsPair, Exists, IsReversal, IsReversed
  <2> QED
    BY <2>1, <2>2, StepMaps
<1> QED
  BY <1>1, <1>2, TransactionsIsolated, PTL DEF Spec

-----------------------------------------------------------------------------
(* Invoices *)

StatusOf(row, total) ==
    /\ row.status = "PAID" => row.paid = total
    /\ row.status = "PARTIALLY_PAID" => row.paid \in 1..(total - 1)
    /\ row.status \in {"DRAFT", "VOIDED"} => row.paid = 0

\* Whatever amount is added or taken off, the clamps set a status that agrees.
LEMMA UpdateAgrees ==
    ASSUME NEW row, row.paid \in Nat, NEW total \in Nat, NEW amount \in Int, NEW late
    PROVE  StatusOf(calculatePaymentUpdate(row, total, amount, late), total)
<1> DEFINE new == row.paid + amount
<1>1. new \in Int
  OBVIOUS
<1>2. CASE new >= total
  BY <1>1, <1>2 DEF calculatePaymentUpdate, StatusOf
<1>3. CASE ~(new >= total) /\ new > 0
  BY <1>1, <1>3 DEF calculatePaymentUpdate, StatusOf
<1>4. CASE ~(new >= total) /\ ~(new > 0)
  <2>1. calculatePaymentUpdate(row, total, amount, late)
           = [status |-> unpaidInvoiceStatusAt(row.status, late), paid |-> 0]
    BY <1>1, <1>4 DEF calculatePaymentUpdate
  <2>2. unpaidInvoiceStatusAt(row.status, late) \in {"DRAFT", "VOIDED", "OVERDUE", "SENT"}
    BY DEF unpaidInvoiceStatusAt
  <2> QED
    BY <2>1, <2>2 DEF StatusOf
<1> QED
  BY <1>2, <1>3, <1>4

\* What every operation does to one invoice.
Recorded(i) ==
    /\ inv[i].status # "VOIDED"
    /\ \E amount \in Int, late \in BOOLEAN :
          inv'[i] = calculatePaymentUpdate(inv[i], Total[i], amount, late)

SentNow(i) ==
    /\ \E s \in Senders : sending[s] = i /\ sending'[s] = None
    /\ inv'[i] = [inv[i] EXCEPT !.status = "SENT"]

VoidedNow(i) ==
    /\ inv[i].status # "VOIDED" /\ inv[i].paid = 0
    /\ inv'[i] = [inv[i] EXCEPT !.status = "VOIDED"]

OverdueNow(i) ==
    /\ inv[i].status # "VOIDED"
    /\ inv'[i] = [inv[i] EXCEPT !.status = "OVERDUE"]

Moves(i) == inv'[i] = inv[i] \/ Recorded(i) \/ SentNow(i) \/ VoidedNow(i) \/ OverdueNow(i)

LEMMA RecordingMoves ==
    ASSUME TypeOK, NEW alloc \in [Invoices -> Nat], NEW sign \in {-1, 1},
           R!RecordPayments(alloc, sign), NEW i \in Invoices
    PROVE  Moves(i)
<1>1. PICK late \in SUBSET pastDue :
         inv' = [j \in Invoices |->
                   IF j \in Targets(alloc)
                   THEN calculatePaymentUpdate(inv[j], Total[j], sign * alloc[j], j \in late)
                   ELSE inv[j]]
  BY SameRules DEF R!RecordPayments
<1>2. sign * alloc[i] \in Int /\ (i \in late) \in BOOLEAN
  OBVIOUS
<1>3. CASE i \in Targets(alloc)
  <2>1. inv[i].status # "VOIDED"
    BY <1>3, SameRules DEF R!RecordPayments
  <2>2. inv'[i] = calculatePaymentUpdate(inv[i], Total[i], sign * alloc[i], i \in late)
    BY <1>1, <1>3
  <2> QED
    BY <1>2, <2>1, <2>2 DEF Moves, Recorded
<1>4. CASE i \notin Targets(alloc)
  BY <1>1, <1>4 DEF Moves
<1> QED
  BY <1>3, <1>4

LEMMA PaymentMoves ==
    ASSUME TypeOK, R!PaymentNext, NEW i \in Invoices
    PROVE  Moves(i)
<1>1. ASSUME NEW p \in Payments, NEW request \in R!PaymentRequests,
             NEW row \in R!NumberedRows(request), R!CreatePayment(p, row)
      PROVE  Moves(i)
  <2>1. request \in PaymentRequests /\ R!RecordPayments(row.alloc, 1)
    BY <1>1, SameAmounts DEF R!CreatePayment
  <2>2. request.alloc \in [Invoices -> Nat] /\ row.alloc = request.alloc
    BY <2>1, AmountsAssumption DEF R!NumberedRows, PaymentRequests
  <2> QED
    BY <2>1, <2>2, RecordingMoves
<1>2. ASSUME NEW p \in Payments, NEW q \in Payments,
             NEW row \in R!NumberedRows(R!ReversalOf(p, pay[p])), R!ReversePayment(p, q, row)
      PROVE  Moves(i)
  <2>1. pay[p] \in Payment /\ R!RecordPayments(row.alloc, -1)
    BY <1>2 DEF R!ReversePayment, TypeOK
  <2>2. row.alloc = pay[p].alloc /\ pay[p].alloc \in [Invoices -> Nat]
    BY <2>1, SameRules DEF R!NumberedRows, ReversalOf, Payment
  <2> QED
    BY <2>1, <2>2, RecordingMoves
<1>3. ASSUME NEW p \in Payments, NEW j \in Invoices, NEW amount \in Amounts,
             R!AllocateToInvoice(p, j, amount)
      PROVE  Moves(i)
  <2>1. R!RecordPayments([NoAllocations EXCEPT ![j] = amount], 1)
    BY <1>3, SameRules DEF R!AllocateToInvoice
  <2>2. [NoAllocations EXCEPT ![j] = amount] \in [Invoices -> Nat]
    BY AmountsAssumption DEF NoAllocations
  <2> QED
    BY <2>1, <2>2, RecordingMoves
<1> QED
  BY <1>1, <1>2, <1>3 DEF R!PaymentNext

LEMMA InvoiceMoves ==
    ASSUME TypeOK, R!InvoiceNext, NEW i \in Invoices
    PROVE  Moves(i)
<1>1. inv \in [Invoices -> Invoice] /\ sending \in [Senders -> Invoices \union {None}]
  BY DEF TypeOK
<1>2. ASSUME NEW s \in Senders, R!SendWrite(s) PROVE Moves(i)
  <2>1. /\ inv' = [inv EXCEPT ![sending[s]].status = "SENT"]
        /\ sending' = [sending EXCEPT ![s] = None] /\ sending[s] \in Invoices
    BY <1>1, <1>2 DEF R!SendWrite
  <2>2. CASE sending[s] = i
    BY <1>1, <2>1, <2>2 DEF Moves, SentNow
  <2>3. CASE sending[s] # i
    BY <1>1, <2>1, <2>3 DEF Moves
  <2> QED
    BY <2>2, <2>3
<1>3. ASSUME NEW j \in Invoices, R!VoidInvoice(j) PROVE Moves(i)
  <2>1. /\ inv[j].status # "VOIDED" /\ inv[j].paid = 0
        /\ inv' = [inv EXCEPT ![j].status = "VOIDED"]
    BY <1>3 DEF R!VoidInvoice
  <2>2. CASE i = j
    BY <1>1, <2>1, <2>2 DEF Moves, VoidedNow
  <2>3. CASE i # j
    BY <1>1, <2>1, <2>3 DEF Moves
  <2> QED
    BY <2>2, <2>3
<1>4. CASE R!UpdateOverdueStatus
  <2>1. CASE i \in R!Overdue
    BY <1>4, <2>1 DEF R!UpdateOverdueStatus, R!Overdue, Moves, OverdueNow
  <2>2. CASE i \notin R!Overdue
    BY <1>4, <2>2 DEF R!UpdateOverdueStatus, Moves
  <2> QED
    BY <2>1, <2>2
<1>5. ASSUME inv' = inv PROVE Moves(i)
  BY <1>5 DEF Moves
<1> QED
  BY <1>2, <1>3, <1>4, <1>5
  DEF R!InvoiceNext, R!SendCrash, R!SendRead, R!DueDatePasses

\* Every step of the transactions moves an invoice in one of these ways.
LEMMA InvoiceStep ==
    ASSUME TxInv, [Next]_vars, NEW i \in Invoices
    PROVE  Moves(i)
<1>1. CASE R!Next
  BY <1>1, PaymentMoves, InvoiceMoves DEF TxInv, TxTypeOK, R!Next
<1>2. CASE UNCHANGED R!stateVars
  BY <1>2 DEF R!stateVars, Moves
<1> QED
  BY <1>1, <1>2, StepMaps

\* PAID means paid in full, PARTIALLY_PAID in part, and drafts and voided
\* invoices have nothing paid, whichever payments, reversals, voids and overdue
\* runs overlap (invoicing/service.go:239).
THEOREM StatusesAgree == Spec => []StatusMatchesPaid
<1>1. StatusMatchesPaid <=> \A i \in Invoices : StatusOf(inv[i], Total[i])
  BY DEF StatusMatchesPaid, StatusOf
<1>2. Init => StatusMatchesPaid
  BY DEF Init, R!Init, R!DraftInvoice, StatusMatchesPaid
<1>3. TxInv /\ StatusMatchesPaid /\ [Next]_vars => StatusMatchesPaid'
  <2> SUFFICES ASSUME TxInv, StatusMatchesPaid, [Next]_vars, NEW i \in Invoices
               PROVE  StatusOf(inv'[i], Total[i])
    BY DEF StatusMatchesPaid, StatusOf
  <2>1. inv[i] \in Invoice /\ Total[i] \in Nat /\ StatusOf(inv[i], Total[i])
    BY <1>1, TotalAssumption DEF TxInv, TxTypeOK, TypeOK
  <2>2. inv[i].paid \in Nat
    BY <2>1 DEF Invoice
  <2>3. CASE inv'[i] = inv[i]
    BY <2>1, <2>3
  <2>4. CASE Recorded(i)
    BY <2>1, <2>2, <2>4, UpdateAgrees DEF Recorded
  <2>5. CASE SentNow(i) \/ VoidedNow(i) \/ OverdueNow(i)
    BY <2>1, <2>5 DEF SentNow, VoidedNow, OverdueNow, StatusOf, Invoice
  <2> QED
    BY <2>3, <2>4, <2>5, InvoiceStep DEF Moves
<1> QED
  BY <1>2, <1>3, TransactionsIsolated, PTL DEF Spec

\* No payment is recorded on a voided invoice, even if it was voided while the
\* payment's transaction ran (invoicing/repository_gorm.go:166).
THEOREM VoidedStaysUnpaid == Spec => VoidedNotPaid
<1>1. TxInv /\ [Next]_vars
        => [\A i \in Invoices : inv[i].status = "VOIDED" => inv'[i].paid = inv[i].paid]_vars
  <2> SUFFICES ASSUME TxInv, [Next]_vars, NEW i \in Invoices, inv[i].status = "VOIDED"
               PROVE  inv'[i].paid = inv[i].paid
    OBVIOUS
  <2>1. inv[i] \in Invoice
    BY DEF TxInv, TxTypeOK, TypeOK
  <2>2. inv'[i] = inv[i] \/ inv'[i] = [inv[i] EXCEPT !.status = "SENT"]
    BY InvoiceStep DEF Moves, Recorded, SentNow, VoidedNow, OverdueNow
  <2> QED
    BY <2>1, <2>2 DEF Invoice
<1> QED
  BY <1>1, TransactionsIsolated, PTL DEF Spec, VoidedNotPaid

\* Only a Send that read the invoice as a draft can bring a voided invoice back
\* (invoicing/service.go:190).
THEOREM VoidIsFinal == Spec => VoidedOnlySent
<1>1. TxInv /\ [Next]_vars
        => [\A i \in Invoices :
              inv[i].status = "VOIDED" =>
                 inv'[i] = inv[i]
                 \/ \E s \in Senders : sending[s] = i /\ sending'[s] = None]_vars
  <2> SUFFICES ASSUME TxInv, [Next]_vars, NEW i \in Invoices, inv[i].status = "VOIDED"
               PROVE  inv'[i] = inv[i] \/ \E s \in Senders : sending[s] = i /\ sending'[s] = None
    OBVIOUS
  <2> QED
    BY InvoiceStep DEF Moves, Recorded, SentNow, VoidedNow, OverdueNow
<1> QED
  BY <1>1, TransactionsIsolated, PTL DEF Spec, VoidedOnlySent

-----------------------------------------------------------------------------
(* Payments and what is allocated of them *)

\* What recording a payment, or its reversal, does to every invoice.
Records(alloc, sign) ==
    \A i \in Invoices :
        /\ alloc[i] = 0 => inv'[i] = inv[i]
        /\ alloc[i] > 0 => \E late \in BOOLEAN :
              inv'[i] = calculatePaymentUpdate(inv[i], Total[i], sign * alloc[i], late)

Created ==
    \E p \in Payments, row \in Payment :
        /\ ~Exists(p) /\ row.number # 0 /\ UnallocatedAmount(row) >= 0
        /\ row.reversalOf = None /\ row.reversedBy = None
        /\ pay' = [pay EXCEPT ![p] = row]
        /\ Records(row.alloc, 1)

Reversed ==
    \E p, q \in Payments, row \in Payment :
        /\ Exists(p) /\ ~IsReversal(p) /\ ~IsReversed(p) /\ ~Exists(q)
        /\ row.reversalOf = p /\ row.amount = pay[p].amount /\ row.alloc = pay[p].alloc
        /\ row.number # 0
        /\ pay' = [pay EXCEPT ![p].reversedBy = q, ![q] = row]
        /\ Records(row.alloc, -1)

Allocated ==
    \E p \in Payments, i \in Invoices, amount \in Amounts :
        /\ Exists(p) /\ ~IsReversal(p) /\ ~IsReversed(p)
        /\ amount <= UnallocatedAmount(pay[p])
        /\ pay' = [pay EXCEPT ![p].alloc[i] = @ + amount]
        /\ Records([NoAllocations EXCEPT ![i] = amount], 1)

NothingPaid == pay' = pay /\ \A i \in Invoices : inv'[i].paid = inv[i].paid

LEMMA RecordsRows ==
    ASSUME NEW alloc \in [Invoices -> Nat], NEW sign \in {-1, 1}, R!RecordPayments(alloc, sign)
    PROVE  Records(alloc, sign)
<1>1. PICK late \in SUBSET pastDue :
         inv' = [j \in Invoices |->
                   IF j \in Targets(alloc)
                   THEN calculatePaymentUpdate(inv[j], Total[j], sign * alloc[j], j \in late)
                   ELSE inv[j]]
  BY SameRules DEF R!RecordPayments
<1> SUFFICES ASSUME NEW i \in Invoices
             PROVE  /\ alloc[i] = 0 => inv'[i] = inv[i]
                    /\ alloc[i] > 0 => \E l \in BOOLEAN :
                          inv'[i] = calculatePaymentUpdate(inv[i], Total[i], sign * alloc[i], l)
  BY DEF Records
<1>2. (i \in late) \in BOOLEAN
  OBVIOUS
<1>3. i \in Targets(alloc) <=> alloc[i] > 0
  BY DEF Targets
<1>4. CASE i \in Targets(alloc)
  <2>1. inv'[i] = calculatePaymentUpdate(inv[i], Total[i], sign * alloc[i], i \in late)
    BY <1>1, <1>4
  <2>2. \E l \in BOOLEAN : inv'[i] = calculatePaymentUpdate(inv[i], Total[i], sign * alloc[i], l)
    BY <1>2, <2>1, Zenon
  <2>3. alloc[i] # 0
    BY <1>3, <1>4
  <2> QED
    BY <2>2, <2>3, Zenon
<1>5. CASE i \notin Targets(alloc)
  <2>1. inv'[i] = inv[i]
    BY <1>1, <1>5
  <2> QED
    BY <1>3, <1>5, <2>1
<1> QED
  BY <1>4, <1>5

\* Every step of the transactions is one of these to the committed rows.
LEMMA Operations ==
    ASSUME TxInv, [Next]_vars
    PROVE  Created \/ Reversed \/ Allocated \/ NothingPaid
<1> USE DEF TxInv, TxTypeOK
<1>0. pay \in [Payments -> Payment] /\ inv \in [Invoices -> Invoice]
  BY DEF TypeOK
<1>1. ASSUME NEW p \in Payments, NEW request \in R!PaymentRequests,
             NEW row \in R!NumberedRows(request), R!CreatePayment(p, row)
      PROVE  Created
  <2>1. /\ request \in PaymentRequests /\ ~Exists(p) /\ pay' = [pay EXCEPT ![p] = row]
        /\ R!RecordPayments(row.alloc, 1)
    BY <1>1, SameRules, SameAmounts DEF R!CreatePayment
  <2>2. request \in Payment
    BY <2>1, RowTypes
  <2>3. PICK n \in Numbers : row = [request EXCEPT !.number = n]
    BY DEF R!NumberedRows
  <2>4. /\ row \in Payment /\ row.amount = request.amount /\ row.alloc = request.alloc
        /\ row.reversalOf = request.reversalOf /\ row.reversedBy = request.reversedBy
        /\ row.alloc \in [Invoices -> Nat]
    BY <2>2, <2>3 DEF Payment
  <2>5. /\ UnallocatedAmount(request) >= 0 /\ request.amount \in Amounts
        /\ request.reversalOf = None /\ request.reversedBy = None
    BY <2>1 DEF PaymentRequests
  <2>6. UnallocatedAmount(row) = UnallocatedAmount(request)
    BY <2>4 DEF UnallocatedAmount
  <2>7. row.number # 0
    BY <2>2, <2>3, NumbersAssumption DEF Payment
  <2>8. Records(row.alloc, 1)
    BY <2>1, <2>4, RecordsRows
  <2> QED
    BY <2>1, <2>4, <2>5, <2>6, <2>7, <2>8 DEF Created
<1>2. ASSUME NEW p \in Payments, NEW q \in Payments,
             NEW row \in R!NumberedRows(R!ReversalOf(p, pay[p])), R!ReversePayment(p, q, row)
      PROVE  Reversed
  <2>1. /\ Exists(p) /\ ~IsReversal(p) /\ ~IsReversed(p) /\ ~Exists(q)
        /\ pay' = [pay EXCEPT ![p].reversedBy = q, ![q] = row]
        /\ R!RecordPayments(row.alloc, -1)
    BY <1>2, SameRules DEF R!ReversePayment
  <2>2. PICK n \in Numbers : row = [ReversalOf(p, pay[p]) EXCEPT !.number = n]
    BY <1>2, SameRules DEF R!NumberedRows
  <2>3. pay[p] \in Payment /\ ReversalOf(p, pay[p]) \in Payment
    BY <1>0, RowTypes
  <2>4. /\ ReversalOf(p, pay[p]).reversalOf = p /\ ReversalOf(p, pay[p]).amount = pay[p].amount
        /\ ReversalOf(p, pay[p]).alloc = pay[p].alloc
    BY <2>3 DEF ReversalOf, Payment
  <2>5. /\ row \in Payment /\ row.reversalOf = p /\ row.amount = pay[p].amount
        /\ row.alloc = pay[p].alloc /\ row.alloc \in [Invoices -> Nat] /\ row.number # 0
    BY <2>2, <2>3, <2>4, NumbersAssumption DEF Payment
  <2>6. Records(row.alloc, -1)
    BY <2>1, <2>5, RecordsRows
  <2> QED
    BY <2>1, <2>5, <2>6 DEF Reversed
<1>3. ASSUME NEW p \in Payments, NEW i \in Invoices, NEW amount \in Amounts,
             R!AllocateToInvoice(p, i, amount)
      PROVE  Allocated
  <2>1. /\ Exists(p) /\ ~IsReversal(p) /\ ~IsReversed(p)
        /\ amount <= UnallocatedAmount(pay[p])
        /\ pay' = [pay EXCEPT ![p].alloc[i] = @ + amount]
        /\ R!RecordPayments([NoAllocations EXCEPT ![i] = amount], 1)
    BY <1>3, SameRules, SameAmounts DEF R!AllocateToInvoice
  <2>2. [NoAllocations EXCEPT ![i] = amount] \in [Invoices -> Nat]
    BY AmountsAssumption DEF NoAllocations
  <2>3. Records([NoAllocations EXCEPT ![i] = amount], 1)
    BY <2>1, <2>2, RecordsRows
  <2> QED
    BY <2>1, <2>3 DEF Allocated
<1>4. CASE R!InvoiceNext
  <2>1. pay' = pay
    BY <1>4 DEF R!InvoiceNext, R!SendWrite, R!SendCrash, R!SendRead, R!VoidInvoice,
                R!DueDatePasses, R!UpdateOverdueStatus
  <2>2. ASSUME NEW i \in Invoices PROVE inv'[i].paid = inv[i].paid
    <3>1. inv[i] \in Invoice /\ \A s : [inv[i] EXCEPT !.status = s].paid = inv[i].paid
      BY <1>0 DEF Invoice
    <3>2. ASSUME NEW s \in Senders, R!SendWrite(s) PROVE inv'[i].paid = inv[i].paid
      <4>1. inv' = [inv EXCEPT ![sending[s]].status = "SENT"]
        BY <3>2 DEF R!SendWrite
      <4> QED
        BY <1>0, <3>1, <4>1
    <3>3. ASSUME NEW j \in Invoices, R!VoidInvoice(j) PROVE inv'[i].paid = inv[i].paid
      <4>1. inv' = [inv EXCEPT ![j].status = "VOIDED"]
        BY <3>3 DEF R!VoidInvoice
      <4> QED
        BY <1>0, <3>1, <4>1
    <3>4. CASE R!UpdateOverdueStatus
      BY <3>1, <3>4 DEF R!UpdateOverdueStatus
    <3> QED
      BY <1>4, <3>2, <3>3, <3>4 DEF R!InvoiceNext, R!SendCrash, R!SendRead, R!DueDatePasses
  <2> QED
    BY <2>1, <2>2 DEF NothingPaid
<1>5. CASE UNCHANGED R!stateVars
  BY <1>5 DEF R!stateVars, NothingPaid
<1> QED
  BY <1>1, <1>2, <1>3, <1>4, <1>5, StepMaps DEF R!Next, R!PaymentNext

LEMMA NothingAllocated == SumFunction(NoAllocations) = 0
<1> DEFINE z == NoAllocations
<1>1. \A i \in Invoices : z[i] \in Int /\ z[i] = z[i] + z[i]
  BY DEF NoAllocations
<1>2. SumFunctionOnSet(z, Invoices) = SumFunctionOnSet(z, Invoices) + SumFunctionOnSet(z, Invoices)
  <2> HIDE DEF z
  <2> QED
    BY <1>1, FiniteAssumption, SumAdds
<1>3. SumFunctionOnSet(z, Invoices) \in Int
  <2> HIDE DEF z
  <2> QED
    BY <1>1, FiniteAssumption, SumTyped
<1>4. DOMAIN z = Invoices
  BY DEF NoAllocations
<1> DEFINE s == SumFunctionOnSet(z, Invoices)
<1>5. s = s + s /\ s \in Int
  BY <1>2, <1>3
<1>6. SumFunction(z) = s
  BY <1>4 DEF SumFunction
<1> HIDE DEF s
<1>7. s = 0
  BY <1>5
<1> QED
  BY <1>6, <1>7
\* What is allocated of a row grows by what is added to one invoice.
LEMMA AllocationAdded ==
    ASSUME NEW alloc \in [Invoices -> Nat], NEW i \in Invoices, NEW amount \in Nat
    PROVE  /\ SumFunction([alloc EXCEPT ![i] = @ + amount]) = SumFunction(alloc) + amount
           /\ SumFunction(alloc) \in Nat
<1> DEFINE more == [alloc EXCEPT ![i] = @ + amount]
<1>1. /\ more \in [Invoices -> Nat] /\ more[i] = alloc[i] + amount
      /\ \A j \in Invoices \ {i} : more[j] = alloc[j]
  OBVIOUS
<1>2. DOMAIN alloc = Invoices /\ DOMAIN more = Invoices
  OBVIOUS
<1>3. \A j \in Invoices : alloc[j] \in Nat /\ alloc[j] \in Int /\ more[j] \in Int
  BY <1>1
<1> HIDE DEF more
<1>4. SumFunctionOnSet(more, Invoices) = SumFunctionOnSet(alloc, Invoices) - alloc[i] + more[i]
  BY <1>1, <1>3, FiniteAssumption, SumChange
<1>5. SumFunctionOnSet(alloc, Invoices) \in Nat
  BY <1>3, FiniteAssumption, SumNatural
<1> DEFINE before == SumFunctionOnSet(alloc, Invoices)
           after == SumFunctionOnSet(more, Invoices)
<1>6. SumFunction(more) = after /\ SumFunction(alloc) = before
  BY <1>2 DEF SumFunction
<1>7. after = before - alloc[i] + more[i] /\ before \in Nat /\ alloc[i] \in Nat
  BY <1>3, <1>4, <1>5
<1> HIDE DEF before, after
<1>8. after = before + amount
  BY <1>1, <1>7
<1> QED
  BY <1>6, <1>7, <1>8 DEF more

\* No payment has more allocated to invoices than was paid, whichever
\* AllocateToInvoice calls ran concurrently (payments/service.go:348).
THEOREM NeverOverAllocated == Spec => []NoOverAllocation
<1>1. Init => NoOverAllocation
  <2> SUFFICES ASSUME Init, NEW p \in Payments PROVE UnallocatedAmount(pay[p]) >= 0
    BY DEF NoOverAllocation
  <2>1. pay[p] = NoPayment
    BY DEF Init, R!Init, R!NoPayment, NoPayment, R!NoAllocations, NoAllocations
  <2>2. NoPayment.amount = 0 /\ NoPayment.alloc = NoAllocations
    BY DEF NoPayment
  <2>3. UnallocatedAmount(pay[p]) = 0 - 0
    BY <2>1, <2>2, NothingAllocated DEF UnallocatedAmount
  <2> QED
    BY <2>3
<1>2. TxInv /\ NoOverAllocation /\ [Next]_vars => NoOverAllocation'
  <2> SUFFICES ASSUME TxInv, NoOverAllocation, [Next]_vars, NEW p \in Payments
               PROVE  UnallocatedAmount(pay'[p]) >= 0
    BY DEF NoOverAllocation
  <2>1. pay \in [Payments -> Payment] /\ pay[p] \in Payment /\ UnallocatedAmount(pay[p]) >= 0
    BY DEF NoOverAllocation, TxInv, TxTypeOK, TypeOK
  <2>2. \A row \in Payment : row.amount = pay[p].amount /\ row.alloc = pay[p].alloc
                              => UnallocatedAmount(row) >= 0
    BY <2>1 DEF UnallocatedAmount
  <2>3. CASE Created
    <3>1. PICK q \in Payments, row \in Payment :
            UnallocatedAmount(row) >= 0 /\ pay' = [pay EXCEPT ![q] = row]
      BY <2>3 DEF Created
    <3> QED
      BY <2>1, <3>1
  <2>4. CASE Reversed
    <3>1. PICK o \in Payments, q \in Payments, row \in Payment :
            /\ Exists(o) /\ ~Exists(q) /\ row.amount = pay[o].amount /\ row.alloc = pay[o].alloc
            /\ pay' = [pay EXCEPT ![o].reversedBy = q, ![q] = row]
      BY <2>4 DEF Reversed
    <3>2. o # q /\ pay[o] \in Payment /\ UnallocatedAmount(pay[o]) >= 0
      BY <2>1, <3>1 DEF NoOverAllocation
    <3>3. UnallocatedAmount(row) >= 0
      BY <3>1, <3>2 DEF UnallocatedAmount
    <3>4. pay'[q] = row /\ pay'[o] = [pay[o] EXCEPT !.reversedBy = q]
          /\ \A r \in Payments \ {o, q} : pay'[r] = pay[r]
      BY <2>1, <3>1, <3>2
    <3>5. pay'[o].amount = pay[o].amount /\ pay'[o].alloc = pay[o].alloc
      BY <3>2, <3>4 DEF Payment
    <3>6. UnallocatedAmount(pay'[o]) >= 0
      BY <3>2, <3>5 DEF UnallocatedAmount
    <3> QED
      BY <2>1, <3>3, <3>4, <3>6
  <2>5. CASE Allocated
    <3>1. PICK o \in Payments, i \in Invoices, amount \in Amounts :
            /\ amount <= UnallocatedAmount(pay[o])
            /\ pay' = [pay EXCEPT ![o].alloc[i] = @ + amount]
      BY <2>5 DEF Allocated
    <3>2. CASE p = o
      <4> DEFINE alloc == pay[p].alloc
                 more == [alloc EXCEPT ![i] = @ + amount]
      <4>1. alloc \in [Invoices -> Nat] /\ amount \in Nat /\ pay[p].amount \in Nat
        BY <2>1, AmountsAssumption DEF Payment
      <4>2. pay'[p] = [pay[p] EXCEPT !.alloc = more]
        BY <2>1, <3>1, <3>2
      <4>3. pay'[p].amount = pay[p].amount /\ pay'[p].alloc = more
        BY <2>1, <4>2 DEF Payment
      <4>4. SumFunction(more) = SumFunction(alloc) + amount /\ SumFunction(alloc) \in Nat
        BY <4>1, AllocationAdded
      <4>5. amount <= pay[p].amount - SumFunction(alloc)
        BY <3>1, <3>2 DEF UnallocatedAmount
      <4>6. UnallocatedAmount(pay'[p]) = pay[p].amount - SumFunction(more)
        BY <4>3 DEF UnallocatedAmount
      <4> HIDE DEF more, alloc
      <4> QED
        BY <4>1, <4>4, <4>5, <4>6
    <3>3. CASE p # o
      BY <2>1, <3>1, <3>3
    <3> QED
      BY <3>2, <3>3
  <2>6. CASE NothingPaid
    BY <2>1, <2>6 DEF NothingPaid
  <2> QED
    BY <2>3, <2>4, <2>5, <2>6, Operations
<1> QED
  BY <1>1, <1>2, TransactionsIsolated, PTL DEF Spec

-----------------------------------------------------------------------------
(* Invoices and what is allocated to them *)

Allocations(i) == [p \in Payments |-> pay[p].alloc[i]]

\* What RecordPayment makes of the paid amount.
Clamped(paid, total) == IF paid >= total THEN total ELSE IF paid > 0 THEN paid ELSE 0

LEMMA UpdatePaid ==
    ASSUME NEW row, NEW total, NEW amount, NEW late
    PROVE  calculatePaymentUpdate(row, total, amount, late).paid = Clamped(row.paid + amount, total)
BY DEF calculatePaymentUpdate, Clamped

\* The allocations of some payments that a step leaves alone.
LEMMA SameAllocations ==
    ASSUME NEW S \in SUBSET Payments, NEW i \in Invoices,
           \A p \in S : pay'[p].alloc[i] = pay[p].alloc[i]
    PROVE  SumFunctionOnSet(Allocations(i)', S) = SumFunctionOnSet(Allocations(i), S)
<1> DEFINE f == Allocations(i)
           g == Allocations(i)'
<1>1. IsFiniteSet(S)
  BY FiniteAssumption, FS_Subset
<1>2. \A p \in S : g[p] = f[p]
  BY DEF Allocations
<1> HIDE DEF f, g
<1>3. SumFunctionOnSet(g, S) = SumFunctionOnSet(f, S)
  BY <1>1, <1>2, SumEqual
<1> QED
  BY <1>3 DEF f, g

LEMMA AllocationFacts ==
    ASSUME TypeOK, NEW i \in Invoices
    PROVE  /\ \A p \in Payments : Allocations(i)[p] = pay[p].alloc[i] /\ Allocations(i)[p] \in Nat
           /\ LiveAllocations(i) = SumFunctionOnSet(Allocations(i), {p \in Payments : Live(p)})
           /\ AllAllocations(i) = SumFunctionOnSet(Allocations(i), {p \in Payments : Original(p)})
           /\ LiveAllocations(i) \in Nat /\ AllAllocations(i) \in Nat
           /\ LiveAllocations(i) <= AllAllocations(i)
           /\ Total[i] \in Nat /\ inv[i].paid \in Nat
<1> DEFINE f == Allocations(i)
           L == {p \in Payments : Live(p)}
           O == {p \in Payments : Original(p)}
<1>1. \A p \in Payments : f[p] = pay[p].alloc[i] /\ f[p] \in Nat
  BY DEF Allocations, TypeOK, Payment
<1>2. LiveAllocations(i) = SumFunctionOnSet(f, L) /\ AllAllocations(i) = SumFunctionOnSet(f, O)
  BY DEF LiveAllocations, AllAllocations, AllocatedBy, Allocations
<1>3. L \in SUBSET O /\ IsFiniteSet(O)
  <2>1. O \subseteq Payments
    OBVIOUS
  <2>2. IsFiniteSet(O)
    BY <2>1, FiniteAssumption, FS_Subset
  <2> QED
    BY <2>2 DEF Live
<1>4. \A p \in O : f[p] \in Nat
  BY <1>1
<1> HIDE DEF f
<1>5. /\ SumFunctionOnSet(f, L) \in Nat /\ SumFunctionOnSet(f, O) \in Nat
      /\ SumFunctionOnSet(f, L) <= SumFunctionOnSet(f, O)
  <2> HIDE DEF L, O
  <2> QED
    BY <1>3, <1>4, SumNatural, SumOfMore
<1>6. Total[i] \in Nat /\ inv[i].paid \in Nat
  BY TotalAssumption DEF TypeOK, Invoice
<1> QED
  BY <1>1, <1>2, <1>5, <1>6 DEF f

\* How the allocations of one invoice and its paid amount move together.
Added(i, amount) ==
    /\ LiveAllocations(i)' = LiveAllocations(i) + amount
    /\ AllAllocations(i)' = AllAllocations(i) + amount
    /\ inv'[i].paid = IF amount = 0 THEN inv[i].paid ELSE Clamped(inv[i].paid + amount, Total[i])

TakenOff(i, amount) ==
    /\ LiveAllocations(i)' = LiveAllocations(i) - amount
    /\ AllAllocations(i)' = AllAllocations(i)
    /\ inv'[i].paid = IF amount = 0 THEN inv[i].paid ELSE Clamped(inv[i].paid - amount, Total[i])

LEMMA RecordsPaid ==
    ASSUME NEW alloc, NEW i \in Invoices, alloc[i] \in Nat, inv[i].paid \in Nat
    PROVE  /\ Records(alloc, 1) =>
                inv'[i].paid = IF alloc[i] = 0 THEN inv[i].paid
                               ELSE Clamped(inv[i].paid + alloc[i], Total[i])
           /\ Records(alloc, -1) =>
                inv'[i].paid = IF alloc[i] = 0 THEN inv[i].paid
                               ELSE Clamped(inv[i].paid - alloc[i], Total[i])
<1>1. alloc[i] = 0 \/ alloc[i] > 0
  OBVIOUS
<1>2. ASSUME NEW sign \in {-1, 1}, Records(alloc, sign)
      PROVE  inv'[i].paid = IF alloc[i] = 0 THEN inv[i].paid
                            ELSE Clamped(inv[i].paid + sign * alloc[i], Total[i])
  BY <1>1, <1>2, UpdatePaid DEF Records
<1>3. -1 * alloc[i] = 0 - alloc[i] /\ 1 * alloc[i] = alloc[i]
  OBVIOUS
<1>4. inv[i].paid + (-1) * alloc[i] = inv[i].paid - alloc[i] /\ inv[i].paid + 1 * alloc[i] = inv[i].paid + alloc[i]
  OBVIOUS
<1> QED
  BY <1>2, <1>4

\* One payment more, or one of the payments allocated further.
LEMMA OneMore ==
    ASSUME TypeOK, TypeOK', NEW i \in Invoices, NEW q \in Payments,
           NEW S \in SUBSET Payments, \A p \in S \ {q} : pay'[p].alloc[i] = pay[p].alloc[i]
    PROVE  SumFunctionOnSet(Allocations(i)', S \union {q})
              = SumFunctionOnSet(Allocations(i), S)
                + (IF q \in S THEN pay'[q].alloc[i] - pay[q].alloc[i] ELSE pay'[q].alloc[i])
<1> DEFINE f == Allocations(i)
           g == Allocations(i)'
           T == S \ {q}
<1>1. \A p \in Payments : f[p] = pay[p].alloc[i] /\ f[p] \in Int
  BY DEF Allocations, TypeOK, Payment
<1>2. \A p \in Payments : g[p] = pay'[p].alloc[i] /\ g[p] \in Int
  BY DEF Allocations, TypeOK, Payment
<1>3. IsFiniteSet(T) /\ IsFiniteSet(S) /\ T \subseteq Payments /\ q \notin T /\ T \union {q} = S \union {q}
  BY FiniteAssumption, FS_Subset
<1>4. SumFunctionOnSet(g, T) = SumFunctionOnSet(f, T)
  BY <1>3, SameAllocations
<1> HIDE DEF f, g, T
<1>5. SumFunctionOnSet(g, T \union {q}) = SumFunctionOnSet(g, T) + g[q] /\ SumFunctionOnSet(g, T) \in Int
  BY <1>2, <1>3, SumWith
<1>6. CASE q \in S
  <2>1. SumFunctionOnSet(f, T \union {q}) = SumFunctionOnSet(f, T) + f[q]
    BY <1>1, <1>3, SumWith
  <2>2. T \union {q} = S /\ S \union {q} = S
    BY <1>3, <1>6
  <2> DEFINE rest == SumFunctionOnSet(f, T)
             before == SumFunctionOnSet(f, S)
             after == SumFunctionOnSet(g, S)
  <2>3. after = rest + g[q] /\ before = rest + f[q] /\ rest \in Int
    BY <1>4, <1>5, <2>1, <2>2
  <2> HIDE DEF rest, before, after
  <2>4. after = before + (g[q] - f[q])
    BY <1>1, <1>2, <2>3
  <2>5. SumFunctionOnSet(g, S \union {q}) = SumFunctionOnSet(f, S) + (g[q] - f[q])
    BY <2>2, <2>4 DEF before, after
  <2> QED
    BY <1>1, <1>2, <1>6, <2>5 DEF f, g
<1>7. CASE q \notin S
  <2>1. T = S
    BY <1>7 DEF T
  <2>2. SumFunctionOnSet(g, S \union {q}) = SumFunctionOnSet(f, S) + g[q]
    BY <1>4, <1>5, <2>1
  <2> QED
    BY <1>2, <1>7, <2>2 DEF f, g
<1> QED
  BY <1>6, <1>7

LEMMA OneLess ==
    ASSUME TypeOK, NEW i \in Invoices, NEW q \in Payments,
           NEW S \in SUBSET Payments, q \in S, \A p \in S \ {q} : pay'[p].alloc[i] = pay[p].alloc[i]
    PROVE  SumFunctionOnSet(Allocations(i)', S \ {q}) = SumFunctionOnSet(Allocations(i), S) - pay[q].alloc[i]
<1> DEFINE f == Allocations(i)
           T == S \ {q}
<1>1. \A p \in Payments : f[p] = pay[p].alloc[i] /\ f[p] \in Int
  BY DEF Allocations, TypeOK, Payment
<1>2. IsFiniteSet(T) /\ T \subseteq Payments /\ q \notin T /\ T \union {q} = S
  BY FiniteAssumption, FS_Subset
<1>3. SumFunctionOnSet(Allocations(i)', T) = SumFunctionOnSet(f, T)
  BY <1>2, SameAllocations
<1> HIDE DEF f, T
<1>4. SumFunctionOnSet(f, T \union {q}) = SumFunctionOnSet(f, T) + f[q] /\ SumFunctionOnSet(f, T) \in Int
  BY <1>1, <1>2, SumWith
<1> DEFINE rest == SumFunctionOnSet(f, T)
           before == SumFunctionOnSet(f, S)
<1>5. before = rest + f[q] /\ rest \in Int
  BY <1>2, <1>4
<1> HIDE DEF rest, before
<1>6. rest = before - f[q]
  BY <1>1, <1>5
<1> QED
  BY <1>1, <1>3, <1>6 DEF rest, before, f, T

LEMMA CreatedAdds ==
    ASSUME TypeOK, TypeOK', Created, NEW i \in Invoices
    PROVE  \E amount \in Nat : Added(i, amount)
<1>0. pay \in [Payments -> Payment] /\ inv[i].paid \in Nat
  BY DEF TypeOK, Invoice
<1>1. PICK q \in Payments, row \in Payment :
        /\ ~Exists(q) /\ row.number # 0 /\ row.reversalOf = None /\ row.reversedBy = None
        /\ pay' = [pay EXCEPT ![q] = row] /\ Records(row.alloc, 1)
  BY DEF Created
<1>2. pay'[q] = row /\ \A p \in Payments \ {q} : pay'[p] = pay[p]
  BY <1>0, <1>1
<1>3. row.alloc[i] \in Nat
  BY DEF Payment
<1> DEFINE L == {p \in Payments : Live(p)}
           O == {p \in Payments : Original(p)}
<1>4. {p \in Payments : Live(p)}' = L \union {q} /\ q \notin L
  BY <1>1, <1>2 DEF Live, Original, Exists, IsReversal, IsReversed
<1>5. {p \in Payments : Original(p)}' = O \union {q} /\ q \notin O
  BY <1>1, <1>2 DEF Original, Exists, IsReversal
<1>6. \A p \in Payments \ {q} : pay'[p].alloc[i] = pay[p].alloc[i]
  BY <1>2
<1>7. SumFunctionOnSet(Allocations(i)', L \union {q}) = SumFunctionOnSet(Allocations(i), L) + row.alloc[i]
  BY <1>2, <1>4, <1>6, OneMore
<1>8. SumFunctionOnSet(Allocations(i)', O \union {q}) = SumFunctionOnSet(Allocations(i), O) + row.alloc[i]
  BY <1>2, <1>5, <1>6, OneMore
<1>9. inv'[i].paid = IF row.alloc[i] = 0 THEN inv[i].paid
                     ELSE Clamped(inv[i].paid + row.alloc[i], Total[i])
  BY <1>0, <1>1, <1>3, RecordsPaid
<1>10. LiveAllocations(i)' = LiveAllocations(i) + row.alloc[i]
  BY <1>4, <1>7 DEF LiveAllocations, AllocatedBy, Allocations
<1>11. AllAllocations(i)' = AllAllocations(i) + row.alloc[i]
  BY <1>5, <1>8 DEF AllAllocations, AllocatedBy, Allocations
<1>12. Added(i, row.alloc[i])
  BY <1>9, <1>10, <1>11 DEF Added
<1> QED
  BY <1>3, <1>12

LEMMA AllocatedAdds ==
    ASSUME TypeOK, TypeOK', Allocated, NEW i \in Invoices
    PROVE  \E amount \in Nat : Added(i, amount)
<1>0. pay \in [Payments -> Payment] /\ inv[i].paid \in Nat
  BY DEF TypeOK, Invoice
<1>1. PICK q \in Payments, j \in Invoices, amount \in Amounts :
        /\ Exists(q) /\ ~IsReversal(q) /\ ~IsReversed(q)
        /\ pay' = [pay EXCEPT ![q].alloc[j] = @ + amount]
        /\ Records([NoAllocations EXCEPT ![j] = amount], 1)
  BY DEF Allocated
<1> DEFINE alloc == [NoAllocations EXCEPT ![j] = amount]
           a == alloc[i]
<1>2. amount \in Nat /\ a \in Nat /\ a = IF i = j THEN amount ELSE 0
  BY AmountsAssumption DEF NoAllocations
<1> DEFINE more == [pay[q].alloc EXCEPT ![j] = @ + amount]
<1>3. /\ pay'[q] = [pay[q] EXCEPT !.alloc = more]
      /\ \A p \in Payments \ {q} : pay'[p] = pay[p]
  BY <1>0, <1>1
<1>4. /\ pay'[q].amount = pay[q].amount /\ pay'[q].reversalOf = pay[q].reversalOf
      /\ pay'[q].reversedBy = pay[q].reversedBy
      /\ pay'[q].alloc = more
      /\ pay[q].alloc \in [Invoices -> Nat]
  <2> HIDE DEF more
  <2> QED
    BY <1>0, <1>3 DEF Payment
<1>5. pay'[q].alloc[i] = pay[q].alloc[i] + a /\ pay[q].alloc[i] \in Nat
  BY <1>2, <1>4
<1> HIDE DEF a
<1> DEFINE L == {p \in Payments : Live(p)}
           O == {p \in Payments : Original(p)}
<1>6. {p \in Payments : Live(p)}' = L /\ q \in L /\ L \union {q} = L
  BY <1>1, <1>3, <1>4 DEF Live, Original, Exists, IsReversal, IsReversed
<1>7. {p \in Payments : Original(p)}' = O /\ q \in O /\ O \union {q} = O
  BY <1>1, <1>3, <1>4 DEF Original, Exists, IsReversal
<1>8. \A p \in Payments \ {q} : pay'[p].alloc[i] = pay[p].alloc[i]
  BY <1>3
<1>9. pay'[q].alloc[i] - pay[q].alloc[i] = a
  BY <1>2, <1>5
<1>10. SumFunctionOnSet(Allocations(i)', L) = SumFunctionOnSet(Allocations(i), L) + a
  <2>1. L \in SUBSET Payments
    OBVIOUS
  <2> HIDE DEF L
  <2>2. SumFunctionOnSet(Allocations(i)', L \union {q})
           = SumFunctionOnSet(Allocations(i), L) + (pay'[q].alloc[i] - pay[q].alloc[i])
    BY <1>6, <1>8, <2>1, OneMore
  <2> QED
    BY <1>6, <1>9, <2>2
<1>11. SumFunctionOnSet(Allocations(i)', O) = SumFunctionOnSet(Allocations(i), O) + a
  <2>1. O \in SUBSET Payments
    OBVIOUS
  <2> HIDE DEF O
  <2>2. SumFunctionOnSet(Allocations(i)', O \union {q})
           = SumFunctionOnSet(Allocations(i), O) + (pay'[q].alloc[i] - pay[q].alloc[i])
    BY <1>7, <1>8, <2>1, OneMore
  <2> QED
    BY <1>7, <1>9, <2>2
<1>12. inv'[i].paid = IF a = 0 THEN inv[i].paid ELSE Clamped(inv[i].paid + a, Total[i])
  BY <1>0, <1>1, <1>2, RecordsPaid DEF a
<1>13. LiveAllocations(i)' = LiveAllocations(i) + a
  BY <1>6, <1>10 DEF LiveAllocations, AllocatedBy, Allocations
<1>14. AllAllocations(i)' = AllAllocations(i) + a
  BY <1>7, <1>11 DEF AllAllocations, AllocatedBy, Allocations
<1>15. Added(i, a)
  BY <1>12, <1>13, <1>14 DEF Added
<1> QED
  BY <1>2, <1>15

LEMMA ReversedTakesOff ==
    ASSUME TypeOK, TypeOK', Reversed, NEW i \in Invoices
    PROVE  \E amount \in Nat : TakenOff(i, amount) /\ amount <= LiveAllocations(i)
<1>0. pay \in [Payments -> Payment] /\ inv[i].paid \in Nat
  BY DEF TypeOK, Invoice
<1>1. PICK p \in Payments, q \in Payments, row \in Payment :
        /\ Exists(p) /\ ~IsReversal(p) /\ ~IsReversed(p) /\ ~Exists(q)
        /\ row.reversalOf = p /\ row.amount = pay[p].amount /\ row.alloc = pay[p].alloc
        /\ row.number # 0
        /\ pay' = [pay EXCEPT ![p].reversedBy = q, ![q] = row]
        /\ Records(row.alloc, -1)
  BY DEF Reversed
<1>2. p # q /\ p # None /\ q # None
  BY <1>1, NoneAssumption
<1>3. /\ pay'[q] = row /\ pay'[p] = [pay[p] EXCEPT !.reversedBy = q]
      /\ \A r \in Payments \ {p, q} : pay'[r] = pay[r]
  BY <1>0, <1>1, <1>2
<1>4. /\ pay'[p].amount = pay[p].amount /\ pay'[p].reversalOf = pay[p].reversalOf
      /\ pay'[p].reversedBy = q /\ pay'[p].alloc = pay[p].alloc
      /\ pay[p].alloc[i] \in Nat /\ pay'[p].number = pay[p].number
  BY <1>0, <1>3 DEF Payment
<1> DEFINE a == pay[p].alloc[i]
           L == {r \in Payments : Live(r)}
           O == {r \in Payments : Original(r)}
<1> USE DEF Live, Original, Exists, IsReversal, IsReversed
<1>a. ~Original(q) /\ ~Original(q)'
  BY <1>1, <1>2, <1>3
<1>b. Live(p) /\ ~Live(p)' /\ Original(p)'
  BY <1>1, <1>2, <1>4
<1>c. \A r \in Payments \ {p, q} : (Live(r)' <=> Live(r)) /\ (Original(r)' <=> Original(r))
  BY <1>3
<1>5. {r \in Payments : Live(r)}' = L \ {p} /\ p \in L /\ q \notin L
  <2>1. \A r \in Payments : Live(r)' <=> Live(r) /\ r # p
    BY <1>a, <1>b, <1>c
  <2>2. Live(p) /\ ~Live(q)
    BY <1>a, <1>b
  <2> HIDE DEF Live
  <2> QED
    BY <2>1, <2>2
<1>6. {r \in Payments : Original(r)}' = O /\ q \notin O
  <2>1. \A r \in Payments : Original(r)' <=> Original(r)
    BY <1>a, <1>b, <1>c
  <2> HIDE DEF Original
  <2> QED
    BY <1>a, <2>1
<1> HIDE DEF Live, Original, Exists, IsReversal, IsReversed
<1>7. \A r \in Payments \ {q} : pay'[r].alloc[i] = pay[r].alloc[i]
  BY <1>3, <1>4
<1>8. SumFunctionOnSet(Allocations(i)', L \ {p}) = SumFunctionOnSet(Allocations(i), L) - a
  <2>1. L \in SUBSET Payments
    OBVIOUS
  <2> HIDE DEF L
  <2> QED
    BY <1>5, <1>7, <2>1, OneLess
<1>9. SumFunctionOnSet(Allocations(i)', O) = SumFunctionOnSet(Allocations(i), O)
  <2>1. O \in SUBSET Payments
    OBVIOUS
  <2> HIDE DEF O
  <2> QED
    BY <1>6, <1>7, <2>1, SameAllocations
<1>10. LiveAllocations(i)' = LiveAllocations(i) - a
  BY <1>5, <1>8 DEF LiveAllocations, AllocatedBy, Allocations
<1>11. AllAllocations(i)' = AllAllocations(i)
  BY <1>6, <1>9 DEF AllAllocations, AllocatedBy, Allocations
<1>12. inv'[i].paid = IF a = 0 THEN inv[i].paid ELSE Clamped(inv[i].paid - a, Total[i])
  BY <1>0, <1>1, <1>4, RecordsPaid
<1>13. a <= LiveAllocations(i)
  <2> DEFINE f == Allocations(i)
  <2>1. \A r \in Payments : f[r] \in Nat /\ f[p] = a
    BY AllocationFacts
  <2>2. IsFiniteSet(L) /\ L \subseteq Payments
    BY FiniteAssumption, FS_Subset
  <2>3. LiveAllocations(i) = SumFunctionOnSet(f, L)
    BY AllocationFacts
  <2> HIDE DEF f, L
  <2>4. f[p] <= SumFunctionOnSet(f, L)
    BY <1>5, <2>1, <2>2, SumNatural
  <2> QED
    BY <2>1, <2>3, <2>4
<1>14. TakenOff(i, a)
  BY <1>10, <1>11, <1>12 DEF TakenOff
<1> QED
  BY <1>4, <1>13, <1>14

LEMMA NothingMoves ==
    ASSUME TypeOK, NothingPaid, NEW i \in Invoices
    PROVE  Added(i, 0)
<1>1. /\ LiveAllocations(i)' = LiveAllocations(i) /\ AllAllocations(i)' = AllAllocations(i)
      /\ inv'[i].paid = inv[i].paid
  BY DEF NothingPaid, LiveAllocations, AllAllocations, AllocatedBy, Live, Original, Exists,
         IsReversal, IsReversed
<1>2. LiveAllocations(i) \in Nat /\ AllAllocations(i) \in Nat
  BY AllocationFacts
<1> QED
  BY <1>1, <1>2 DEF Added

LEMMA PaidStep ==
    ASSUME TxInv, [Next]_vars, NEW i \in Invoices
    PROVE  /\ \E amount \in Nat :
                 Added(i, amount) \/ (TakenOff(i, amount) /\ amount <= LiveAllocations(i))
           /\ LiveAllocations(i) \in Nat /\ AllAllocations(i) \in Nat
           /\ LiveAllocations(i) <= AllAllocations(i)
           /\ Total[i] \in Nat /\ inv[i].paid \in Nat
<1>1. TypeOK /\ TypeOK'
  BY StepTxInv DEF TxInv, TxTypeOK
<1>2. \E amount \in Nat : Added(i, amount) \/ (TakenOff(i, amount) /\ amount <= LiveAllocations(i))
  BY <1>1, Operations, CreatedAdds, AllocatedAdds, ReversedTakesOff, NothingMoves
<1> QED
  BY <1>1, <1>2, AllocationFacts

LEMMA NothingAtFirst ==
    ASSUME Init, NEW i \in Invoices
    PROVE  inv[i].paid = 0 /\ LiveAllocations(i) = 0
<1>1. pay = [p \in Payments |-> NoPayment] /\ inv = [j \in Invoices |-> DraftInvoice]
  BY DEF Init, R!Init, R!NoPayment, R!DraftInvoice, NoPayment, DraftInvoice, R!NoAllocations, NoAllocations
<1>2. {p \in Payments : Live(p)} = {}
  BY <1>1 DEF Live, Original, Exists, NoPayment
<1>3. LiveAllocations(i) = 0
  BY <1>2, SumOfNone DEF LiveAllocations, AllocatedBy
<1> QED
  BY <1>1, <1>3 DEF DraftInvoice

\* What an invoice says it was paid is backed by allocations of payments that
\* still stand, whatever amounts are clamped and in whatever order payments and
\* reversals commit (invoicing/repository_gorm.go:223).
THEOREM PaidIsBacked == Spec => []PaidBackedByAllocations
<1>1. Init => PaidBackedByAllocations
  <2> SUFFICES ASSUME Init, NEW i \in Invoices PROVE inv[i].paid <= LiveAllocations(i)
    BY DEF PaidBackedByAllocations
  <2>1. inv[i].paid = 0 /\ LiveAllocations(i) = 0
    BY NothingAtFirst
  <2> QED
    BY <2>1
<1>2. TxInv /\ PaidBackedByAllocations /\ [Next]_vars => PaidBackedByAllocations'
  <2> SUFFICES ASSUME TxInv, PaidBackedByAllocations, [Next]_vars, NEW i \in Invoices
               PROVE  inv'[i].paid <= LiveAllocations(i)'
    BY DEF PaidBackedByAllocations
  <2> DEFINE paid == inv[i].paid
             live == LiveAllocations(i)
             total == Total[i]
  <2>1. paid <= live
    BY DEF PaidBackedByAllocations
  <2>2. live \in Nat /\ paid \in Nat /\ total \in Nat
    BY PaidStep
  <2>3. PICK amount \in Nat : Added(i, amount) \/ (TakenOff(i, amount) /\ amount <= live)
    BY PaidStep
  <2>4. CASE Added(i, amount)
    <3>1. /\ LiveAllocations(i)' = live + amount
          /\ inv'[i].paid = IF amount = 0 THEN paid ELSE Clamped(paid + amount, total)
      BY <2>4 DEF Added
    <3> HIDE DEF paid, live, total
    <3> QED
      BY <2>1, <2>2, <3>1 DEF Clamped
  <2>5. CASE TakenOff(i, amount) /\ amount <= live
    <3>1. /\ LiveAllocations(i)' = live - amount
          /\ inv'[i].paid = IF amount = 0 THEN paid ELSE Clamped(paid - amount, total)
      BY <2>5 DEF TakenOff
    <3> HIDE DEF paid, live, total
    <3> QED
      BY <2>1, <2>2, <2>5, <3>1 DEF Clamped
  <2> QED
    BY <2>3, <2>4, <2>5
<1> QED
  BY <1>1, <1>2, TransactionsIsolated, PTL DEF Spec

\* As long as an invoice was never offered more than its total, it says exactly
\* what the standing allocations add up to: the clamps lose nothing
\* (invoicing/repository_gorm.go:223).
THEOREM PaymentsKept == Spec => []NoPaymentLost
<1>1. Init => NoPaymentLost
  BY NothingAtFirst DEF NoPaymentLost
<1>2. TxInv /\ NoPaymentLost /\ [Next]_vars => NoPaymentLost'
  <2> SUFFICES ASSUME TxInv, NoPaymentLost, [Next]_vars, NEW i \in Invoices,
                      AllAllocations(i)' <= Total[i]
               PROVE  inv'[i].paid = LiveAllocations(i)'
    BY DEF NoPaymentLost
  <2> DEFINE paid == inv[i].paid
             live == LiveAllocations(i)
             all == AllAllocations(i)
             total == Total[i]
  <2>1. all <= total => paid = live
    BY DEF NoPaymentLost
  <2>2. live \in Nat /\ all \in Nat /\ paid \in Nat /\ total \in Nat /\ live <= all
    BY PaidStep
  <2>3. PICK amount \in Nat : Added(i, amount) \/ (TakenOff(i, amount) /\ amount <= live)
    BY PaidStep
  <2>4. CASE Added(i, amount)
    <3>1. /\ LiveAllocations(i)' = live + amount /\ all + amount <= total
          /\ inv'[i].paid = IF amount = 0 THEN paid ELSE Clamped(paid + amount, total)
      BY <2>4 DEF Added
    <3> HIDE DEF paid, live, total, all
    <3> QED
      BY <2>1, <2>2, <3>1 DEF Clamped
  <2>5. CASE TakenOff(i, amount) /\ amount <= live
    <3>1. /\ LiveAllocations(i)' = live - amount /\ all <= total
          /\ inv'[i].paid = IF amount = 0 THEN paid ELSE Clamped(paid - amount, total)
      BY <2>5 DEF TakenOff
    <3> HIDE DEF paid, live, total, all
    <3> QED
      BY <2>1, <2>2, <2>5, <3>1 DEF Clamped
  <2> QED
    BY <2>3, <2>4, <2>5
<1> QED
  BY <1>1, <1>2, TransactionsIsolated, PTL DEF Spec

-----------------------------------------------------------------------------
(* Payment numbers *)

Rows(type) == {p \in Payments : Exists(p) /\ pay[p].type = type}

\* The number a transaction has read follows a committed one, also when others
\* have committed since: it is then a number that is taken, and refused.
Follows(t) ==
    tx[t].pc \in {"insert", "run"} /\ tx[t].new # None =>
        tx[t].row.number = 1 \/ tx[t].row.number - 1 \in UsedNumbers(tx[t].row.type)

NumbersInv == NumbersDense /\ \A t \in Tx : Follows(t)

LEMMA NumberFacts ==
    ASSUME TypeOK, NEW type \in PaymentTypes
    PROVE  /\ IsFiniteSet(Rows(type)) /\ Cardinality(Rows(type)) \in Nat
           /\ UsedNumbers(type) = {pay[p].number : p \in Rows(type)}
           /\ NumbersDense => UsedNumbers(type) = 1..Cardinality(Rows(type))
<1>1. Rows(type) \subseteq Payments
  BY DEF Rows
<1>2. IsFiniteSet(Rows(type))
  BY <1>1, FiniteAssumption, FS_Subset
<1>3. Cardinality(Rows(type)) \in Nat
  BY <1>2, FS_CardinalityType
<1> QED
  BY <1>2, <1>3 DEF UsedNumbers, NumbersDense, Rows

\* Rows that keep their numbers, and perhaps a new one.
LEMMA NumbersKept ==
    ASSUME \A p \in Payments : /\ Exists(p)' <=> Exists(p)
                               /\ pay'[p].type = pay[p].type /\ pay'[p].number = pay[p].number
    PROVE  \A type : Rows(type)' = Rows(type) /\ UsedNumbers(type)' = UsedNumbers(type)
BY DEF Rows, UsedNumbers

LEMMA NumberAdded ==
    ASSUME NEW q \in Payments, NEW row, pay'[q] = row, ~Exists(q), Exists(q)',
           \A p \in Payments \ {q} : /\ Exists(p)' <=> Exists(p)
                                     /\ pay'[p].type = pay[p].type /\ pay'[p].number = pay[p].number
    PROVE  /\ Rows(row.type)' = Rows(row.type) \union {q}
           /\ UsedNumbers(row.type)' = UsedNumbers(row.type) \union {row.number}
           /\ \A type : type # row.type =>
                 Rows(type)' = Rows(type) /\ UsedNumbers(type)' = UsedNumbers(type)
           /\ q \notin Rows(row.type)
<1>1. ASSUME NEW type PROVE Rows(type)' = IF type = row.type THEN Rows(type) \union {q} ELSE Rows(type)
  BY DEF Rows
<1>2. ASSUME NEW type
      PROVE  /\ UsedNumbers(type) = {pay[p].number : p \in Rows(type)}
             /\ UsedNumbers(type)' = {pay'[p].number : p \in Rows(type)'}
             /\ \A p \in Rows(type) : p # q /\ pay'[p].number = pay[p].number
  BY DEF UsedNumbers, Rows
<1>3. q \notin Rows(row.type)
  BY DEF Rows
<1>4. ASSUME NEW type PROVE UsedNumbers(type) = {pay'[p].number : p \in Rows(type)}
  BY <1>2
<1>5. UsedNumbers(row.type)' = UsedNumbers(row.type) \union {row.number}
  <2> DEFINE old == Rows(row.type)
  <2>1. UsedNumbers(row.type)' = {pay'[p].number : p \in old \union {q}}
    BY <1>1, <1>2
  <2>2. UsedNumbers(row.type) = {pay'[p].number : p \in old}
    BY <1>4
  <2> HIDE DEF old
  <2> QED
    BY <2>1, <2>2
<1>6. ASSUME NEW type, type # row.type
      PROVE  Rows(type)' = Rows(type) /\ UsedNumbers(type)' = UsedNumbers(type)
  BY <1>1, <1>2, <1>4, <1>6
<1> QED
  BY <1>1, <1>3, <1>5, <1>6

\* The number after the last one.
LEMMA NextNumber ==
    ASSUME NEW k \in Nat, NEW n \in Nat \ {0}, n \notin 1..k, n = 1 \/ n - 1 \in 1..k
    PROVE  (1..k) \union {n} = 1..(k + 1)
<1>1. n = k + 1
  OBVIOUS
<1> QED
  BY <1>1

LEMMA CommitNumbers ==
    ASSUME TxInv, NumbersInv, NEW t \in Tx, Commit(t)
    PROVE  NumbersDense' /\ \A type : UsedNumbers(type) \subseteq UsedNumbers(type)'
<1>0. TypeOK /\ TypeOK'
  BY CommitStep DEF TxInv, TxTypeOK
<1>1. /\ \A p \in Payments : Exists(p)' <=> Exists(p) \/ p = tx[t].new
      /\ \A p \in Payments : p # tx[t].new =>
            pay'[p].type = pay[p].type /\ pay'[p].number = pay[p].number
      /\ tx[t].new # None => pay'[tx[t].new] = tx[t].row
  BY CommittedPayments
<1>2. /\ tx[t].new \in Payments \union {None} /\ tx[t].row \in Payment /\ tx[t].pc = "run"
      /\ tx[t].new # None => ~Exists(tx[t].new)
  <2>1. Finished(t)
    BY DEF Commit
  <2> QED
    BY <2>1, OneTransaction DEF Transactions, Finished
<1>3. CASE tx[t].new = None
  <2>1. \A type : Rows(type)' = Rows(type) /\ UsedNumbers(type)' = UsedNumbers(type)
    <3>1. \A p \in Payments : /\ Exists(p)' <=> Exists(p)
                              /\ pay'[p].type = pay[p].type /\ pay'[p].number = pay[p].number
      BY <1>1, <1>3, NoneAssumption
    <3> QED
      BY <3>1, NumbersKept
  <2>2. \A type \in PaymentTypes : UsedNumbers(type)' = 1..Cardinality(Rows(type)')
    BY <1>0, <2>1, NumberFacts DEF NumbersInv
  <2> QED
    BY <2>1, <2>2 DEF NumbersDense, Rows
<1>4. CASE tx[t].new # None
  <2>0. PICK q, row : q = tx[t].new /\ row = tx[t].row
    OBVIOUS
  <2>1. q \in Payments /\ ~Exists(q) /\ Exists(q)' /\ pay'[q] = row
    <3>1. q \in Payments /\ ~Exists(q) /\ pay'[q] = row
      BY <1>1, <1>2, <1>4, <2>0
    <3>2. Exists(q)'
      BY <1>1, <2>0, <3>1
    <3> QED
      BY <3>1, <3>2
  <2>2. /\ Rows(row.type)' = Rows(row.type) \union {q}
        /\ UsedNumbers(row.type)' = UsedNumbers(row.type) \union {row.number}
        /\ \A type : type # row.type =>
              Rows(type)' = Rows(type) /\ UsedNumbers(type)' = UsedNumbers(type)
        /\ q \notin Rows(row.type)
    <3>1. \A p \in Payments \ {q} : /\ Exists(p)' <=> Exists(p)
                                    /\ pay'[p].type = pay[p].type /\ pay'[p].number = pay[p].number
      BY <1>1, <2>0
    <3> QED
      BY <2>1, <3>1, NumberAdded
  <2>3. row.type \in PaymentTypes
    BY <1>2, <2>0 DEF Payment
  <2>4. row.number \in Numbers \ UsedNumbers(row.type)
    BY <1>2, <1>4, <2>0 DEF TxInv, NewOK, HoldsNumber
  <2>5. row.number = 1 \/ row.number - 1 \in UsedNumbers(row.type)
    BY <1>2, <1>4, <2>0 DEF NumbersInv, Follows
  <2>6. row.number \in Nat \ {0}
    BY <2>4, NumbersAssumption
  <2> DEFINE k == Cardinality(Rows(row.type))
  <2>7. k \in Nat /\ UsedNumbers(row.type) = 1..k /\ IsFiniteSet(Rows(row.type))
    BY <1>0, <2>3, NumberFacts DEF NumbersInv
  <2>8. UsedNumbers(row.type)' = 1..(k + 1)
    <3> DEFINE n == row.number
    <3> HIDE DEF k, n
    <3>1. n \in Nat \ {0} /\ n \notin 1..k /\ (n = 1 \/ n - 1 \in 1..k)
      BY <2>4, <2>5, <2>6, <2>7 DEF n
    <3>2. (1..k) \union {n} = 1..(k + 1)
      BY <2>7, <3>1, NextNumber
    <3> QED
      BY <2>2, <2>7, <3>2 DEF n
  <2>9. Cardinality(Rows(row.type)') = k + 1
    <3> DEFINE old == Rows(row.type)
    <3>1. IsFiniteSet(old) /\ q \notin old /\ Cardinality(old) = k
      BY <2>2, <2>7
    <3> HIDE DEF old
    <3>2. Cardinality(old \union {q}) = k + 1
      BY <3>1, FS_AddElement
    <3> QED
      BY <2>2, <3>2 DEF old
  <2>10. ASSUME NEW type \in PaymentTypes
         PROVE  UsedNumbers(type)' = 1..Cardinality(Rows(type)')
    <3>1. CASE type = row.type
      <4> HIDE DEF k
      <4>1. UsedNumbers(row.type)' = 1..Cardinality(Rows(row.type)')
        BY <2>8, <2>9
      <4> QED
        BY <3>1, <4>1
    <3>2. CASE type # row.type
      BY <1>0, <2>2, <3>2, NumberFacts DEF NumbersInv
    <3> QED
      BY <3>1, <3>2
  <2>11. NumbersDense'
    BY <2>10 DEF NumbersDense, Rows
  <2>12. ASSUME NEW type PROVE UsedNumbers(type) \subseteq UsedNumbers(type)'
    <3>1. CASE type = row.type
      BY <2>2, <3>1
    <3>2. CASE type # row.type
      BY <2>2, <3>2
    <3> QED
      BY <3>1, <3>2
  <2> QED
    BY <2>11, <2>12
<1> QED
  BY <1>3, <1>4

\* Only ReadNumber gives a transaction its number.
LEMMA NumberRead ==
    ASSUME TxInv, Next, NEW u \in Tx, tx'[u].pc \in {"insert", "run"}, tx'[u].new # None
    PROVE  \/ /\ tx[u].pc \in {"insert", "run"} /\ tx'[u].new = tx[u].new /\ tx'[u].row = tx[u].row
           \/ /\ NextPaymentNumberSequence(tx[u].row.type, tx'[u].row.number)
              /\ tx'[u].row.type = tx[u].row.type /\ pay' = pay
<1> DEFINE Same == tx[u].pc \in {"insert", "run"} /\ tx'[u].new = tx[u].new /\ tx'[u].row = tx[u].row
           Read == /\ NextPaymentNumberSequence(tx[u].row.type, tx'[u].row.number)
                   /\ tx'[u].row.type = tx[u].row.type /\ pay' = pay
<1>0. tx \in [Tx -> Transactions] /\ tx[u] \in Transactions /\ Idle.pc = "idle"
  BY DEF TxInv, TxTypeOK, Idle
<1>1. CASE tx'[u] = tx[u]
  BY <1>1
<1>2. CASE tx'[u] # tx[u]
  <2>1. ASSUME NEW t \in Tx, Begin(t) PROVE FALSE
    <3>1. t = u
      BY <1>0, <1>2, <2>1 DEF Begin, BeginCreate, BeginReverse, BeginAllocate
    <3>2. CASE BeginCreate(u)
      <4>1. PICK p \in Payments, row \in PaymentRequests :
              \E order \in SetToSeqs(Targets(row.alloc)) :
                 tx' = [tx EXCEPT ![u] = [Idle EXCEPT !.op = "create", !.pc = "number",
                                                      !.new = p, !.row = row, !.order = order]]
        BY <3>2 DEF BeginCreate
      <4>2. PICK order :
                 tx' = [tx EXCEPT ![u] = [Idle EXCEPT !.op = "create", !.pc = "number",
                                                      !.new = p, !.row = row, !.order = order]]
        BY <4>1
      <4> QED
        BY <1>0, <4>2 DEF Idle
    <3>3. CASE BeginReverse(u)
      BY <1>0, <3>3 DEF BeginReverse, Idle
    <3>4. CASE BeginAllocate(u)
      BY <1>0, <3>4 DEF BeginAllocate, Idle
    <3> QED
      BY <2>1, <3>1, <3>2, <3>3, <3>4 DEF Begin
  <2>2. ASSUME NEW t \in Tx, Rollback(t) PROVE FALSE
    BY <1>0, <1>2, <2>2 DEF Rollback
  <2>3. ASSUME NEW t \in Tx, Statement(t) PROVE Same \/ Read
    <3>1. CASE LockForReverse(t)
      <4> DEFINE p == tx[t].target
                 o == ReversalOf(p, pay[p])
      <4>1. PICK order : tx' = [tx EXCEPT ![t].pc = "number", ![t].order = order, ![t].row = o]
        BY <2>2, <3>1 DEF LockForReverse
      <4> HIDE DEF o
      <4>2. t = u /\ tx'[t].pc = "number"
        BY <1>0, <1>2, <4>1 DEF Transactions
      <4> QED
        BY <4>2
    <3>2. CASE LockForAllocate(t)
      <4>1. CASE tx' = [tx EXCEPT ![t].pc = "run"]
        <5>1. t = u /\ tx'[u].new = tx[u].new /\ tx[t].op = "allocate"
          BY <1>0, <1>2, <3>2, <4>1 DEF LockForAllocate, Transactions
        <5>2. tx[u].new = None
          BY <5>1 DEF TxInv, AllocateOK
        <5> QED
          BY <5>1, <5>2
      <4> QED
        BY <2>2, <3>2, <4>1 DEF LockForAllocate
    <3>3. CASE ReadNumber(t)
      <4>1. PICK n \in Numbers :
              /\ NextPaymentNumberSequence(tx[t].row.type, n)
              /\ tx' = [tx EXCEPT ![t].pc = "insert", ![t].row.number = n]
        BY <3>3 DEF ReadNumber
      <4>2. t = u /\ pay' = pay
        BY <1>0, <1>2, <3>3, <4>1 DEF ReadNumber, stateVars
      <4>3. tx'[u].row = [tx[u].row EXCEPT !.number = n] /\ tx[u].row \in Payment
        BY <1>0, <4>1, <4>2 DEF Transactions
      <4>4. tx'[u].row.number = n /\ tx'[u].row.type = tx[u].row.type
        BY <4>3 DEF Payment
      <4> QED
        BY <4>1, <4>2, <4>4
    <3>4. CASE InsertPayment(t)
      <4>1. CASE tx' = [tx EXCEPT ![t].pc = "run"]
        BY <1>0, <1>2, <3>4, <4>1 DEF InsertPayment, Transactions
      <4> QED
        BY <2>2, <3>4, <4>1 DEF InsertPayment
    <3>5. CASE InsertAllocation(t)
      BY <1>0, <1>2, <3>5 DEF InsertAllocation, Inserting, Transactions
    <3>6. CASE RecordPayment(t)
      <4> DEFINE i == NextInvoice(t)
                 computed == calculatePaymentUpdate(inv[i], Total[i], Sign(t) * tx[t].row.alloc[i], i \in pastDue)
      <4>1. CASE tx' = [tx EXCEPT ![t].step = @ + 1, ![t].invoice[i] = computed]
        <5> HIDE DEF computed, i
        <5>1. t = u /\ tx[t].pc = "run"
          BY <1>0, <1>2, <3>6, <4>1 DEF RecordPayment, Recording
        <5> QED
          BY <1>0, <4>1, <5>1 DEF Transactions
      <4> QED
        BY <2>2, <3>6, <4>1 DEF RecordPayment
    <3>7. CASE Commit(t)
      BY <1>0, <1>2, <3>7 DEF Commit
    <3> QED
      BY <2>3, <3>1, <3>2, <3>3, <3>4, <3>5, <3>6, <3>7 DEF Statement
  <2>4. ASSUME \/ \E s \in Senders : SendWrite(s)
               \/ \E i \in Invoices : VoidInvoice(i)
               \/ UpdateOverdueStatus \/ OtherStep
        PROVE  FALSE
    BY <1>2, <2>4 DEF SendWrite, VoidInvoice, UpdateOverdueStatus, OtherStep
  <2> QED
    BY <2>1, <2>2, <2>3, <2>4 DEF Next, Fail, DeadlockVictim
<1> QED
  BY <1>1, <1>2

LEMMA OthersKeepPayments ==
    ASSUME TxInv, Next, \A t \in Tx : ~Commit(t)
    PROVE  pay' = pay
<1>1. ASSUME NEW t \in Tx, Begin(t) \/ Fail(t) \/ DeadlockVictim(t) PROVE pay' = pay
  BY <1>1 DEF Begin, BeginCreate, BeginReverse, BeginAllocate, Fail, DeadlockVictim, Rollback, stateVars
<1>2. ASSUME NEW t \in Tx, Statement(t) PROVE pay' = pay
  BY <1>2 DEF Statement, LockForReverse, LockForAllocate, ReadNumber, InsertPayment,
              InsertAllocation, RecordPayment, Rollback, stateVars
<1>3. ASSUME \/ \E s \in Senders : SendWrite(s)
             \/ \E i \in Invoices : VoidInvoice(i)
             \/ UpdateOverdueStatus \/ OtherStep
      PROVE  pay' = pay
  BY <1>3 DEF SendWrite, VoidInvoice, UpdateOverdueStatus, OtherStep, R!SendWrite, R!VoidInvoice,
              R!UpdateOverdueStatus, R!SendCrash, R!SendRead, R!DueDatePasses
<1> QED
  BY <1>1, <1>2, <1>3 DEF Next

LEMMA NumbersStep ==
    ASSUME TxInv, NumbersInv, Next
    PROVE  NumbersInv'
<1>1. NumbersDense' /\ \A type : UsedNumbers(type) \subseteq UsedNumbers(type)'
  <2>1. CASE \E t \in Tx : Commit(t)
    BY <2>1, CommitNumbers
  <2>2. CASE \A t \in Tx : ~Commit(t)
    <3>1. pay' = pay
      BY <2>2, OthersKeepPayments
    <3> QED
      BY <3>1 DEF NumbersInv, NumbersDense, UsedNumbers, Exists
  <2> QED
    BY <2>1, <2>2
<1>2. ASSUME NEW u \in Tx PROVE Follows(u)'
  <2> DEFINE now(type) == {pay'[p].number : p \in {q \in Payments : Exists(q)' /\ pay'[q].type = type}}
             n == tx'[u].row.number
  <2> SUFFICES ASSUME tx'[u].pc \in {"insert", "run"}, tx'[u].new # None
               PROVE  n = 1 \/ n - 1 \in now(tx'[u].row.type)
    BY DEF Follows, UsedNumbers
  <2>1. \A type : UsedNumbers(type) \subseteq now(type)
    BY <1>1 DEF UsedNumbers
  <2>2. CASE tx[u].pc \in {"insert", "run"} /\ tx'[u].new = tx[u].new /\ tx'[u].row = tx[u].row
    <3>1. n = 1 \/ n - 1 \in UsedNumbers(tx'[u].row.type)
      BY <2>2 DEF NumbersInv, Follows
    <3> HIDE DEF now
    <3> QED
      BY <2>1, <3>1
  <2>3. CASE /\ NextPaymentNumberSequence(tx[u].row.type, tx'[u].row.number)
             /\ tx'[u].row.type = tx[u].row.type
    <3>1. n = 1 \/ n - 1 \in UsedNumbers(tx'[u].row.type)
      BY <2>3 DEF NextPaymentNumberSequence
    <3> HIDE DEF now
    <3> QED
      BY <2>1, <3>1
  <2> QED
    BY <2>2, <2>3, NumberRead
<1> QED
  BY <1>1, <1>2 DEF NumbersInv

\* Two payments of a type never share a number and none is skipped, although
\* MAX + 1 is read without a lock and a transaction may fail after it
\* (payments/repository_gorm.go:257).
THEOREM NumbersFollow == Spec => []NumbersDense
<1>1. Init => NumbersInv
  <2> SUFFICES ASSUME Init PROVE NumbersInv
    OBVIOUS
  <2>1. \A p \in Payments : ~Exists(p)
    BY DEF Init, R!Init, R!NoPayment, Exists
  <2>2. \A type : {p \in Payments : Exists(p) /\ pay[p].type = type} = {} /\ UsedNumbers(type) = {}
    BY <2>1 DEF UsedNumbers
  <2>3. NumbersDense
    <3>1. 1..Cardinality({}) = {}
      BY FS_EmptySet
    <3> QED
      BY <2>2, <3>1 DEF NumbersDense
  <2>4. \A t \in Tx : Follows(t)
    BY DEF Init, Follows, Idle
  <2> QED
    BY <2>3, <2>4 DEF NumbersInv
<1>2. TxInv /\ NumbersInv /\ [Next]_vars => NumbersInv'
  <2> SUFFICES ASSUME TxInv, NumbersInv, [Next]_vars PROVE NumbersInv'
    OBVIOUS
  <2>1. CASE UNCHANGED vars
    BY <2>1 DEF vars, stateVars, NumbersInv, NumbersDense, Follows, UsedNumbers, Exists
  <2> QED
    BY <2>1, NumbersStep
<1>3. NumbersInv => NumbersDense
  BY DEF NumbersInv
<1> QED
  BY <1>1, <1>2, <1>3, TransactionsIsolated, PTL DEF Spec
=============================================================================
