---------------------------- MODULE BankingProofs ----------------------------
(***************************************************************************)
(* For any statement, any number of bank transactions, payments, invoices  *)
(* and clerks: rows keep their types, matches stand, no payment is left    *)
(* over.  With one importer no transaction is imported twice, and with one *)
(* auto-matcher no payment is matched twice without a clerk naming it.     *)
(* What banking does to payments are steps of Receivables.                 *)
(*                                                                         *)
(* BankInv adds to the type invariant what a request that is under way has *)
(* read: rows that are imported and payments that exist stay so.           *)
(***************************************************************************)
EXTENDS Banking, SumTheorems

RequestOK(c) ==
    /\ clerk[c].step = "insert" => clerk[c].line \in Lines
    /\ clerk[c].step \in {"create", "pick"} => clerk[c].row \in Imported
    /\ clerk[c].step = "pick" => clerk[c].payment \in Payments /\ Exists(clerk[c].payment)
    /\ clerk[c].rows \subseteq Imported
    /\ clerk[c].step \in {"import", "insert"} => c \in Importers
    /\ clerk[c].step \in {"auto", "pick"} => c \in Matchers

BankInv == BankTypeOK /\ \A c \in Clerks : RequestOK(c)

-----------------------------------------------------------------------------
(* Payments *)

\* The instance and this module define the same operators.
LEMMA SameOperators ==
    /\ R!PaymentRequests = PaymentRequests
    /\ \A p : R!Exists(p) <=> Exists(p)
    /\ \A p, row : R!ReversalOf(p, row) = ReversalOf(p, row)
    /\ \A row, total, amount, late :
          R!calculatePaymentUpdate(row, total, amount, late)
              = calculatePaymentUpdate(row, total, amount, late)
<1>1. /\ \A p : R!Exists(p) <=> Exists(p)
      /\ \A p, row : R!ReversalOf(p, row) = ReversalOf(p, row)
  BY DEF R!Exists, Exists, R!ReversalOf, ReversalOf, R!reversePaymentType, reversePaymentType
<1>2. R!PaymentRequests = PaymentRequests
  <2>1. \A row : R!UnallocatedAmount(row) = UnallocatedAmount(row)
    BY DEF R!UnallocatedAmount, UnallocatedAmount, R!SumFunction, SumFunction,
           R!SumFunctionOnSet, SumFunctionOnSet, R!FoldFunctionOnSet, FoldFunctionOnSet,
           R!MapThenFoldSet, MapThenFoldSet
  <2> QED
    BY <2>1 DEF R!PaymentRequests, PaymentRequests, R!PaymentTypes, PaymentTypes
<1>3. \A row, total, amount, late :
          R!calculatePaymentUpdate(row, total, amount, late)
              = calculatePaymentUpdate(row, total, amount, late)
  BY DEF R!calculatePaymentUpdate, calculatePaymentUpdate,
         R!unpaidInvoiceStatusAt, unpaidInvoiceStatusAt
<1> QED
  BY <1>1, <1>2, <1>3

LEMMA RequestType == PaymentRequests \subseteq Payment
<1> SUFFICES ASSUME NEW row \in PaymentRequests PROVE row \in Payment
  OBVIOUS
<1>1. /\ row \in [type : PaymentTypes, number : {0}, amount : Amounts,
                  alloc : [Invoices -> Amounts \union {0}],
                  reversalOf : {None}, reversedBy : {None}]
      /\ Amounts \union {0} \subseteq Nat
  BY AmountsAssumption DEF PaymentRequests
<1>2. row.alloc \in [Invoices -> Nat]
  BY <1>1
<1> QED
  BY <1>1, <1>2 DEF Payment

\* Recording payments keeps invoice rows.
LEMMA RecordingType ==
    ASSUME TypeOK, NEW alloc \in [Invoices -> Nat], NEW sign \in {-1, 1},
           R!RecordPayments(alloc, sign)
    PROVE  inv' \in [Invoices -> Invoice]
<1>1. PICK late \in SUBSET pastDue :
         inv' = [i \in Invoices |->
                   IF i \in R!Targets(alloc)
                   THEN calculatePaymentUpdate(inv[i], Total[i], sign * alloc[i], i \in late)
                   ELSE inv[i]]
  BY SameOperators DEF R!RecordPayments
<1>2. ASSUME NEW i \in Invoices
      PROVE  /\ inv[i] \in Invoice
             /\ \A isLate : calculatePaymentUpdate(inv[i], Total[i], sign * alloc[i], isLate) \in Invoice
  <2>1. inv[i] \in Invoice /\ Total[i] \in Nat /\ sign * alloc[i] \in Int
    BY TotalAssumption DEF TypeOK
  <2> QED
    BY <2>1 DEF calculatePaymentUpdate, unpaidInvoiceStatusAt, Invoice, InvoiceStatuses
<1> QED
  BY <1>1, <1>2

\* A payment operation keeps the rows' types, and the payments there are.
LEMMA PaymentsStay ==
    ASSUME TypeOK, R!PaymentNext
    PROVE  TypeOK' /\ \A p \in Payments : Exists(p) => Exists(p)'
<1> DEFINE Goal == TypeOK' /\ \A p \in Payments : Exists(p) => Exists(p)'
<1>0. /\ pay \in [Payments -> Payment] /\ pastDue \subseteq Invoices
      /\ sending \in [Senders -> Invoices \union {None}]
  BY DEF TypeOK
<1>1. ASSUME NEW p \in Payments, NEW request \in PaymentRequests,
             NEW row \in R!NumberedRows(request), R!CreatePayment(p, row)
      PROVE  Goal
  <2>1. request \in Payment /\ row \in Payment
    BY RequestType, NumbersAssumption DEF R!NumberedRows, Payment
  <2>2. /\ ~Exists(p) /\ pay' = [pay EXCEPT ![p] = row] /\ R!RecordPayments(row.alloc, 1)
        /\ UNCHANGED <<pastDue, sending>>
    BY <1>1, SameOperators DEF R!CreatePayment
  <2>3. inv' \in [Invoices -> Invoice]
    BY <2>1, <2>2, RecordingType DEF Payment
  <2> QED
    BY <1>0, <2>1, <2>2, <2>3 DEF TypeOK, Exists
<1>2. ASSUME NEW p \in Payments, NEW q \in Payments,
             NEW row \in R!NumberedRows(ReversalOf(p, pay[p])), R!ReversePayment(p, q, row)
      PROVE  Goal
  <2>1. row \in Payment
    BY ZenonT(30), <1>0, NumbersAssumption
    DEF R!NumberedRows, ReversalOf, reversePaymentType, Payment, PaymentTypes
  <2>2. /\ ~Exists(q) /\ Exists(p) /\ pay' = [pay EXCEPT ![p].reversedBy = q, ![q] = row]
        /\ R!RecordPayments(row.alloc, -1)
        /\ UNCHANGED <<pastDue, sending>>
    BY <1>2, SameOperators DEF R!ReversePayment
  <2>3. inv' \in [Invoices -> Invoice]
    BY <2>1, <2>2, RecordingType DEF Payment
  <2>4. p # q /\ pay'[q] = row /\ pay'[p] = [pay[p] EXCEPT !.reversedBy = q]
        /\ \A a \in Payments \ {p, q} : pay'[a] = pay[a]
    BY <1>0, <2>2
  <2>5. [pay[p] EXCEPT !.reversedBy = q] \in Payment /\ pay'[p].number = pay[p].number
    BY <1>0, <2>4 DEF Payment
  <2>6. pay' \in [Payments -> Payment]
    BY <1>0, <2>1, <2>2, <2>4, <2>5
  <2> QED
    BY <1>0, <2>2, <2>3, <2>4, <2>5, <2>6 DEF TypeOK, Exists
<1>3. ASSUME NEW p \in Payments, NEW i \in Invoices, NEW amount \in Amounts,
             R!AllocateToInvoice(p, i, amount)
      PROVE  Goal
  <2>1. /\ pay' = [pay EXCEPT ![p].alloc[i] = @ + amount]
        /\ R!RecordPayments([NoAllocations EXCEPT ![i] = amount], 1)
        /\ UNCHANGED <<pastDue, sending>>
    BY <1>3 DEF R!AllocateToInvoice, R!NoAllocations, NoAllocations
  <2>2. amount \in Nat /\ [NoAllocations EXCEPT ![i] = amount] \in [Invoices -> Nat]
    BY AmountsAssumption DEF NoAllocations
  <2>3. inv' \in [Invoices -> Invoice]
    BY <2>1, <2>2, RecordingType
  <2>4. pay[p].alloc \in [Invoices -> Nat]
    BY <1>0 DEF Payment
  <2>5. [pay[p].alloc EXCEPT ![i] = @ + amount] \in [Invoices -> Nat]
    BY <2>2, <2>4
  <2>6. pay' \in [Payments -> Payment] /\ \A a \in Payments : pay'[a].number = pay[a].number
    BY <1>0, <2>1, <2>5 DEF Payment
  <2> QED
    BY <1>0, <2>1, <2>3, <2>6 DEF TypeOK, Exists
<1> QED
  BY <1>1, <1>2, <1>3, SameOperators DEF R!PaymentNext

-----------------------------------------------------------------------------
(* Bank transactions *)

\* What a request has read stays true when no row is withdrawn.
LEMMA RequestsStay ==
    ASSUME BankInv, clerk' \in [Clerks -> Requests],
           Imported \subseteq Imported', \A p \in Payments : Exists(p) => Exists(p)',
           \A d \in Clerks : clerk'[d] = clerk[d] \/ RequestOK(d)'
    PROVE  \A d \in Clerks : RequestOK(d)'
<1> SUFFICES ASSUME NEW d \in Clerks, clerk'[d] = clerk[d] PROVE RequestOK(d)'
  OBVIOUS
<1>1. clerk'[d] = clerk[d] /\ RequestOK(d)
  BY DEF BankInv
<1> QED
  BY <1>1 DEF RequestOK

\* Requests that only read.
LEMMA ReaderKeeps ==
    ASSUME BankInv, UNCHANGED <<stateVars, bankVars, made>>, NEW c \in Clerks,
           NEW request \in Requests, ClerkStep(c, request), RequestOK(c)'
    PROVE  BankInv'
<1>1. clerk' \in [Clerks -> Requests] /\ \A d \in Clerks \ {c} : clerk'[d] = clerk[d]
  BY DEF BankInv, BankTypeOK, ClerkStep
<1>2. Imported' = Imported /\ \A p \in Payments : Exists(p)' <=> Exists(p)
  BY DEF Imported, Exists, stateVars, bankVars
<1>3. TypeOK'
  BY DEF BankInv, BankTypeOK, TypeOK, stateVars
<1>4. BankTypeOK'
  <2>1. /\ bank' = bank /\ recon' = recon /\ made' = made
        /\ bank \in [BankRows -> BankRow] /\ BankTypeOK
    BY DEF BankInv, BankTypeOK, bankVars
  <2>2. ASSUME NEW b \in BankRows, bank[b].payment # None
        PROVE  Exists(bank[b].payment)'
    BY <1>2, <2>1, <2>2 DEF BankTypeOK, BankRow
  <2> QED
    BY <1>1, <1>2, <1>3, <2>1, <2>2 DEF BankTypeOK
<1> QED
  BY <1>1, <1>2, <1>4, RequestsStay DEF BankInv

LEMMA NoRequestType == NoRequest \in Requests
BY DEF NoRequest, Requests

LEMMA GoesType ==
    ASSUME NEW request \in Requests
    PROVE  Goes(request) \in Requests /\ Goes(request) \in {NoRequest, request}
BY NoRequestType DEF Goes

LEMMA ReadersKeep ==
    ASSUME BankInv, NEW c \in Clerks,
           \/ \E lines \in Files, skip \in BOOLEAN : StartImport(c, lines, skip)
           \/ \E l \in Lines : LeaveOut(c, l) \/ CheckLine(c, l)
           \/ StartAutoMatch(c)
           \/ \E b \in BankRows, p \in Payments : PickMatch(c, b, p)
           \/ \E b \in BankRows : NoMatch(c, b) \/ StartCreate(c, b)
           \/ Fail(c)
    PROVE  BankInv' /\ UNCHANGED <<stateVars, bankVars, made>>
<1>0. clerk[c] \in Requests /\ clerk \in [Clerks -> Requests] /\ RequestOK(c)
  BY DEF BankInv, BankTypeOK
<1>1. ASSUME NEW lines \in Files, NEW skip \in BOOLEAN, StartImport(c, lines, skip)
      PROVE  BankInv' /\ UNCHANGED <<stateVars, bankVars, made>>
  <2> DEFINE request == [NoRequest EXCEPT !.step = "import", !.lines = lines, !.skip = skip]
  <2>1. request \in Requests /\ request.step = "import" /\ request.rows = {}
    BY LinesAssumption DEF NoRequest, Requests
  <2>2. c \in Importers /\ ClerkStep(c, request) /\ UNCHANGED <<stateVars, bankVars, made>>
    BY <1>1 DEF StartImport
  <2>3. clerk'[c] = request
    BY <1>0, <2>2 DEF ClerkStep
  <2> HIDE DEF request
  <2>4. RequestOK(c)'
    BY <2>1, <2>2, <2>3 DEF RequestOK, Imported, bankVars
  <2> QED
    BY <2>1, <2>2, <2>4, ReaderKeeps
<1>2. ASSUME NEW l \in Lines, LeaveOut(c, l)
      PROVE  BankInv' /\ UNCHANGED <<stateVars, bankVars, made>>
  <2> DEFINE read == [clerk[c] EXCEPT !.lines = @ \ {l}]
             request == Goes(read)
  <2>1. /\ read \in Requests /\ read.step = "import" /\ clerk[c].step = "import"
        /\ read.rows = clerk[c].rows
    BY <1>0, <1>2 DEF Requests, LeaveOut
  <2>2. ClerkStep(c, request) /\ UNCHANGED <<stateVars, bankVars, made>>
    BY <1>2 DEF LeaveOut
  <2>3. clerk'[c] = request
    BY <1>0, <2>2 DEF ClerkStep
  <2>4. request \in Requests /\ request \in {NoRequest, read}
    BY <2>1, GoesType
  <2> HIDE DEF request, read
  <2>5. request.step \in {"idle", "import"} /\ request.rows \subseteq Imported
    BY <1>0, <2>1, <2>4 DEF NoRequest, RequestOK
  <2>6. RequestOK(c)'
    BY <1>0, <2>1, <2>2, <2>3, <2>5 DEF RequestOK, Imported, bankVars
  <2> QED
    BY <2>2, <2>4, <2>6, ReaderKeeps
<1>3. ASSUME NEW l \in Lines, CheckLine(c, l)
      PROVE  BankInv' /\ UNCHANGED <<stateVars, bankVars, made>>
  <2> DEFINE request == [clerk[c] EXCEPT !.step = "insert", !.lines = @ \ {l}, !.line = l]
  <2>1. request \in Requests /\ request.step = "insert" /\ request.line = l /\ clerk[c].step = "import"
        /\ request.rows = clerk[c].rows
    BY <1>0, <1>3 DEF Requests, CheckLine
  <2>2. ClerkStep(c, request) /\ UNCHANGED <<stateVars, bankVars, made>>
    BY <1>3 DEF CheckLine
  <2>3. clerk'[c] = request
    BY <1>0, <2>2 DEF ClerkStep
  <2> HIDE DEF request
  <2>4. RequestOK(c)'
    BY <1>0, <2>1, <2>2, <2>3 DEF RequestOK, Imported, bankVars
  <2> QED
    BY <2>1, <2>2, <2>4, ReaderKeeps
<1>4. CASE StartAutoMatch(c)
  <2> DEFINE request == [NoRequest EXCEPT !.step = "auto", !.rows = Unmatched]
  <2>1. request \in Requests /\ request.step = "auto" /\ request.rows \subseteq Imported
    BY DEF NoRequest, Requests, Unmatched, Imported
  <2>2. c \in Matchers /\ ClerkStep(c, request) /\ UNCHANGED <<stateVars, bankVars, made>>
    BY <1>4 DEF StartAutoMatch
  <2>3. clerk'[c] = request
    BY <1>0, <2>2 DEF ClerkStep
  <2> HIDE DEF request
  <2>4. RequestOK(c)'
    BY <2>1, <2>2, <2>3 DEF RequestOK, Imported, bankVars
  <2> QED
    BY <2>1, <2>2, <2>4, ReaderKeeps
<1>5. ASSUME NEW b \in BankRows, NEW p \in Payments, PickMatch(c, b, p)
      PROVE  BankInv' /\ UNCHANGED <<stateVars, bankVars, made>>
  <2> DEFINE request == [clerk[c] EXCEPT !.step = "pick", !.rows = @ \ {b}, !.row = b, !.payment = p]
  <2>1. /\ request \in Requests /\ request.step = "pick" /\ request.row = b /\ request.payment = p
        /\ clerk[c].step = "auto" /\ request.rows \subseteq clerk[c].rows
    BY <1>0, <1>5 DEF Requests, PickMatch
  <2>2. ClerkStep(c, request) /\ UNCHANGED <<stateVars, bankVars, made>>
    BY <1>5 DEF PickMatch
  <2>3. clerk'[c] = request
    BY <1>0, <2>2 DEF ClerkStep
  <2>4. Exists(p) /\ b \in Imported
    BY <1>0, <1>5 DEF PickMatch, ListPaymentMatchCandidates, RequestOK
  <2> HIDE DEF request
  <2>5. RequestOK(c)'
    BY <1>0, <2>1, <2>2, <2>3, <2>4 DEF RequestOK, Imported, Exists, stateVars, bankVars
  <2> QED
    BY <2>1, <2>2, <2>5, ReaderKeeps
<1>6. ASSUME NEW b \in BankRows, NoMatch(c, b)
      PROVE  BankInv' /\ UNCHANGED <<stateVars, bankVars, made>>
  <2> DEFINE read == [clerk[c] EXCEPT !.rows = @ \ {b}]
             request == Goes(read)
  <2>1. /\ read \in Requests /\ read.step = "auto" /\ clerk[c].step = "auto"
        /\ read.rows \subseteq clerk[c].rows
    BY <1>0, <1>6 DEF Requests, NoMatch
  <2>2. ClerkStep(c, request) /\ UNCHANGED <<stateVars, bankVars, made>>
    BY <1>6 DEF NoMatch
  <2>3. clerk'[c] = request
    BY <1>0, <2>2 DEF ClerkStep
  <2>4. request \in Requests /\ request \in {NoRequest, read}
    BY <2>1, GoesType
  <2> HIDE DEF request, read
  <2>5. request.step \in {"idle", "auto"} /\ request.rows \subseteq Imported
    BY <1>0, <2>1, <2>4 DEF NoRequest, RequestOK
  <2>6. RequestOK(c)'
    BY <1>0, <2>1, <2>2, <2>3, <2>5 DEF RequestOK, Imported, bankVars
  <2> QED
    BY <2>2, <2>4, <2>6, ReaderKeeps
<1>7. ASSUME NEW b \in BankRows, StartCreate(c, b)
      PROVE  BankInv' /\ UNCHANGED <<stateVars, bankVars, made>>
  <2> DEFINE request == [NoRequest EXCEPT !.step = "create", !.row = b]
  <2>1. request \in Requests /\ request.step = "create" /\ request.row = b /\ request.rows = {}
    BY DEF NoRequest, Requests
  <2>2. b \in Imported /\ ClerkStep(c, request) /\ UNCHANGED <<stateVars, bankVars, made>>
    BY <1>7 DEF StartCreate, Unmatched, Imported
  <2>3. clerk'[c] = request
    BY <1>0, <2>2 DEF ClerkStep
  <2> HIDE DEF request
  <2>4. RequestOK(c)'
    BY <2>1, <2>2, <2>3 DEF RequestOK, Imported, bankVars
  <2> QED
    BY <2>1, <2>2, <2>4, ReaderKeeps
<1>8. CASE Fail(c)
  <2>1. ClerkStep(c, NoRequest) /\ UNCHANGED <<stateVars, bankVars, made>>
    BY <1>8 DEF Fail
  <2>2. clerk'[c] = NoRequest
    BY <1>0, <2>1 DEF ClerkStep
  <2>3. RequestOK(c)'
    BY <2>2 DEF RequestOK, NoRequest
  <2> QED
    BY <2>1, <2>3, NoRequestType, ReaderKeeps
<1> QED
  BY <1>1, <1>2, <1>3, <1>4, <1>5, <1>6, <1>7, <1>8

-----------------------------------------------------------------------------
(* Steps that write bank transactions *)

RowOK(b) ==
    /\ bank[b] \in BankRow
    /\ bank[b].payment # None <=> bank[b].status \in {"MATCHED", "RECONCILED"}
    /\ bank[b].payment # None => Exists(bank[b].payment)
    /\ bank[b].line # None <=> bank[b].status # "NONE"

LEMMA RowsOK == BankInv => \A b \in BankRows : RowOK(b)
BY DEF BankInv, BankTypeOK, RowOK, Imported

\* A step that changes one row and one request.
LEMMA WriterKeeps ==
    ASSUME BankInv, NEW b \in BankRows, NEW row \in BankRow, bank' = [bank EXCEPT ![b] = row],
           row.payment # None <=> row.status \in {"MATCHED", "RECONCILED"},
           row.payment # None => Exists(row.payment)',
           row.line # None, row.status # "NONE",
           TypeOK', \A p \in Payments : Exists(p) => Exists(p)',
           made' \in [Payments -> BankRows \union {None}], recon' = recon,
           clerk' \in [Clerks -> Requests],
           \A d \in Clerks : clerk'[d] = clerk[d] \/ RequestOK(d)'
    PROVE  BankInv' /\ Imported' = Imported \union {b}
<1>1. /\ bank \in [BankRows -> BankRow] /\ clerk \in [Clerks -> Requests]
      /\ recon \in [Reconciliations -> {"NONE", "IN_PROGRESS", "COMPLETED"}]
  BY DEF BankInv, BankTypeOK
<1>2. /\ bank' \in [BankRows -> BankRow] /\ bank'[b] = row
      /\ \A a \in BankRows \ {b} : bank'[a] = bank[a]
  BY <1>1
<1>3. Imported' = Imported \union {b}
  BY <1>1, <1>2 DEF Imported
<1>4. ASSUME NEW a \in BankRows
      PROVE  RowOK(a)'
  <2>1. CASE a = b
    BY <1>2, <2>1 DEF RowOK
  <2>2. CASE a # b
    <3>1. RowOK(a) /\ bank'[a] = bank[a]
      BY <1>2, <2>2, RowsOK
    <3>2. bank[a].payment # None => Exists(bank[a].payment)'
      BY <3>1 DEF RowOK, BankRow
    <3> QED
      BY <3>1, <3>2 DEF RowOK
  <2> QED
    BY <2>1, <2>2
<1>7. BankTypeOK'
  BY <1>1, <1>2, <1>4 DEF BankTypeOK, RowOK, Imported
<1> QED
  BY <1>3, <1>7, RequestsStay DEF BankInv

\* The row that matching leaves.
LEMMA LinkedRow ==
    ASSUME BankInv, NEW b \in Unmatched, NEW p \in Payments, NEW by \in {"clerk", "program"}
    PROVE  \E row \in BankRow :
              /\ LinkedTo(b, p, by) = [bank EXCEPT ![b] = row]
              /\ row.payment = p /\ row.status = "MATCHED" /\ row.line # None
              /\ row.by = by /\ row.line = bank[b].line /\ row.skipped = bank[b].skipped
<1> DEFINE row == [bank[b] EXCEPT !.status = "MATCHED", !.payment = p, !.by = by]
<1>1. b \in BankRows /\ RowOK(b) /\ bank[b].status = "UNMATCHED"
  BY RowsOK DEF Unmatched
<1>2. row \in BankRow /\ row.line = bank[b].line /\ bank[b].line # None /\ row.skipped = bank[b].skipped
  BY <1>1 DEF RowOK, BankRow
<1>3. LinkedTo(b, p, by) = [bank EXCEPT ![b] = row]
  BY <1>1 DEF LinkedTo, BankInv, BankTypeOK
<1>4. row.payment = p /\ row.status = "MATCHED" /\ row.by = by
  BY <1>1 DEF RowOK, BankRow
<1> QED
  BY <1>2, <1>3, <1>4

LEMMA SamePayments ==
    ASSUME BankInv, UNCHANGED stateVars
    PROVE  TypeOK' /\ \A p \in Payments : Exists(p)' <=> Exists(p)
BY DEF BankInv, BankTypeOK, TypeOK, stateVars, Exists

LEMMA InsertKeeps ==
    ASSUME BankInv, NEW c \in Clerks, NEW b \in BankRows, CreateTransaction(c, b)
    PROVE  BankInv'
<1> DEFINE row == [NoRow EXCEPT !.line = clerk[c].line, !.status = "UNMATCHED",
                                !.skipped = clerk[c].skip]
           read == [clerk[c] EXCEPT !.step = "import", !.line = None]
           request == Goes(read)
<1>1. /\ clerk[c] \in Requests /\ clerk \in [Clerks -> Requests] /\ RequestOK(c)
      /\ clerk[c].step = "insert"
  BY DEF BankInv, BankTypeOK, CreateTransaction
<1>2. clerk[c].line \in Lines /\ clerk[c].line # None /\ c \in Importers
  BY <1>1, BankNoneAssumption DEF RequestOK
<1>3. row \in BankRow /\ row.payment = None /\ row.status = "UNMATCHED" /\ row.line # None
  BY <1>1, <1>2 DEF NoRow, BankRow, Requests
<1>4. read \in Requests /\ read.step = "import" /\ read.rows = clerk[c].rows
  BY <1>1 DEF Requests
<1>5. /\ bank' = [bank EXCEPT ![b] = row] /\ clerk' = [clerk EXCEPT ![c] = request]
      /\ UNCHANGED <<stateVars, recon, made>>
  BY DEF CreateTransaction, ClerkStep
<1>6. request \in Requests /\ request \in {NoRequest, read}
  BY <1>4, GoesType
<1> HIDE DEF request, read, row
<1>7. request.step \in {"idle", "import"} /\ request.rows \subseteq Imported
  BY <1>1, <1>4, <1>6 DEF NoRequest, RequestOK
<1>8. RequestOK(c)'
  <2>1. clerk'[c] = request
    BY <1>1, <1>5
  <2>2. Imported \subseteq Imported'
    BY <1>3, <1>5 DEF Imported, BankInv, BankTypeOK
  <2> QED
    BY <1>2, <1>7, <2>1, <2>2 DEF RequestOK
<1>9. TypeOK' /\ (\A p \in Payments : Exists(p)' <=> Exists(p)) /\ recon' = recon
      /\ made' \in [Payments -> BankRows \union {None}]
  BY <1>5, SamePayments DEF BankInv, BankTypeOK
<1> QED
  BY <1>1, <1>3, <1>5, <1>6, <1>8, <1>9, WriterKeeps

LEMMA MatchKeeps ==
    ASSUME BankInv, NEW b \in BankRows, NEW p \in Payments, MatchTransaction(b, p)
    PROVE  BankInv'
<1>1. /\ b \in Unmatched /\ Exists(p) /\ bank' = LinkedTo(b, p, "clerk")
      /\ UNCHANGED <<stateVars, recon, clerk, made>>
  BY DEF MatchTransaction, Matchable
<1>2. PICK row \in BankRow : /\ bank' = [bank EXCEPT ![b] = row]
                             /\ row.payment = p /\ row.status = "MATCHED" /\ row.line # None
  BY <1>1, LinkedRow
<1>3. /\ TypeOK' /\ (\A q \in Payments : Exists(q)' <=> Exists(q)) /\ recon' = recon
      /\ made' \in [Payments -> BankRows \union {None}]
  BY <1>1, SamePayments DEF BankInv, BankTypeOK
<1>4. p # None
  BY NoneAssumption
<1>5. clerk' \in [Clerks -> Requests] /\ clerk' = clerk /\ row.payment # None /\ Exists(row.payment)'
  BY <1>1, <1>2, <1>3, <1>4 DEF BankInv, BankTypeOK
<1> QED
  BY <1>2, <1>3, <1>5, WriterKeeps

LEMMA MatchPickedKeeps ==
    ASSUME BankInv, NEW c \in Clerks, MatchPicked(c)
    PROVE  BankInv'
<1> DEFINE b == clerk[c].row
           p == clerk[c].payment
           read == [clerk[c] EXCEPT !.step = "auto", !.row = None, !.payment = None]
           request == Goes(read)
<1>1. /\ clerk[c] \in Requests /\ clerk \in [Clerks -> Requests] /\ RequestOK(c)
      /\ clerk[c].step = "pick"
  BY DEF BankInv, BankTypeOK, MatchPicked
<1>2. b \in BankRows /\ p \in Payments /\ Exists(p) /\ c \in Matchers
  BY <1>1 DEF RequestOK, Imported
<1>3. read \in Requests /\ read.step = "auto" /\ read.rows = clerk[c].rows
  BY <1>1 DEF Requests
<1>4. /\ bank' = IF b \in Unmatched THEN LinkedTo(b, p, "program") ELSE bank
      /\ clerk' = [clerk EXCEPT ![c] = request] /\ clerk'[c] = request
      /\ UNCHANGED <<stateVars, recon, made>>
  BY <1>1 DEF MatchPicked, Matchable, ClerkStep
<1>5. request \in Requests /\ request \in {NoRequest, read}
  BY <1>3, GoesType
<1>6. TypeOK' /\ (\A q \in Payments : Exists(q)' <=> Exists(q)) /\ recon' = recon
      /\ made' \in [Payments -> BankRows \union {None}]
  BY <1>4, SamePayments DEF BankInv, BankTypeOK
<1> HIDE DEF request, read
<1>7. request.step \in {"idle", "auto"} /\ request.rows \subseteq Imported
  BY <1>1, <1>3, <1>5 DEF NoRequest, RequestOK
<1>8. CASE b \in Unmatched
  <2>0. bank' = LinkedTo(b, p, "program")
    BY <1>4, <1>8
  <2> HIDE DEF b, p
  <2>1. PICK row \in BankRow : /\ bank' = [bank EXCEPT ![b] = row]
                               /\ row.payment = p /\ row.status = "MATCHED" /\ row.line # None
    BY <1>2, <1>8, <2>0, LinkedRow
  <2>2. Imported \subseteq Imported'
    BY <2>1 DEF Imported, BankInv, BankTypeOK
  <2>3. RequestOK(c)'
    BY <1>2, <1>4, <1>7, <2>2 DEF RequestOK
  <2>4. row.payment # None /\ Exists(row.payment)'
    BY <1>2, <1>6, <2>1, NoneAssumption
  <2> QED
    BY <1>1, <1>2, <1>4, <1>5, <1>6, <2>1, <2>3, <2>4, WriterKeeps
<1>9. CASE b \notin Unmatched
  <2>1. UNCHANGED <<stateVars, bankVars, made>> /\ ClerkStep(c, request)
    BY <1>4, <1>9 DEF bankVars, ClerkStep
  <2>2. RequestOK(c)'
    BY <1>2, <1>4, <1>7, <2>1 DEF RequestOK, Imported, bankVars
  <2> QED
    BY <1>5, <2>1, <2>2, ReaderKeeps
<1> QED
  BY <1>8, <1>9

LEMMA NoRequestOK ==
    ASSUME NEW c \in Clerks, clerk \in [Clerks -> Requests], ClerkStep(c, NoRequest)
    PROVE  /\ clerk' \in [Clerks -> Requests]
           /\ \A d \in Clerks : clerk'[d] = clerk[d] \/ RequestOK(d)'
<1>1. clerk'[c] = NoRequest /\ \A d \in Clerks \ {c} : clerk'[d] = clerk[d]
  BY DEF ClerkStep
<1>2. RequestOK(c)'
  BY <1>1 DEF RequestOK, NoRequest
<1> QED
  BY <1>1, <1>2, NoRequestType DEF ClerkStep

LEMMA CommitCreateKeeps ==
    ASSUME BankInv, NEW c \in Clerks, NEW p \in Payments, CommitCreate(c, p)
    PROVE  BankInv'
<1> DEFINE b == clerk[c].row
           line == bank[b].line
<1>1. /\ clerk \in [Clerks -> Requests] /\ ClerkStep(c, NoRequest)
      /\ b \in Unmatched /\ bank' = LinkedTo(b, p, "program")
      /\ made' = [made EXCEPT ![p] = b]
      /\ UNCHANGED <<inv, pastDue, sending, recon>>
  BY DEF BankInv, BankTypeOK, CommitCreate, LinkOrFail
<1>2. PICK n \in Numbers : pay' = [pay EXCEPT ![p] = PaymentFrom(line, n)]
  BY DEF CommitCreate
<1>3. b \in BankRows /\ bank[b].status = "UNMATCHED" /\ RowOK(b)
  BY <1>1, RowsOK DEF Unmatched
<1>4. line \in Lines
  BY <1>3 DEF RowOK, BankRow
<1> HIDE DEF line
<1>5. PaymentFrom(line, n) \in Payment /\ PaymentFrom(line, n).number # 0
  <2>1. LineType[line] \in PaymentTypes /\ LineAmount[line] \in Nat /\ n \in Numbers /\ n # 0
    <3>1. n # 0 /\ Amounts \union {0} \subseteq Nat
      BY AmountsAssumption, NumbersAssumption
    <3>2. LineType[line] \in PaymentTypes /\ LineAmount[line] \in Amounts \union {0}
      BY <1>4, LinesAssumption
    <3> QED
      BY <3>1, <3>2
  <2>2. NoAllocations \in [Invoices -> Nat]
    BY DEF NoAllocations
  <2>3. PaymentFrom(line, n).number = n
    BY DEF PaymentFrom
  <2>4. PaymentFrom(line, n) \in Payment
    BY <2>1, <2>2 DEF PaymentFrom, Payment
  <2> QED
    BY <2>1, <2>3, <2>4
<1>6. TypeOK /\ pay \in [Payments -> Payment]
  BY DEF BankInv, BankTypeOK, TypeOK
<1>7. TypeOK' /\ Exists(p)' /\ \A q \in Payments : Exists(q) => Exists(q)'
  BY <1>1, <1>2, <1>5, <1>6 DEF TypeOK, Exists
<1> HIDE DEF b
<1>8. PICK row \in BankRow : /\ bank' = [bank EXCEPT ![b] = row]
                             /\ row.payment = p /\ row.status = "MATCHED" /\ row.line # None
  BY <1>1, LinkedRow
<1>9. made' \in [Payments -> BankRows \union {None}] /\ recon' = recon /\ row.payment # None
  BY <1>1, <1>3, <1>8, NoneAssumption DEF BankInv, BankTypeOK
<1> QED
  BY <1>1, <1>3, <1>7, <1>8, <1>9, NoRequestOK, WriterKeeps

LEMMA UnmatchKeeps ==
    ASSUME BankInv, NEW b \in BankRows, UnmatchTransaction(b)
    PROVE  BankInv'
<1> DEFINE row == [bank[b] EXCEPT !.status = "UNMATCHED", !.payment = None, !.by = "nobody"]
<1>1. /\ bank[b].status = "MATCHED" /\ RowOK(b) /\ bank \in [BankRows -> BankRow]
      /\ bank' = [bank EXCEPT ![b] = row]
  BY RowsOK DEF UnmatchTransaction, Unlinked, BankInv, BankTypeOK
<1>2. row \in BankRow /\ row.payment = None /\ row.status = "UNMATCHED" /\ row.line # None
  BY <1>1 DEF RowOK, BankRow
<1>3. UNCHANGED <<stateVars, recon, clerk>> /\ clerk' \in [Clerks -> Requests]
  BY DEF UnmatchTransaction, BankInv, BankTypeOK
<1>4. made' \in [Payments -> BankRows \union {None}]
  BY DEF UnmatchTransaction, BankInv, BankTypeOK
<1>5. TypeOK' /\ \A p \in Payments : Exists(p)' <=> Exists(p)
  BY <1>3, SamePayments
<1> HIDE DEF row
<1> QED
  BY <1>1, <1>2, <1>3, <1>4, <1>5, WriterKeeps

LEMMA AddKeeps ==
    ASSUME BankInv, NEW b \in BankRows, NEW r \in Reconciliations,
           AddTransactionToReconciliation(b, r)
    PROVE  BankInv'
<1>1. /\ b \in Imported /\ RowOK(b) /\ bank' = [bank EXCEPT ![b] = [bank[b] EXCEPT !.recon = r]]
      /\ UNCHANGED <<stateVars, recon, clerk, made>>
  BY RowsOK DEF AddTransactionToReconciliation
<1>2. PICK row \in BankRow :
        /\ bank' = [bank EXCEPT ![b] = row]
        /\ row.payment = bank[b].payment /\ row.status = bank[b].status
        /\ row.line = bank[b].line /\ row.status # "NONE"
  <2> DEFINE row == [bank[b] EXCEPT !.recon = r]
  <2>1. /\ row \in BankRow /\ row.payment = bank[b].payment /\ row.status = bank[b].status
        /\ row.line = bank[b].line /\ row.status # "NONE" /\ bank' = [bank EXCEPT ![b] = row]
    BY <1>1 DEF RowOK, BankRow, Imported
  <2> HIDE DEF row
  <2> QED
    BY <2>1
<1>3. TypeOK' /\ (\A p \in Payments : Exists(p)' <=> Exists(p))
      /\ made' \in [Payments -> BankRows \union {None}] /\ clerk' \in [Clerks -> Requests]
  BY <1>1, SamePayments DEF BankInv, BankTypeOK
<1>4. row.payment # None => Exists(row.payment)'
  BY <1>1, <1>2, <1>3 DEF RowOK, BankRow
<1> QED
  BY ZenonT(30), <1>1, <1>2, <1>3, <1>4, WriterKeeps DEF RowOK

LEMMA CompleteKeeps ==
    ASSUME BankInv, NEW r \in Reconciliations, CompleteReconciliation(r)
    PROVE  BankInv'
<1>1. /\ bank \in [BankRows -> BankRow] /\ UNCHANGED <<stateVars, clerk, made>>
      /\ recon' \in [Reconciliations -> {"NONE", "IN_PROGRESS", "COMPLETED"}]
      /\ clerk \in [Clerks -> Requests] /\ made \in [Payments -> BankRows \union {None}]
  BY DEF CompleteReconciliation, BankInv, BankTypeOK
<1>2. TypeOK' /\ \A p \in Payments : Exists(p)' <=> Exists(p)
  BY <1>1, SamePayments
<1>3. ASSUME NEW b \in BankRows
      PROVE  RowOK(b)' /\ (bank'[b].status = "NONE" <=> bank[b].status = "NONE")
  <2>1. RowOK(b)
    BY RowsOK
  <2>2. bank'[b] = IF b \in MatchedIn(r) THEN [bank[b] EXCEPT !.status = "RECONCILED"] ELSE bank[b]
    BY DEF CompleteReconciliation
  <2>4. b \in MatchedIn(r) => bank[b].status = "MATCHED"
    BY DEF MatchedIn
  <2>5. /\ bank'[b] \in BankRow /\ bank'[b].payment = bank[b].payment /\ bank'[b].line = bank[b].line
        /\ \/ bank'[b].status = bank[b].status
           \/ bank[b].status = "MATCHED" /\ bank'[b].status = "RECONCILED"
    BY <2>1, <2>2, <2>4 DEF RowOK, BankRow
  <2>3. bank[b].payment # None => Exists(bank[b].payment)'
    BY <1>2, <2>1, <2>5 DEF RowOK, BankRow
  <2> QED
    BY <2>1, <2>3, <2>5 DEF RowOK
<1>4. Imported' = Imported
  BY <1>3 DEF Imported
<1>5. bank' \in [BankRows -> BankRow]
  BY <1>3 DEF CompleteReconciliation, RowOK
<1>6. BankTypeOK'
  BY <1>1, <1>2, <1>3, <1>5 DEF BankTypeOK, RowOK, Imported
<1> QED
  BY <1>1, <1>2, <1>4, <1>6, RequestsStay DEF BankInv

\* Steps that touch no bank transaction.
LEMMA OutsideKeeps ==
    ASSUME BankInv,
           \/ \E r \in Reconciliations : CreateReconciliation(r)
           \/ PaymentStep
           \/ UNCHANGED vars
    PROVE  BankInv' /\ bank' = bank /\ clerk' = clerk /\ made' = made
<1>1. bank' = bank /\ clerk' = clerk /\ made' = made
  BY DEF CreateReconciliation, PaymentStep, bankVars, vars
<1>2. /\ bank \in [BankRows -> BankRow] /\ clerk \in [Clerks -> Requests]
      /\ recon \in [Reconciliations -> {"NONE", "IN_PROGRESS", "COMPLETED"}]
      /\ made \in [Payments -> BankRows \union {None}] /\ TypeOK
  BY DEF BankInv, BankTypeOK
<1>3. recon' \in [Reconciliations -> {"NONE", "IN_PROGRESS", "COMPLETED"}]
  BY <1>2 DEF CreateReconciliation, PaymentStep, bankVars, vars
<1>4. TypeOK' /\ \A p \in Payments : Exists(p) => Exists(p)'
  <2>1. CASE PaymentStep
    BY <1>2, <2>1, PaymentsStay DEF PaymentStep
  <2>2. CASE UNCHANGED stateVars
    BY <2>2, SamePayments
  <2> QED
    BY <2>1, <2>2 DEF CreateReconciliation, vars
<1>5. ASSUME NEW b \in BankRows
      PROVE  RowOK(b)'
  <2>1. RowOK(b)
    BY RowsOK
  <2> QED
    BY <1>1, <1>4, <2>1 DEF RowOK, BankRow
<1>6. BankTypeOK'
  BY <1>1, <1>2, <1>3, <1>4, <1>5 DEF BankTypeOK, RowOK, Imported
<1>7. Imported' = Imported
  BY <1>1 DEF Imported
<1> QED
  BY <1>1, <1>2, <1>4, <1>6, <1>7, RequestsStay DEF BankInv

-----------------------------------------------------------------------------
(* The invariant *)

LEMMA BankStarts == Init => BankInv
<1> SUFFICES ASSUME Init PROVE BankInv
  OBVIOUS
<1>1. /\ pay = [p \in Payments |-> NoPayment] /\ inv = [i \in Invoices |-> DraftInvoice]
      /\ pastDue = {} /\ sending = [s \in Senders |-> None]
      /\ bank = [b \in BankRows |-> NoRow] /\ recon = [r \in Reconciliations |-> "NONE"]
      /\ clerk = [c \in Clerks |-> NoRequest] /\ made = [p \in Payments |-> None]
  BY DEF Init, R!Init, R!NoPayment, NoPayment, R!DraftInvoice, DraftInvoice,
         R!NoAllocations, NoAllocations
<1>2. NoPayment \in Payment /\ DraftInvoice \in Invoice
  BY DEF NoPayment, NoAllocations, Payment, PaymentTypes, DraftInvoice, Invoice, InvoiceStatuses
<1>3. TypeOK
  BY <1>1, <1>2 DEF TypeOK
<1>4. NoRow \in BankRow
  BY DEF NoRow, BankRow
<1>5. BankTypeOK
  BY <1>1, <1>3, <1>4, NoRequestType DEF BankTypeOK, NoRow, Imported
<1>6. \A c \in Clerks : RequestOK(c)
  BY <1>1 DEF RequestOK, NoRequest
<1> QED
  BY <1>5, <1>6 DEF BankInv

LEMMA BankKeeps == BankInv /\ [Next]_vars => BankInv'
<1> SUFFICES ASSUME BankInv, [Next]_vars PROVE BankInv'
  OBVIOUS
<1>1. ASSUME NEW c \in Clerks, ImportStep(c) \/ AutoMatchStep(c) \/ CreateStep(c) \/ Fail(c)
      PROVE  BankInv'
  <2>1. CASE \E b \in BankRows : CreateTransaction(c, b)
    BY <2>1, InsertKeeps
  <2>2. CASE MatchPicked(c)
    BY <2>2, MatchPickedKeeps
  <2>3. CASE \E p \in Payments : CommitCreate(c, p)
    BY <2>3, CommitCreateKeeps
  <2> QED
    BY <1>1, <2>1, <2>2, <2>3, ReadersKeep DEF ImportStep, AutoMatchStep, CreateStep
<1>2. CASE RowStep
  BY <1>2, MatchKeeps, UnmatchKeeps, AddKeeps DEF RowStep
<1>3. CASE \E r \in Reconciliations : CompleteReconciliation(r)
  BY <1>3, CompleteKeeps
<1> QED
  BY <1>1, <1>2, <1>3, OutsideKeeps DEF Next

LEMMA BankInvariant == Spec => []BankInv
BY BankStarts, BankKeeps, PTL DEF Spec

\* Rows keep their types, a row has a payment exactly when its status says so,
\* and the payment exists: for any statement and any number of clerks.
THEOREM BankTypes == Spec => []BankTypeOK
<1>1. BankInv => BankTypeOK
  BY DEF BankInv
<1> QED
  BY <1>1, BankInvariant, PTL

-----------------------------------------------------------------------------
(* What becomes of a row *)

\* A step leaves every row as it is, or is one of these.
LEMMA Changes ==
    ASSUME BankInv, [Next]_vars
    PROVE  \/ bank' = bank /\ made' = made
           \/ \E c \in Clerks, b \in BankRows : CreateTransaction(c, b)
           \/ \E b \in BankRows, p \in Payments : MatchTransaction(b, p)
           \/ \E b \in BankRows : UnmatchTransaction(b)
           \/ \E c \in Clerks : MatchPicked(c)
           \/ \E c \in Clerks, p \in Payments : CommitCreate(c, p)
           \/ \E b \in BankRows, r \in Reconciliations : AddTransactionToReconciliation(b, r)
           \/ \E r \in Reconciliations : CompleteReconciliation(r)
<1>1. ASSUME NEW c \in Clerks, ImportStep(c) \/ AutoMatchStep(c) \/ CreateStep(c) \/ Fail(c)
      PROVE  \/ bank' = bank /\ made' = made
             \/ \E b \in BankRows : CreateTransaction(c, b)
             \/ MatchPicked(c)
             \/ \E p \in Payments : CommitCreate(c, p)
  BY <1>1, ReadersKeep DEF ImportStep, AutoMatchStep, CreateStep, bankVars
<1>2. CASE RowStep
  BY <1>2 DEF RowStep
<1>3. CASE \/ \E r \in Reconciliations : CreateReconciliation(r)
           \/ PaymentStep
           \/ UNCHANGED vars
  BY <1>3, OutsideKeeps
<1> QED
  BY <1>1, <1>2, <1>3 DEF Next

\* Linking changes nothing but the payment of an unmatched row.
LEMMA LinkOne ==
    ASSUME BankInv, NEW b \in Unmatched, NEW p \in Payments, NEW by \in {"clerk", "program"},
           bank' = LinkedTo(b, p, by)
    PROVE  /\ b \in BankRows /\ bank[b].status = "UNMATCHED" /\ bank[b].payment = None
           /\ bank'[b].status = "MATCHED" /\ bank'[b].payment = p /\ bank'[b].by = by
           /\ bank'[b].line = bank[b].line /\ bank'[b].skipped = bank[b].skipped
           /\ \A a \in BankRows \ {b} : bank'[a] = bank[a]
<1>1. b \in BankRows /\ bank[b].status = "UNMATCHED" /\ RowOK(b) /\ bank \in [BankRows -> BankRow]
  BY RowsOK DEF Unmatched, BankInv, BankTypeOK
<1>2. bank[b].payment = None
  BY <1>1 DEF RowOK
<1>3. PICK row \in BankRow :
        /\ bank' = [bank EXCEPT ![b] = row]
        /\ row.payment = p /\ row.status = "MATCHED" /\ row.by = by
        /\ row.line = bank[b].line /\ row.skipped = bank[b].skipped
  BY LinkedRow
<1> QED
  BY <1>1, <1>2, <1>3

\* The step that matches a row.
MatchedBy(a) ==
    \/ bank'[a].by = "clerk"
    \/ \E c \in Clerks : MatchPicked(c) /\ bank'[a].payment = clerk[c].payment
    \/ \E c \in Clerks, p \in Payments : CommitCreate(c, p) /\ bank'[a].payment = p

\* How a step changes one row.
LEMMA RowMoves ==
    ASSUME BankInv, [Next]_vars, NEW a \in BankRows
    PROVE  \/ bank'[a] = bank[a]
           \/ /\ bank[a].status = "NONE" /\ bank'[a].status = "UNMATCHED"
              /\ bank'[a].payment = None /\ \E c \in Clerks : CreateTransaction(c, a)
           \/ /\ bank[a].status = "UNMATCHED" /\ bank[a].payment = None
              /\ bank'[a].status = "MATCHED" /\ MatchedBy(a)
              /\ bank'[a].line = bank[a].line /\ bank'[a].skipped = bank[a].skipped
           \/ /\ bank[a].status = "MATCHED" /\ bank'[a].status = "UNMATCHED"
              /\ bank'[a].payment = None /\ UnmatchTransaction(a)
              /\ bank'[a].line = bank[a].line /\ bank'[a].skipped = bank[a].skipped
           \/ /\ bank'[a].payment = bank[a].payment /\ bank'[a].by = bank[a].by
              /\ bank'[a].line = bank[a].line /\ bank'[a].skipped = bank[a].skipped
              /\ \/ bank'[a].status = bank[a].status
                 \/ bank[a].status = "MATCHED" /\ bank'[a].status = "RECONCILED"
<1>0. bank \in [BankRows -> BankRow] /\ RowOK(a) /\ bank[a] \in BankRow
  BY RowsOK DEF BankInv, BankTypeOK
<1>1. ASSUME NEW c \in Clerks, NEW b \in BankRows, CreateTransaction(c, b)
      PROVE  \/ bank'[a] = bank[a]
             \/ /\ bank[a].status = "NONE" /\ bank'[a].status = "UNMATCHED"
                /\ bank'[a].payment = None /\ CreateTransaction(c, a)
  <2>1. bank' = [bank EXCEPT ![b] = [NoRow EXCEPT !.line = clerk[c].line, !.status = "UNMATCHED",
                                                 !.skipped = clerk[c].skip]]
    BY <1>1 DEF CreateTransaction
  <2> QED
    BY <1>0, <1>1, <2>1 DEF CreateTransaction, Imported, NoRow
<1>2. ASSUME NEW b \in Unmatched, NEW p \in Payments, NEW by \in {"clerk", "program"},
             bank' = LinkedTo(b, p, by)
      PROVE  \/ bank'[a] = bank[a]
             \/ /\ bank[a].status = "UNMATCHED" /\ bank[a].payment = None
                /\ bank'[a].status = "MATCHED" /\ bank'[a].by = by /\ bank'[a].payment = p
                /\ bank'[a].line = bank[a].line /\ bank'[a].skipped = bank[a].skipped
  BY <1>2, LinkOne
<1>3. ASSUME NEW b \in BankRows, UnmatchTransaction(b)
      PROVE  \/ bank'[a] = bank[a]
             \/ /\ bank[a].status = "MATCHED" /\ bank'[a].status = "UNMATCHED"
                /\ bank'[a].payment = None /\ UnmatchTransaction(a)
                /\ bank'[a].line = bank[a].line /\ bank'[a].skipped = bank[a].skipped
  <2>1. /\ bank[b].status = "MATCHED"
        /\ bank' = [bank EXCEPT ![b] = [bank[b] EXCEPT !.status = "UNMATCHED", !.payment = None,
                                                       !.by = "nobody"]]
    BY <1>0, <1>3 DEF UnmatchTransaction, Unlinked
  <2> QED
    BY <1>0, <1>3, <2>1 DEF BankRow
<1>4. ASSUME NEW c \in Clerks, MatchPicked(c)
      PROVE  \/ bank' = bank
             \/ \E b \in Unmatched : /\ clerk[c].payment \in Payments
                                     /\ bank' = LinkedTo(b, clerk[c].payment, "program")
  <2>1. clerk[c].payment \in Payments
    BY <1>4 DEF MatchPicked, BankInv, RequestOK
  <2> QED
    BY <1>4, <2>1 DEF MatchPicked, Matchable
<1>5. ASSUME NEW b \in BankRows, NEW r \in Reconciliations, AddTransactionToReconciliation(b, r)
      PROVE  /\ bank'[a].payment = bank[a].payment /\ bank'[a].by = bank[a].by
             /\ bank'[a].line = bank[a].line /\ bank'[a].skipped = bank[a].skipped
             /\ bank'[a].status = bank[a].status
  <2>1. bank' = [bank EXCEPT ![b] = [bank[b] EXCEPT !.recon = r]]
    BY <1>0, <1>5 DEF AddTransactionToReconciliation
  <2> QED
    BY <1>0, <2>1 DEF BankRow
<1>6. ASSUME NEW r \in Reconciliations, CompleteReconciliation(r)
      PROVE  /\ bank'[a].payment = bank[a].payment /\ bank'[a].by = bank[a].by
             /\ bank'[a].line = bank[a].line /\ bank'[a].skipped = bank[a].skipped
             /\ \/ bank'[a].status = bank[a].status
                \/ bank[a].status = "MATCHED" /\ bank'[a].status = "RECONCILED"
  <2>1. /\ bank'[a] = IF a \in MatchedIn(r) THEN [bank[a] EXCEPT !.status = "RECONCILED"] ELSE bank[a]
        /\ a \in MatchedIn(r) => bank[a].status = "MATCHED"
    BY <1>6 DEF CompleteReconciliation, MatchedIn
  <2> QED
    BY <1>0, <2>1 DEF BankRow
<1>7. ASSUME NEW b \in BankRows, NEW p \in Payments, MatchTransaction(b, p)
      PROVE  b \in Unmatched /\ bank' = LinkedTo(b, p, "clerk")
  BY <1>7 DEF MatchTransaction, Matchable
<1>8. ASSUME NEW c \in Clerks, NEW p \in Payments, CommitCreate(c, p)
      PROVE  \E b \in Unmatched : bank' = LinkedTo(b, p, "program")
  BY <1>8 DEF CommitCreate, LinkOrFail
<1>9. ASSUME \/ \E c \in Clerks : MatchPicked(c)
             \/ \E b \in BankRows, p \in Payments : MatchTransaction(b, p)
             \/ \E c \in Clerks, p \in Payments : CommitCreate(c, p)
      PROVE  \/ bank'[a] = bank[a]
             \/ /\ bank[a].status = "UNMATCHED" /\ bank[a].payment = None
                /\ bank'[a].status = "MATCHED" /\ MatchedBy(a)
                /\ bank'[a].line = bank[a].line /\ bank'[a].skipped = bank[a].skipped
  <2>1. ASSUME NEW c \in Clerks, MatchPicked(c), bank'[a] # bank[a]
        PROVE  /\ bank[a].status = "UNMATCHED" /\ bank[a].payment = None
               /\ bank'[a].status = "MATCHED" /\ bank'[a].payment = clerk[c].payment
               /\ bank'[a].line = bank[a].line /\ bank'[a].skipped = bank[a].skipped
    BY <1>2, <1>4, <2>1
  <2>2. ASSUME NEW c \in Clerks, NEW p \in Payments, CommitCreate(c, p), bank'[a] # bank[a]
        PROVE  /\ bank[a].status = "UNMATCHED" /\ bank[a].payment = None
               /\ bank'[a].status = "MATCHED" /\ bank'[a].payment = p
               /\ bank'[a].line = bank[a].line /\ bank'[a].skipped = bank[a].skipped
    BY <1>2, <1>8, <2>2
  <2> QED
    BY <1>2, <1>7, <1>9, <2>1, <2>2 DEF MatchedBy
<1> QED
  BY <1>1, <1>3, <1>5, <1>6, <1>9, Changes

\* Whatever clerks, auto-matching and reconciliations do at once, a match is
\* never overwritten by another and a reconciled row stays as it is: for any
\* number of rows and clerks.
THEOREM MatchesAreKept == Spec => MatchesStand
<1>1. BankInv /\ [Next]_vars =>
         [\A b \in BankRows :
            /\ bank[b].payment # None => bank'[b].payment \in {bank[b].payment, None}
            /\ bank[b].status = "RECONCILED" =>
                  bank'[b].status = "RECONCILED" /\ bank'[b].payment = bank[b].payment]_vars
  <2> SUFFICES ASSUME BankInv, [Next]_vars, NEW b \in BankRows
               PROVE  /\ bank[b].payment # None => bank'[b].payment \in {bank[b].payment, None}
                      /\ bank[b].status = "RECONCILED" =>
                            bank'[b].status = "RECONCILED" /\ bank'[b].payment = bank[b].payment
    OBVIOUS
  <2>1. RowOK(b)
    BY RowsOK
  <2> QED
    BY <2>1, RowMoves DEF RowOK
<1> QED
  BY <1>1, BankInvariant, PTL DEF Spec, MatchesStand

-----------------------------------------------------------------------------
(* No payment is left over *)

LEMMA LeftOverStep ==
    ASSUME BankInv, NoPaymentLeftOver, [Next]_vars
    PROVE  NoPaymentLeftOver'
<1>0. bank \in [BankRows -> BankRow] /\ made \in [Payments -> BankRows \union {None}]
  BY DEF BankInv, BankTypeOK
<1> SUFFICES ASSUME NEW p \in Payments, made'[p] # None PROVE bank'[made'[p]].payment = p
  BY DEF NoPaymentLeftOver
<1>1. ASSUME NEW c \in Clerks, NEW q \in Payments, CommitCreate(c, q)
      PROVE  bank'[made'[p]].payment = p
  <2>1. PICK b \in Unmatched : bank' = LinkedTo(b, q, "program") /\ made' = [made EXCEPT ![q] = b]
    BY <1>1 DEF CommitCreate, LinkOrFail
  <2>2. /\ b \in BankRows /\ bank[b].payment = None /\ bank'[b].payment = q
        /\ \A a \in BankRows \ {b} : bank'[a] = bank[a]
    BY <2>1, LinkOne
  <2>3. CASE p = q
    BY <1>0, <2>1, <2>2, <2>3
  <2>4. CASE p # q
    <3>1. made'[p] = made[p] /\ made[p] \in BankRows /\ bank[made[p]].payment = p
      BY <1>0, <2>1, <2>4 DEF NoPaymentLeftOver
    <3> QED
      BY <2>2, <3>1, NoneAssumption
  <2> QED
    BY <2>3, <2>4
<1>2. ASSUME made' = made \/ \E b \in BankRows : UnmatchTransaction(b)
      PROVE  bank'[made'[p]].payment = p
  <2>1. made'[p] = made[p]
    BY <1>2 DEF UnmatchTransaction
  <2>2. PICK a \in BankRows : a = made[p]
    BY <1>0, <2>1
  <2>3. bank[a].payment = p /\ p # None
    BY <2>1, <2>2, NoneAssumption DEF NoPaymentLeftOver
  <2>4. ~UnmatchTransaction(a)
    BY <2>1, <2>2, <2>3 DEF UnmatchTransaction
  <2>5. bank'[a].payment = p
    BY <2>3, <2>4, RowMoves, RowsOK DEF RowOK
  <2> QED
    BY <2>1, <2>2, <2>5
<1>3. \/ made' = made
      \/ \E b \in BankRows : UnmatchTransaction(b)
      \/ \E c \in Clerks, q \in Payments : CommitCreate(c, q)
  BY Changes DEF CreateTransaction, MatchTransaction, MatchPicked, AddTransactionToReconciliation,
                 CompleteReconciliation
<1> QED
  BY <1>1, <1>2, <1>3

\* However many clerks create a payment from one bank transaction, each payment
\* that was created is the one its transaction is matched to, until somebody
\* unmatches it: for any number of rows, payments and clerks.
THEOREM NoPaymentIsLeftOver == Spec => []NoPaymentLeftOver
<1>1. Init => NoPaymentLeftOver
  BY DEF Init, NoPaymentLeftOver
<1>2. BankInv /\ NoPaymentLeftOver /\ [Next]_vars => NoPaymentLeftOver'
  BY LeftOverStep
<1> QED
  BY <1>1, <1>2, BankInvariant, PTL DEF Spec

-----------------------------------------------------------------------------
(* One importer: nothing is imported twice *)

\* The check that a request made before its insert still holds at the insert.
Checked ==
    \A c \in Clerks : clerk[c].step = "insert" /\ clerk[c].skip =>
        \A b \in Imported : bank[b].skipped => ~SameTransaction(clerk[c].line, bank[b].line)

ImportInv == Checked /\ ImportedOnce

\* Only an insert changes what is imported.
LEMMA LinesStay ==
    ASSUME BankInv, [Next]_vars, \A c \in Clerks, b \in BankRows : ~CreateTransaction(c, b)
    PROVE  /\ Imported' = Imported
           /\ \A b \in BankRows : bank'[b].line = bank[b].line /\ bank'[b].skipped = bank[b].skipped
<1>1. ASSUME NEW b \in BankRows
      PROVE  /\ bank'[b].line = bank[b].line /\ bank'[b].skipped = bank[b].skipped
             /\ bank'[b].status = "NONE" <=> bank[b].status = "NONE"
  BY RowMoves
<1> QED
  BY <1>1 DEF Imported

\* A request comes to its insert by the check alone, to its match by the list.
LEMMA ChecksFirst ==
    ASSUME BankInv, [Next]_vars, NEW c \in Clerks, clerk'[c].step \in {"insert", "pick"}
    PROVE  /\ \/ clerk'[c] = clerk[c]
              \/ clerk'[c].step = "insert" /\ \E l \in Lines : CheckLine(c, l)
              \/ clerk'[c].step = "pick" /\ \E b \in BankRows, p \in Payments : PickMatch(c, b, p)
           /\ \A b \in BankRows : ~CreateTransaction(c, b)
           /\ ~MatchPicked(c)
<1>0. clerk \in [Clerks -> Requests]
  BY DEF BankInv, BankTypeOK
<1>1. ASSUME NEW d \in Clerks, NEW request \in Requests, ClerkStep(d, request),
             request.step \notin {"insert", "pick"}
      PROVE  c # d /\ clerk'[c] = clerk[c]
  BY <1>0, <1>1 DEF ClerkStep
<1>2. ASSUME NEW read \in Requests, read.step \notin {"insert", "pick"}
      PROVE  Goes(read) \in Requests /\ Goes(read).step \notin {"insert", "pick"}
  BY <1>2, GoesType DEF NoRequest
<1>3. NoRequest \in Requests /\ NoRequest.step \notin {"insert", "pick"}
  BY NoRequestType DEF NoRequest
<1>4. ASSUME NEW d \in Clerks, NEW b \in BankRows, CreateTransaction(d, b)
      PROVE  c # d /\ clerk'[c] = clerk[c]
  <2>1. [clerk[d] EXCEPT !.step = "import", !.line = None] \in Requests
    BY <1>0 DEF Requests
  <2> QED
    BY ZenonT(30), <1>1, <1>2, <1>4, <2>1 DEF CreateTransaction, Requests
<1>5. ASSUME NEW d \in Clerks, ImportStep(d)
      PROVE  \/ clerk'[c] = clerk[c]
             \/ clerk'[c].step = "insert" /\ \E l \in Lines : CheckLine(c, l)
  <2>1. ASSUME NEW lines \in Files, NEW skip \in BOOLEAN, StartImport(d, lines, skip)
        PROVE  clerk'[c] = clerk[c]
    <3>1. /\ [NoRequest EXCEPT !.step = "import", !.lines = lines, !.skip = skip] \in Requests
          /\ [NoRequest EXCEPT !.step = "import", !.lines = lines, !.skip = skip].step \notin {"insert", "pick"}
      BY LinesAssumption DEF NoRequest, Requests
    <3> QED
      BY <1>1, <2>1, <3>1 DEF StartImport
  <2>2. ASSUME NEW l \in Lines, LeaveOut(d, l)
        PROVE  clerk'[c] = clerk[c]
    <3>1. /\ [clerk[d] EXCEPT !.lines = @ \ {l}] \in Requests
          /\ [clerk[d] EXCEPT !.lines = @ \ {l}].step \notin {"insert", "pick"}
      BY <1>0, <2>2 DEF Requests, LeaveOut
    <3> QED
      BY <1>1, <1>2, <2>2, <3>1 DEF LeaveOut
  <2>3. ASSUME NEW l \in Lines, CheckLine(d, l)
        PROVE  clerk'[c] = clerk[c] \/ (c = d /\ clerk'[c].step = "insert")
    <3>1. clerk' = [clerk EXCEPT ![d] = [clerk[d] EXCEPT !.step = "insert", !.lines = @ \ {l}, !.line = l]]
      BY <2>3 DEF CheckLine, ClerkStep
    <3> QED
      BY <1>0, <3>1 DEF Requests
  <2> QED
    BY <1>4, <1>5, <2>1, <2>2, <2>3 DEF ImportStep
<1>6. ASSUME NEW d \in Clerks, MatchPicked(d)
      PROVE  c # d /\ clerk'[c] = clerk[c]
  <2>1. /\ [clerk[d] EXCEPT !.step = "auto", !.row = None, !.payment = None] \in Requests
        /\ [clerk[d] EXCEPT !.step = "auto", !.row = None, !.payment = None].step
              \notin {"insert", "pick"}
    BY <1>0 DEF Requests
  <2> QED
    BY <1>1, <1>2, <1>6, <2>1 DEF MatchPicked
<1>9. ASSUME NEW d \in Clerks, AutoMatchStep(d)
      PROVE  \/ clerk'[c] = clerk[c]
             \/ clerk'[c].step = "pick" /\ \E b \in BankRows, p \in Payments : PickMatch(c, b, p)
  <2>1. CASE StartAutoMatch(d)
    <3>1. /\ [NoRequest EXCEPT !.step = "auto", !.rows = Unmatched] \in Requests
          /\ [NoRequest EXCEPT !.step = "auto", !.rows = Unmatched].step \notin {"insert", "pick"}
      BY LinesAssumption DEF NoRequest, Requests, Unmatched
    <3> QED
      BY <1>1, <2>1, <3>1 DEF StartAutoMatch
  <2>2. ASSUME NEW b \in BankRows, NEW p \in Payments, PickMatch(d, b, p)
        PROVE  clerk'[c] = clerk[c] \/ (c = d /\ clerk'[c].step = "pick")
    <3>1. clerk' = [clerk EXCEPT ![d] = [clerk[d] EXCEPT !.step = "pick", !.rows = @ \ {b},
                                                         !.row = b, !.payment = p]]
      BY <2>2 DEF PickMatch, ClerkStep
    <3> QED
      BY <1>0, <3>1 DEF Requests
  <2>3. ASSUME NEW b \in BankRows, NoMatch(d, b)
        PROVE  clerk'[c] = clerk[c]
    <3>1. /\ [clerk[d] EXCEPT !.rows = @ \ {b}] \in Requests
          /\ [clerk[d] EXCEPT !.rows = @ \ {b}].step \notin {"insert", "pick"}
      BY <1>0, <2>3 DEF Requests, NoMatch
    <3> QED
      BY <1>1, <1>2, <2>3, <3>1 DEF NoMatch
  <2> QED
    BY <1>6, <1>9, <2>1, <2>2, <2>3 DEF AutoMatchStep
<1>7. ASSUME NEW d \in Clerks, CreateStep(d) \/ Fail(d)
      PROVE  clerk'[c] = clerk[c]
  <2>1. ASSUME NEW b \in BankRows, StartCreate(d, b)
        PROVE  clerk'[c] = clerk[c]
    <3>1. /\ [NoRequest EXCEPT !.step = "create", !.row = b] \in Requests
          /\ [NoRequest EXCEPT !.step = "create", !.row = b].step \notin {"insert", "pick"}
      BY LinesAssumption DEF NoRequest, Requests
    <3> QED
      BY <1>1, <2>1, <3>1 DEF StartCreate
  <2> QED
    BY <1>1, <1>3, <1>7, <2>1 DEF CreateStep, CommitCreate, Fail
<1>8. ASSUME \/ RowStep
             \/ \E r \in Reconciliations : CreateReconciliation(r) \/ CompleteReconciliation(r)
             \/ PaymentStep
             \/ UNCHANGED vars
      PROVE  clerk'[c] = clerk[c]
  BY <1>8 DEF RowStep, MatchTransaction, UnmatchTransaction, AddTransactionToReconciliation,
              CreateReconciliation, CompleteReconciliation, PaymentStep, vars
<1> QED
  BY <1>4, <1>5, <1>6, <1>7, <1>8, <1>9 DEF Next

LEMMA ImportStepKeeps ==
    ASSUME \A c, d \in Importers : c = d, BankInv, ImportInv, [Next]_vars
    PROVE  ImportInv'
<1>1. CASE \A c \in Clerks, b \in BankRows : ~CreateTransaction(c, b)
  <2>1. /\ Imported' = Imported
        /\ \A b \in BankRows : bank'[b].line = bank[b].line /\ bank'[b].skipped = bank[b].skipped
    BY <1>1, LinesStay
  <2>2. Imported \subseteq BankRows
    BY DEF Imported
  <2>3. ImportedOnce'
    BY <2>1, <2>2 DEF ImportInv, ImportedOnce
  <2>4. ASSUME NEW c \in Clerks, clerk'[c].step = "insert", clerk'[c].skip,
               NEW b \in Imported, bank[b].skipped
        PROVE  ~SameTransaction(clerk'[c].line, bank[b].line)
    <3>1. CASE clerk'[c] = clerk[c]
      BY <2>4, <3>1 DEF ImportInv, Checked
    <3>2. ASSUME NEW l \in Lines, CheckLine(c, l)
          PROVE  ~SameTransaction(clerk'[c].line, bank[b].line)
      <4>1. clerk'[c].line = l /\ clerk'[c].skip = clerk[c].skip
        <5>1. clerk \in [Clerks -> Requests]
          BY DEF BankInv, BankTypeOK
        <5> QED
          BY <3>2, <5>1 DEF CheckLine, ClerkStep, Requests
      <4>2. ~IsTransactionDuplicate(l)
        BY <2>4, <3>2, <4>1 DEF CheckLine
      <4> QED
        BY <2>4, <4>1, <4>2 DEF IsTransactionDuplicate
    <3> QED
      BY <2>4, <3>1, <3>2, ChecksFirst
  <2> QED
    BY <2>1, <2>2, <2>3, <2>4 DEF ImportInv, Checked
<1>2. ASSUME NEW c \in Clerks, NEW b \in BankRows, CreateTransaction(c, b)
      PROVE  ImportInv'
  <2>1. /\ clerk[c].step = "insert" /\ b \notin Imported
        /\ bank' = [bank EXCEPT ![b] = [NoRow EXCEPT !.line = clerk[c].line, !.status = "UNMATCHED",
                                                     !.skipped = clerk[c].skip]]
        /\ bank \in [BankRows -> BankRow]
    BY <1>2 DEF CreateTransaction, BankInv, BankTypeOK
  <2>2. /\ bank'[b].line = clerk[c].line /\ bank'[b].skipped = clerk[c].skip
        /\ \A a \in BankRows \ {b} : bank'[a] = bank[a]
        /\ Imported' = Imported \union {b}
    BY <2>1 DEF NoRow, Imported
  <2>3. \A a \in Imported : a \in BankRows \ {b}
    BY <2>1 DEF Imported
  <2>4. ASSUME NEW d \in Clerks, clerk'[d].step = "insert"
        PROVE  FALSE
    <3>1. clerk'[d] = clerk[d] \/ \E l \in Lines : CheckLine(d, l)
      BY <2>4, ChecksFirst
    <3>2. d \in Importers
      BY <2>4, <3>1 DEF BankInv, RequestOK, CheckLine
    <3>3. c \in Importers
      BY <2>1 DEF BankInv, RequestOK
    <3> QED
      BY <1>2, <2>4, <3>2, <3>3, ChecksFirst
  <2>5. ASSUME NEW a \in Imported, bank[a].skipped, clerk[c].skip
        PROVE  /\ ~SameTransaction(clerk[c].line, bank[a].line)
               /\ ~SameTransaction(bank[a].line, clerk[c].line)
    BY <2>1, <2>5 DEF ImportInv, Checked, SameTransaction
  <2>6. ImportedOnce'
    BY <2>2, <2>3, <2>5 DEF ImportInv, ImportedOnce
  <2> QED
    BY <2>4, <2>6 DEF ImportInv, Checked
<1> QED
  BY <1>1, <1>2

\* As long as one statement is imported at a time, requests that skip duplicates
\* import no transaction twice, whatever the statements and however often an
\* import stops halfway.
THEOREM OneImporterImportsOnce ==
    ASSUME \A c, d \in Importers : c = d
    PROVE  Spec => []ImportedOnce
<1>1. Init => ImportInv
  BY DEF Init, ImportInv, ImportedOnce, Checked, NoRow, NoRequest, Imported
<1>2. BankInv /\ ImportInv /\ [Next]_vars => ImportInv'
  BY ImportStepKeeps
<1>3. ImportInv => ImportedOnce
  BY DEF ImportInv
<1> QED
  BY <1>1, <1>2, <1>3, BankInvariant, PTL DEF Spec

-----------------------------------------------------------------------------
(* One auto-matcher: no payment is matched twice without a clerk naming it *)

\* A payment that was listed is since matched by clerks alone.
Picked ==
    \A c \in Clerks : clerk[c].step = "pick" =>
        \A a \in BankRows : bank[a].payment = clerk[c].payment => bank[a].by = "clerk"

MatchInv == Picked /\ AutoMatchesDistinct

LEMMA MatchStepKeeps ==
    ASSUME \A c, d \in Matchers : c = d, BankInv, MatchInv, [Next]_vars
    PROVE  MatchInv'
<1>0. bank \in [BankRows -> BankRow] /\ clerk \in [Clerks -> Requests]
  BY DEF BankInv, BankTypeOK
<1>1. ASSUME NEW a \in BankRows, bank'[a].payment # None
      PROVE  \/ bank'[a].payment = bank[a].payment /\ bank'[a].by = bank[a].by
             \/ bank[a].payment = None /\ MatchedBy(a)
  BY <1>1, RowMoves
<1>2. ASSUME NEW c \in Clerks, NEW p \in Payments, CommitCreate(c, p), NEW a \in BankRows,
             bank[a].payment = p
      PROVE  FALSE
  <2>1. Exists(p) /\ ~Exists(p)
    BY <1>2, RowsOK, NoneAssumption DEF CommitCreate, RowOK
  <2> QED
    BY <2>1
<1>3. ASSUME NEW c \in Clerks, clerk'[c].step = "pick", NEW a \in BankRows,
             bank'[a].payment = clerk'[c].payment
      PROVE  bank'[a].by = "clerk"
  <2>1. clerk'[c].payment \in Payments /\ clerk'[c].payment # None /\ c \in Matchers /\ ~MatchPicked(c)
    BY <1>3, BankKeeps, ChecksFirst, NoneAssumption DEF BankInv, RequestOK
  <2>2. ASSUME NEW d \in Clerks, MatchPicked(d) PROVE FALSE
    BY <2>1, <2>2 DEF MatchPicked, BankInv, RequestOK
  <2>3. CASE clerk'[c] = clerk[c]
    <3>1. clerk[c].step = "pick" /\ (bank[a].payment = clerk[c].payment => bank[a].by = "clerk")
      BY <1>3, <2>3 DEF MatchInv, Picked
    <3>2. ASSUME NEW d \in Clerks, NEW p \in Payments, CommitCreate(d, p), bank'[a].payment = p
          PROVE  FALSE
      BY <1>3, <2>3, <3>1, <3>2 DEF CommitCreate, BankInv, RequestOK
    <3> QED
      BY <1>1, <1>3, <2>1, <2>2, <2>3, <3>1, <3>2 DEF MatchedBy
  <2>4. ASSUME NEW b \in BankRows, NEW p \in Payments, PickMatch(c, b, p)
        PROVE  FALSE
    <3>1. clerk'[c].payment = p /\ bank' = bank
      BY <1>0, <2>4 DEF PickMatch, ClerkStep, Requests, bankVars
    <3>2. Linked(p) = {}
      BY <2>4 DEF PickMatch, ListPaymentMatchCandidates
    <3> QED
      BY <1>3, <3>1, <3>2 DEF Linked
  <2> QED
    BY <1>3, <2>3, <2>4, ChecksFirst
<1>4. ASSUME NEW a \in BankRows, NEW b \in BankRows, bank'[a].payment = bank'[b].payment,
             bank'[a].payment # None, a # b
      PROVE  "clerk" \in {bank'[a].by, bank'[b].by}
  <2>1. ASSUME NEW x \in BankRows, NEW y \in BankRows, x # y, MatchedBy(x), bank[x].payment = None,
               bank'[y].payment = bank[y].payment, bank'[y].by = bank[y].by,
               bank'[x].payment = bank'[y].payment, bank'[y].payment # None
        PROVE  "clerk" \in {bank'[x].by, bank'[y].by}
    <3>1. ASSUME NEW c \in Clerks, MatchPicked(c), bank'[x].payment = clerk[c].payment
          PROVE  bank'[y].by = "clerk"
      BY <2>1, <3>1 DEF MatchInv, Picked, MatchPicked
    <3>2. ASSUME NEW c \in Clerks, NEW p \in Payments, CommitCreate(c, p), bank'[x].payment = p
          PROVE  FALSE
      BY <1>2, <2>1, <3>2
    <3> QED
      BY <2>1, <3>1, <3>2 DEF MatchedBy
  <2>2. CASE bank[a].payment = None /\ bank[b].payment = None
    <3>1. ASSUME NEW x \in Unmatched, NEW p \in Payments, bank' = LinkedTo(x, p, "program")
          PROVE  bank'[a] = bank[a] \/ bank'[b] = bank[b]
      BY <1>4, <3>1, LinkOne
    <3>2. ASSUME NEW c \in Clerks, MatchPicked(c)
          PROVE  bank'[a] = bank[a] \/ bank'[b] = bank[b]
      <4>1. clerk[c].payment \in Payments
        BY <3>2 DEF MatchPicked, BankInv, RequestOK
      <4> QED
        BY <3>1, <3>2, <4>1 DEF MatchPicked, Matchable
    <3>3. ASSUME NEW c \in Clerks, NEW p \in Payments, CommitCreate(c, p)
          PROVE  bank'[a] = bank[a] \/ bank'[b] = bank[b]
      BY <3>1, <3>3 DEF CommitCreate, LinkOrFail
    <3> QED
      BY <1>1, <1>4, <2>2, <3>2, <3>3 DEF MatchedBy
  <2>3. CASE bank[a].payment # None /\ bank[b].payment # None
    BY <1>1, <1>4, <2>3 DEF MatchInv, AutoMatchesDistinct
  <2> QED
    BY <1>1, <1>4, <2>1, <2>2, <2>3
<1> QED
  BY <1>3, <1>4 DEF MatchInv, Picked, AutoMatchesDistinct

\* One auto-matching run at a time never matches two bank transactions to one
\* payment, whatever clerks do meanwhile: two rows have one payment only when a
\* clerk named it for one of them.
THEOREM AutoMatchesStayDistinct ==
    ASSUME \A c, d \in Matchers : c = d
    PROVE  Spec => []AutoMatchesDistinct
<1>1. Init => MatchInv
  BY DEF Init, MatchInv, Picked, AutoMatchesDistinct, NoRow, NoRequest
<1>2. BankInv /\ MatchInv /\ [Next]_vars => MatchInv'
  BY MatchStepKeeps
<1>3. MatchInv => AutoMatchesDistinct
  BY DEF MatchInv
<1> QED
  BY <1>1, <1>2, <1>3, BankInvariant, PTL DEF Spec

-----------------------------------------------------------------------------
(* The payments of Receivables *)

\* A payment that banking makes of an amount is one that a request could ask for.
LEMMA PaymentIsRequest ==
    ASSUME NEW l \in Lines, NEW n \in Numbers, LineAmount[l] # 0
    PROVE  /\ [PaymentFrom(l, n) EXCEPT !.number = 0] \in PaymentRequests
           /\ PaymentFrom(l, n)
                = [[PaymentFrom(l, n) EXCEPT !.number = 0] EXCEPT !.number = n]
           /\ PaymentFrom(l, n).type = LineType[l] /\ PaymentFrom(l, n).number = n
           /\ PaymentFrom(l, n).alloc = NoAllocations
<1> DEFINE request == [PaymentFrom(l, n) EXCEPT !.number = 0]
<1>1. LineType[l] \in PaymentTypes /\ LineAmount[l] \in Amounts /\ LineAmount[l] \in Nat
  BY LinesAssumption, AmountsAssumption
<1>2. request = [type |-> LineType[l], number |-> 0, amount |-> LineAmount[l],
                 alloc |-> NoAllocations, reversalOf |-> None, reversedBy |-> None]
  BY DEF PaymentFrom
<1>3. SumFunction(NoAllocations) = 0
  <2>1. DOMAIN NoAllocations = Invoices /\ \A i \in Invoices : NoAllocations[i] = 0
    BY DEF NoAllocations
  <2>2. SumFunctionOnSet(NoAllocations, Invoices) = 0
    BY ONLY <2>1, FiniteAssumption, SumOfZeros
  <2> QED
    BY <2>1, <2>2 DEF SumFunction
<1>4. UnallocatedAmount(request) = LineAmount[l] - 0
  BY <1>2, <1>3 DEF UnallocatedAmount
<1>5. request \in [type : PaymentTypes, number : {0}, amount : Amounts,
                   alloc : [Invoices -> Amounts \union {0}],
                   reversalOf : {None}, reversedBy : {None}]
  BY <1>1, <1>2 DEF NoAllocations
<1>6. request \in PaymentRequests
  BY <1>1, <1>4, <1>5 DEF PaymentRequests
<1>7. PaymentFrom(l, n) = [request EXCEPT !.number = n]
  <2> HIDE DEF request
  <2> QED
    BY <1>2 DEF PaymentFrom
<1>8. /\ PaymentFrom(l, n).type = LineType[l] /\ PaymentFrom(l, n).number = n
      /\ PaymentFrom(l, n).alloc = NoAllocations
  BY DEF PaymentFrom
<1> QED
  BY <1>6, <1>7, <1>8

\* The number that is next is one that no payment of the type carries.
LEMMA NextIsUnused ==
    ASSUME BankInv, NEW type \in PaymentTypes, NEW n \in Numbers,
           NextPaymentNumberSequence(type, n)
    PROVE  n \notin R!UsedNumbers(type) /\ n \notin UsedNumbers(type)
<1>1. R!UsedNumbers(type) = UsedNumbers(type)
  BY DEF R!UsedNumbers, UsedNumbers, R!Exists, Exists
<1>2. n \in Nat /\ \A m \in UsedNumbers(type) : m < n
  BY NumbersAssumption DEF NextPaymentNumberSequence
<1> QED
  BY <1>1, <1>2

\* A payment without allocations changes no invoice.
LEMMA NothingRecorded ==
    ASSUME TypeOK, UNCHANGED inv
    PROVE  R!RecordPayments(NoAllocations, 1)
<1>1. R!Targets(NoAllocations) = {}
  BY DEF R!Targets, NoAllocations
<1>2. inv' = [i \in Invoices |-> inv[i]] /\ {} \in SUBSET pastDue
  BY DEF TypeOK
<1> QED
  BY <1>1, <1>2 DEF R!RecordPayments

LEMMA CommitCreates ==
    ASSUME BankInv, NEW c \in Clerks, NEW p \in Payments, CommitCreate(c, p)
    PROVE  R!PaymentNext \/ PaysNothing(clerk[c].row, p)
<1> DEFINE line == bank[clerk[c].row].line
<1>1. PICK n \in Numbers : /\ NextPaymentNumberSequence(LineType[line], n)
                           /\ pay' = [pay EXCEPT ![p] = PaymentFrom(line, n)]
  BY DEF CommitCreate
<1>2. /\ clerk[c].row \in Unmatched /\ ~Exists(p)
      /\ bank' = LinkedTo(clerk[c].row, p, "program")
      /\ UNCHANGED <<inv, pastDue, sending>>
  BY DEF CommitCreate, LinkOrFail
<1>3. line \in Lines
  <2>1. clerk[c].row \in BankRows /\ bank[clerk[c].row].status = "UNMATCHED" /\ RowOK(clerk[c].row)
    BY <1>2, RowsOK DEF Unmatched
  <2> QED
    BY <2>1 DEF RowOK, BankRow
<1> HIDE DEF line
<1> DEFINE row     == PaymentFrom(line, n)
           request == [row EXCEPT !.number = 0]
<1>5. LineType[line] \in PaymentTypes
  BY <1>3, LinesAssumption
<1>6. n \notin R!UsedNumbers(LineType[line]) /\ n \notin UsedNumbers(LineType[line])
  BY <1>1, <1>5, NextIsUnused
<1>7. CASE LineAmount[line] = 0
  <2>1. PaymentFrom(line, n) = [type |-> LineType[line], number |-> n, amount |-> 0,
                                alloc |-> NoAllocations, reversalOf |-> None, reversedBy |-> None]
    BY Zenon, <1>7 DEF PaymentFrom
  <2>2. clerk[c].row \in BankRows /\ bank'[clerk[c].row].payment = p
    BY <1>2 DEF BankInv, BankTypeOK, LinkedTo, Unmatched, BankRow
  <2>3. pay' = [pay EXCEPT ![p] = [type |-> LineType[line], number |-> n, amount |-> 0,
                                alloc |-> NoAllocations, reversalOf |-> None, reversedBy |-> None]]
    BY <1>1, <2>1
  <2>4. n \in Numbers \ UsedNumbers(LineType[line])
    BY <1>1, <1>6
  <2>5. \E m \in Numbers \ UsedNumbers(LineType[line]) :
           pay' = [pay EXCEPT ![p] = [type |-> LineType[line], number |-> m, amount |-> 0,
                                alloc |-> NoAllocations, reversalOf |-> None, reversedBy |-> None]]
    BY ONLY <2>3, <2>4
  <2> QED
    BY ZenonT(30), <1>2, <1>7, <2>2, <2>5 DEF PaysNothing, line
<1>8. CASE LineAmount[line] # 0
  <2>1. /\ request \in PaymentRequests /\ row = [request EXCEPT !.number = n]
        /\ row.type = LineType[line] /\ row.number = n /\ row.alloc = NoAllocations
    BY <1>3, <1>8, PaymentIsRequest
  <2> HIDE DEF row
  <2>2. R!RecordPayments(row.alloc, 1)
    BY <1>2, <2>1, NothingRecorded DEF BankInv, BankTypeOK
  <2>3. R!CreatePayment(p, row)
    BY <1>1, <1>2, <1>6, <2>1, <2>2, SameOperators DEF R!CreatePayment, R!Numbered, row
  <2>4. request \in R!PaymentRequests /\ row \in R!NumberedRows(request)
    BY <2>1, SameOperators DEF R!NumberedRows
  <2> HIDE DEF request
  <2> QED
    BY <2>3, <2>4 DEF R!PaymentNext
<1> QED
  BY <1>7, <1>8

\* Whatever banking does, payments and invoices stay, take a step of
\* Receivables, or a line of zero is paid.
LEMMA BankPromises ==
    ASSUME BankInv, [Next]_vars
    PROVE  \/ UNCHANGED stateVars \/ R!Next
           \/ \E b \in BankRows, p \in Payments : PaysNothing(b, p)
<1>1. ASSUME NEW c \in Clerks, ImportStep(c) \/ AutoMatchStep(c)
      PROVE  UNCHANGED stateVars
  BY <1>1 DEF ImportStep, AutoMatchStep, StartImport, LeaveOut, CheckLine, CreateTransaction,
              StartAutoMatch, PickMatch, NoMatch, MatchPicked
<1>2. ASSUME NEW c \in Clerks, CreateStep(c)
      PROVE  \/ UNCHANGED stateVars \/ R!PaymentNext
             \/ \E b \in BankRows, p \in Payments : PaysNothing(b, p)
  BY <1>2, CommitCreates DEF CreateStep, StartCreate, PaysNothing, Unmatched
<1>3. ASSUME RowStep PROVE UNCHANGED stateVars
  BY <1>3 DEF RowStep, MatchTransaction, UnmatchTransaction, AddTransactionToReconciliation
<1>4. ASSUME NEW r \in Reconciliations, CreateReconciliation(r) \/ CompleteReconciliation(r)
      PROVE  UNCHANGED stateVars
  BY <1>4 DEF CreateReconciliation, CompleteReconciliation
<1>5. ASSUME NEW c \in Clerks, Fail(c) PROVE UNCHANGED stateVars
  BY <1>5 DEF Fail
<1>6. UNCHANGED vars => UNCHANGED stateVars
  BY DEF vars, stateVars
<1> QED
  BY <1>1, <1>2, <1>3, <1>4, <1>5, <1>6 DEF Next, PaymentStep, R!Next

\* For any statements and clerks, the payments that banking inserts past the
\* payment service are payments that the service could have made, except the
\* payment of zero that it makes from a line of zero: whatever else it does is
\* a step of Receivables, or none.
THEOREM BankingPaysAsPromised == Spec => PaymentsAsPromised
<1>1. Init => R!Init
  BY DEF Init
<1>2. BankInv /\ [Next]_vars =>
         [\/ UNCHANGED stateVars \/ R!Next
          \/ \E b \in BankRows, p \in Payments : PaysNothing(b, p)]_vars
  BY BankPromises
<1> QED
  BY <1>1, <1>2, BankInvariant, PTL DEF Spec, PaymentsAsPromised
=============================================================================
