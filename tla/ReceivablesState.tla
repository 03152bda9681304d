-------------------------- MODULE ReceivablesState --------------------------
(***************************************************************************)
(* The rows that internal/payments and internal/invoicing share, the rules *)
(* that read and update one row, and what those rows promise.  Receivables *)
(* (every operation atomic) and PaymentTransactions (every operation a     *)
(* database transaction of several statements) both extend this module.    *)
(*                                                                         *)
(* Amounts are natural numbers of one currency: the code uses exact        *)
(* decimals and compares payment and invoice amounts without conversion.   *)
(***************************************************************************)
EXTENDS Integers, FiniteSets, FiniteSetsExt, Functions, SequencesExt

CONSTANTS
    Payments,  \* payment ids
    Invoices,  \* invoice ids
    Total,     \* the total of each invoice
    Amounts,   \* the amounts a request may name
    Numbers,   \* the sequence parts of payment numbers
    Senders,   \* handlers that may be sending an invoice
    None       \* the NULL of a nullable column

ASSUME TotalAssumption   == Total \in [Invoices -> Nat]
ASSUME AmountsAssumption == Amounts \subseteq Nat \ {0}
ASSUME NumbersAssumption == Numbers \subseteq Nat \ {0}
ASSUME NoneAssumption    == None \notin Payments \union Invoices
ASSUME FiniteAssumption  == IsFiniteSet(Payments) /\ IsFiniteSet(Invoices)

VARIABLES
    pay,      \* payments table, each row with its payment_allocations
    inv,      \* invoices table: status and amount_paid
    pastDue,  \* invoices whose due date has passed
    sending   \* the invoice each sender has read in DRAFT, or None

stateVars == <<pay, inv, pastDue, sending>>

-----------------------------------------------------------------------------
(* Rows *)

PaymentTypes    == {"RECEIVED", "MADE"}
InvoiceStatuses == {"DRAFT", "SENT", "PARTIALLY_PAID", "PAID", "OVERDUE", "VOIDED"}

Payment ==
    [type : PaymentTypes, number : Numbers \union {0}, amount : Nat,
     alloc : [Invoices -> Nat],  \* the payment's allocations, summed per invoice
     reversalOf : Payments \union {None}, reversedBy : Payments \union {None}]

Invoice == [status : InvoiceStatuses, paid : Nat]

NoAllocations == [i \in Invoices |-> 0]

\* The payment id has no row yet: a row has a number.
NoPayment ==
    [type |-> "RECEIVED", number |-> 0, amount |-> 0, alloc |-> NoAllocations,
     reversalOf |-> None, reversedBy |-> None]

DraftInvoice == [status |-> "DRAFT", paid |-> 0]

Exists(p)     == pay[p].number # 0
IsReversal(p) == pay[p].reversalOf # None
IsReversed(p) == pay[p].reversedBy # None
Targets(alloc) == {i \in Invoices : alloc[i] > 0}

-----------------------------------------------------------------------------
(* Rules on one row *)

UnallocatedAmount(row) == row.amount - SumFunction(row.alloc)

reversePaymentType(type) == IF type = "MADE" THEN "RECEIVED" ELSE "MADE"

\* The rows Create may insert: the request's checks, without a number.
PaymentRequests ==
    {row \in [type : PaymentTypes, number : {0}, amount : Amounts,
              alloc : [Invoices -> Amounts \union {0}],
              reversalOf : {None}, reversedBy : {None}] :
        UnallocatedAmount(row) >= 0}

\* Mutant: the reversal carries the negated amount.
NegatedReversalOf(p, original) ==
    [original EXCEPT !.type = reversePaymentType(@), !.number = 0, !.amount = 0 - @,
                     !.reversalOf = p, !.reversedBy = None]

\* The row Reverse inserts for an original row.
ReversalOf(p, original) ==
    [original EXCEPT !.type = reversePaymentType(@), !.number = 0,
                     !.reversalOf = p, !.reversedBy = None]

unpaidInvoiceStatusAt(status, late) ==
    IF status \in {"DRAFT", "VOIDED"} THEN status
    ELSE IF late THEN "OVERDUE" ELSE "SENT"

\* Mutant: an invoice paid exactly stays partially paid.
PaidWhenExceeded(row, total, amount, late) ==
    LET newAmountPaid == row.paid + amount
    IN  IF newAmountPaid > total THEN [status |-> "PAID", paid |-> total]
        ELSE IF newAmountPaid > 0 THEN [status |-> "PARTIALLY_PAID", paid |-> newAmountPaid]
        ELSE [status |-> unpaidInvoiceStatusAt(row.status, late), paid |-> 0]

calculatePaymentUpdate(row, total, amount, late) ==
    LET newAmountPaid == row.paid + amount
    IN  IF newAmountPaid >= total THEN [status |-> "PAID", paid |-> total]
        ELSE IF newAmountPaid > 0 THEN [status |-> "PARTIALLY_PAID", paid |-> newAmountPaid]
        ELSE [status |-> unpaidInvoiceStatusAt(row.status, late), paid |-> 0]

UsedNumbers(type) == {pay[p].number : p \in {q \in Payments : Exists(q) /\ pay[q].type = type}}

\* Mutant: the sequence does not tell received from made payments.
SequenceOfBothTypes(type, n) ==
    LET used == UsedNumbers(type) \union UsedNumbers(reversePaymentType(type))
    IN  /\ \A m \in used : m < n
        /\ n = 1 \/ n - 1 \in used

\* n is the sequence after the highest one that payments of this type carry.
NextPaymentNumberSequence(type, n) ==
    LET used == UsedNumbers(type)
    IN  /\ \A m \in used : m < n
        /\ n = 1 \/ n - 1 \in used

-----------------------------------------------------------------------------
(* What the rows promise *)

TypeOK ==
    /\ pay \in [Payments -> Payment]
    /\ inv \in [Invoices -> Invoice]
    /\ pastDue \subseteq Invoices
    /\ sending \in [Senders -> Invoices \union {None}]

Original(p) == Exists(p) /\ ~IsReversal(p)
Live(p)     == Original(p) /\ ~IsReversed(p)

AllocatedBy(S, i) == SumFunctionOnSet([p \in Payments |-> pay[p].alloc[i]], S)
LiveAllocations(i) == AllocatedBy({p \in Payments : Live(p)}, i)
AllAllocations(i)  == AllocatedBy({p \in Payments : Original(p)}, i)

\* A payment never has more allocated to invoices than was paid, whichever
\* AllocateToInvoice calls ran concurrently: the check of the unallocated
\* balance and the insert are of one transaction (payments/service.go:348).
NoOverAllocation == \A p \in Payments : UnallocatedAmount(pay[p]) >= 0

\* A payment is reversed at most once, a reversal is never reversed, and the
\* two rows point at each other, mirror amount and allocations, and have
\* opposite types (payments/service.go:181, repository_gorm.go:98).
ReversalsPair ==
    \A p, q \in Payments :
        /\ pay[q].reversalOf = p =>
              /\ Exists(p) /\ Exists(q)
              /\ pay[p].reversedBy = q
              /\ ~IsReversal(p) /\ ~IsReversed(q)
              /\ pay[q].amount = pay[p].amount /\ pay[q].alloc = pay[p].alloc
              /\ pay[q].type # pay[p].type
        /\ pay[p].reversedBy = q => pay[q].reversalOf = p

\* Two payments of a type never share a number (MAX + 1 read without a lock,
\* under a UNIQUE constraint), and although a failed transaction may have read
\* a number, no number is skipped.
NumbersDense ==
    \A type \in PaymentTypes :
        LET rows == {p \in Payments : Exists(p) /\ pay[p].type = type}
        IN  UsedNumbers(type) = 1..Cardinality(rows)

\* What an invoice says it was paid is backed by allocations of payments that
\* still stand (invoicing/repository_gorm.go:223 promises that no payment is
\* lost; calculatePaymentUpdate clamps at zero and at the total).
PaidBackedByAllocations == \A i \in Invoices : inv[i].paid <= LiveAllocations(i)

\* As long as an invoice was never offered more than its total, no payment and
\* no reversal is lost: it says exactly what the standing allocations add to.
NoPaymentLost ==
    \A i \in Invoices :
        AllAllocations(i) <= Total[i] => inv[i].paid = LiveAllocations(i)

\* The status an invoice shows agrees with what it was paid. SENT and OVERDUE
\* are not constrained: Send may overwrite the status of a paid draft.
StatusMatchesPaid ==
    \A i \in Invoices :
        /\ inv[i].status = "PAID" => inv[i].paid = Total[i]
        /\ inv[i].status = "PARTIALLY_PAID" => inv[i].paid \in 1..(Total[i] - 1)
        /\ inv[i].status \in {"DRAFT", "VOIDED"} => inv[i].paid = 0

\* What the void error "cannot void invoice with payments" says of the code
\* (invoicing/repository_gorm.go:196): a voided invoice has no payment on it.
VoidedHasNoPayments ==
    \A i \in Invoices : inv[i].status = "VOIDED" => LiveAllocations(i) = 0
=============================================================================
