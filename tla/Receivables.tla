----------------------------- MODULE Receivables -----------------------------
(***************************************************************************)
(* What the payment and invoice services promise: every payment operation  *)
(* happens at once, or not at all.  PaymentTransactions implements this    *)
(* module with transactions, row locks and rollbacks.                      *)
(*                                                                         *)
(* Send is two steps here too: the code reads the invoice and updates its  *)
(* status in two statements of no transaction, so no atomic Send is        *)
(* promised by anything.                                                   *)
(***************************************************************************)
EXTENDS ReceivablesState

Init ==
    /\ pay = [p \in Payments |-> NoPayment]
    /\ inv = [i \in Invoices |-> DraftInvoice]
    /\ pastDue = {}
    /\ sending = [s \in Senders |-> None]

-----------------------------------------------------------------------------
(* Payments *)

\* RecordPayment on every invoice of alloc, the sign telling payment from
\* reversal. The clock may have been read before a due date that has passed
\* by now: late is any set of invoices that were past due.
RecordPayments(alloc, sign) ==
    /\ \A i \in Targets(alloc) : inv[i].status # "VOIDED"
    /\ \E late \in SUBSET pastDue :
          inv' = [i \in Invoices |->
                    IF i \in Targets(alloc)
                    THEN calculatePaymentUpdate(inv[i], Total[i], sign * alloc[i], i \in late)
                    ELSE inv[i]]

Numbered(row) == \E n \in Numbers \ UsedNumbers(row.type) : row.number = n

CreatePayment(p, row) ==
    /\ ~Exists(p)
    /\ [row EXCEPT !.number = 0] \in PaymentRequests
    /\ Numbered(row)
    /\ pay' = [pay EXCEPT ![p] = row]
    /\ RecordPayments(row.alloc, 1)
    /\ UNCHANGED <<pastDue, sending>>

ReversePayment(p, q, row) ==
    /\ Exists(p) /\ ~IsReversal(p) /\ ~IsReversed(p)
    /\ ~Exists(q)
    /\ [row EXCEPT !.number = 0] = ReversalOf(p, pay[p])
    /\ Numbered(row)
    /\ pay' = [pay EXCEPT ![p].reversedBy = q, ![q] = row]
    /\ RecordPayments(row.alloc, -1)
    /\ UNCHANGED <<pastDue, sending>>

AllocateToInvoice(p, i, amount) ==
    /\ Exists(p) /\ ~IsReversal(p) /\ ~IsReversed(p)
    /\ amount <= UnallocatedAmount(pay[p])
    /\ pay' = [pay EXCEPT ![p].alloc[i] = @ + amount]
    /\ RecordPayments([NoAllocations EXCEPT ![i] = amount], 1)
    /\ UNCHANGED <<pastDue, sending>>

-----------------------------------------------------------------------------
(* Invoices *)

\* Send, first statement: the invoice must be in draft.
SendRead(s, i) ==
    /\ sending[s] = None
    /\ inv[i].status = "DRAFT"
    /\ sending' = [sending EXCEPT ![s] = i]
    /\ UNCHANGED <<pay, inv, pastDue>>

\* Send, second statement: UpdateStatus writes SENT whatever the status is.
SendWrite(s) ==
    /\ sending[s] # None
    /\ inv' = [inv EXCEPT ![sending[s]].status = "SENT"]
    /\ sending' = [sending EXCEPT ![s] = None]
    /\ UNCHANGED <<pay, pastDue>>

VoidInvoice(i) ==
    /\ inv[i].status # "VOIDED"
    /\ inv[i].paid = 0
    /\ inv' = [inv EXCEPT ![i].status = "VOIDED"]
    /\ UNCHANGED <<pay, pastDue, sending>>

Overdue == {i \in pastDue : inv[i].status \in {"SENT", "PARTIALLY_PAID"} /\ inv[i].paid < Total[i]}

UpdateOverdueStatus ==
    /\ Overdue # {}
    /\ inv' = [i \in Invoices |->
                IF i \in Overdue THEN [inv[i] EXCEPT !.status = "OVERDUE"] ELSE inv[i]]
    /\ UNCHANGED <<pay, pastDue, sending>>

\* The clock passes an invoice's due date.
DueDatePasses(i) ==
    /\ i \notin pastDue
    /\ pastDue' = pastDue \union {i}
    /\ UNCHANGED <<pay, inv, sending>>

-----------------------------------------------------------------------------

\* The invoice operations, the sender's crash between its statements included.
SendCrash(s) ==
    /\ sending[s] # None
    /\ sending' = [sending EXCEPT ![s] = None]
    /\ UNCHANGED <<pay, inv, pastDue>>

InvoiceNext ==
    \/ \E s \in Senders : SendWrite(s) \/ SendCrash(s)
    \/ \E s \in Senders, i \in Invoices : SendRead(s, i)
    \/ \E i \in Invoices : VoidInvoice(i) \/ DueDatePasses(i)
    \/ UpdateOverdueStatus

NumberedRows(row) == {[row EXCEPT !.number = n] : n \in Numbers}

PaymentNext ==
    \/ \E p \in Payments, request \in PaymentRequests :
          \E row \in NumberedRows(request) : CreatePayment(p, row)
    \/ \E p, q \in Payments :
          \E row \in NumberedRows(ReversalOf(p, pay[p])) : ReversePayment(p, q, row)
    \/ \E p \in Payments, i \in Invoices, amount \in Amounts : AllocateToInvoice(p, i, amount)

Next == PaymentNext \/ InvoiceNext

Spec == Init /\ [][Next]_stateVars

-----------------------------------------------------------------------------
(* Properties *)

\* Send "verifies invoice exists and is in draft status"
\* (invoicing/service.go:182): only a draft becomes sent by it.
SendsOnlyDrafts ==
    [][\A s \in Senders : SendWrite(s) => inv[sending[s]].status = "DRAFT"]_stateVars
=============================================================================
