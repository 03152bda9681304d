------------------------ MODULE PaymentTransactions ------------------------
(***************************************************************************)
(* Create, Reverse and AllocateToInvoice as the code runs them: each is    *)
(* one PostgreSQL READ COMMITTED transaction of several statements, and    *)
(* the statements of concurrent transactions interleave.                   *)
(*                                                                         *)
(*   - FOR UPDATE on the payment (GetByIDForUpdate) and on an invoice      *)
(*     (applyPayment) is held to the end of the transaction;               *)
(*   - inserting an allocation checks its foreign key, which locks the     *)
(*     invoice row FOR KEY SHARE: that conflicts with FOR UPDATE only;     *)
(*   - inserting a payment number another transaction has inserted and     *)
(*     not committed waits for that transaction, UNIQUE then decides;      *)
(*   - any error, a cancelled request or a server crash rolls back, and    *)
(*     the database rolls back one transaction of a deadlock.              *)
(*                                                                         *)
(* pay and inv hold what is committed, tx what each transaction has done.  *)
(***************************************************************************)
EXTENDS ReceivablesState

CONSTANT Tx  \* database connections of the pool

VARIABLE tx

vars == <<stateVars, tx>>

R == INSTANCE Receivables

-----------------------------------------------------------------------------
(* A transaction *)

\* row is the payment to insert (for AllocateToInvoice only its alloc counts)
\* and new its id; target is the payment locked FOR UPDATE. In "run" the
\* transaction inserts the allocations of row in the given order, then records
\* the payment on the same invoices in the same order; step counts both.
\* invoice holds the invoice rows it has updated.
Transactions ==
    [op : {"none", "create", "reverse", "allocate"},
     pc : {"idle", "lock", "number", "insert", "run"},
     target : Payments \union {None}, new : Payments \union {None},
     row : Payment, order : Seq(Invoices),
     step : Nat, invoice : [Invoices -> Invoice]]

Idle ==
    [op |-> "none", pc |-> "idle", target |-> None, new |-> None, row |-> NoPayment,
     order |-> <<>>, step |-> 0, invoice |-> [i \in Invoices |-> DraftInvoice]]

\* Mutant: a reversal is recorded like a payment.
AlwaysAdds(t) == 1

Sign(t) == IF tx[t].op = "reverse" THEN -1 ELSE 1

\* The statements of "run": Len(order) allocations, then as many payments.
Width(t)     == Len(tx[t].order)
Inserting(t) == tx[t].pc = "run" /\ tx[t].step < Width(t)
Recording(t) == tx[t].pc = "run" /\ tx[t].step >= Width(t) /\ tx[t].step < 2 * Width(t)
Finished(t)  == tx[t].pc = "run" /\ tx[t].step = 2 * Width(t)

NextInvoice(t) ==
    tx[t].order[IF Inserting(t) THEN tx[t].step + 1 ELSE tx[t].step + 1 - Width(t)]

-----------------------------------------------------------------------------
(* Locks, as functions of how far each transaction is *)

\* Mutant: the payment is read without FOR UPDATE.
ReadsPayment(t, p) == FALSE

HoldsPayment(t, p) == tx[t].target = p /\ tx[t].pc \in {"number", "insert", "run"}

HoldsNumber(t)     == tx[t].pc = "run" /\ tx[t].new # None

\* FOR UPDATE, by applyPayment.
LocksInvoice(t, i) ==
    /\ tx[t].pc = "run"
    /\ \E k \in 1..Width(t) : tx[t].order[k] = i /\ k + Width(t) <= tx[t].step

\* FOR KEY SHARE, by the foreign key of an inserted allocation.
SharesInvoice(t, i) ==
    /\ tx[t].pc = "run"
    /\ \E k \in 1..Width(t) : tx[t].order[k] = i /\ k <= tx[t].step

WaitsForNumber(t, u) ==
    /\ tx[t].pc = "insert" /\ HoldsNumber(u)
    /\ tx[u].row.type = tx[t].row.type /\ tx[u].row.number = tx[t].row.number

WaitsForInvoice(t, u) ==
    \/ Inserting(t) /\ LocksInvoice(u, NextInvoice(t))
    \/ Recording(t) /\ (LocksInvoice(u, NextInvoice(t)) \/ SharesInvoice(u, NextInvoice(t)))

WaitsFor(t, u) ==
    /\ t # u
    /\ \/ tx[t].pc = "lock" /\ HoldsPayment(u, tx[t].target)
       \/ WaitsForNumber(t, u)
       \/ WaitsForInvoice(t, u)

Blocked(t) == \E u \in Tx : WaitsFor(t, u)

\* A set of transactions that all wait for one of the set, and no smaller one.
Deadlock(S) ==
    LET Stuck(s) == s # {} /\ \A t \in s : \E u \in s : WaitsFor(t, u)
    IN  Stuck(S) /\ \A s \in (SUBSET S) \ {S} : ~Stuck(s)

-----------------------------------------------------------------------------
(* Begin: the checks of a request that read no row *)

Init ==
    /\ R!Init
    /\ tx = [t \in Tx |-> Idle]

BeginCreate(t) ==
    /\ tx[t].pc = "idle"
    /\ \E p \in Payments, row \in PaymentRequests :
        /\ ~Exists(p) /\ \A u \in Tx : tx[u].new # p
        /\ \E order \in SetToSeqs(Targets(row.alloc)) :
              tx' = [tx EXCEPT ![t] = [Idle EXCEPT !.op = "create", !.pc = "number",
                                                   !.new = p, !.row = row, !.order = order]]
    /\ UNCHANGED stateVars

BeginReverse(t) ==
    /\ tx[t].pc = "idle"
    /\ \E p, q \in Payments :
        /\ Exists(p)
        /\ ~Exists(q) /\ \A u \in Tx : tx[u].new # q
        /\ tx' = [tx EXCEPT ![t] = [Idle EXCEPT !.op = "reverse", !.pc = "lock",
                                                !.target = p, !.new = q]]
    /\ UNCHANGED stateVars

BeginAllocate(t) ==
    /\ tx[t].pc = "idle"
    /\ \E p \in Payments, i \in Invoices, amount \in Amounts :
        /\ Exists(p)
        /\ tx' = [tx EXCEPT ![t] = [Idle EXCEPT !.op = "allocate", !.pc = "lock", !.target = p,
                                                !.row.alloc[i] = amount, !.order = <<i>>]]
    /\ UNCHANGED stateVars

Rollback(t) == tx' = [tx EXCEPT ![t] = Idle] /\ UNCHANGED stateVars

-----------------------------------------------------------------------------
(* Statements *)

\* getPaymentForUpdate and the checks on what it returns. A reversal also
\* reads the original's allocations, in no particular order.
LockForReverse(t) ==
    LET p == tx[t].target
    IN  /\ tx[t].pc = "lock" /\ tx[t].op = "reverse" /\ ~Blocked(t)
        /\ IF IsReversal(p) \/ IsReversed(p)
           THEN Rollback(t)
           ELSE /\ \E order \in SetToSeqs(Targets(pay[p].alloc)) :
                      tx' = [tx EXCEPT ![t].pc = "number", ![t].order = order,
                                       ![t].row = ReversalOf(p, pay[p])]
                /\ UNCHANGED stateVars

\* Mutant: an allocation that exceeds the balance waits for it to grow.
WaitForBalance(t) ==
    /\ tx[t].pc = "lock" /\ tx[t].op = "allocate" /\ ~Blocked(t)
    /\ tx[t].row.alloc[tx[t].order[1]] <= UnallocatedAmount(pay[tx[t].target])
    /\ tx' = [tx EXCEPT ![t].pc = "run"]
    /\ UNCHANGED stateVars

LockForAllocate(t) ==
    LET p == tx[t].target
    IN  /\ tx[t].pc = "lock" /\ tx[t].op = "allocate" /\ ~Blocked(t)
        /\ IF /\ ~IsReversal(p) /\ ~IsReversed(p)
              /\ tx[t].row.alloc[tx[t].order[1]] <= UnallocatedAmount(pay[p])
           THEN tx' = [tx EXCEPT ![t].pc = "run"] /\ UNCHANGED stateVars
           ELSE Rollback(t)

\* GetNextPaymentNumber sees committed payments only.
ReadNumber(t) ==
    /\ tx[t].pc = "number"
    /\ \E n \in Numbers :
        /\ NextPaymentNumberSequence(tx[t].row.type, n)
        /\ tx' = [tx EXCEPT ![t].pc = "insert", ![t].row.number = n]
    /\ UNCHANGED stateVars

\* repo.Create, or createReversal up to its allocations. The update there that
\* marks the original reversed is of the row this transaction has locked.
InsertPayment(t) ==
    /\ tx[t].pc = "insert" /\ ~Blocked(t)
    /\ IF \/ tx[t].row.number \in UsedNumbers(tx[t].row.type)
          \/ tx[t].op = "reverse" /\ IsReversed(tx[t].target)
       THEN Rollback(t)
       ELSE tx' = [tx EXCEPT ![t].pc = "run"] /\ UNCHANGED stateVars

InsertAllocation(t) ==
    /\ Inserting(t) /\ ~Blocked(t)
    /\ tx' = [tx EXCEPT ![t].step = @ + 1]
    /\ UNCHANGED stateVars

\* Mutant: the invoice is read without FOR UPDATE.
RecordWithoutLock(t) ==
    LET i == NextInvoice(t)
    IN  /\ Recording(t)
        /\ inv[i].status # "VOIDED"
        /\ tx' = [tx EXCEPT ![t].step = @ + 1,
                     ![t].invoice[i] = calculatePaymentUpdate(inv[i], Total[i],
                                          Sign(t) * tx[t].row.alloc[i], i \in pastDue)]
        /\ UNCHANGED stateVars

\* RecordPayment, by applyPayment: lock the invoice, then read and update it.
RecordPayment(t) ==
    LET i == NextInvoice(t)
    IN  /\ Recording(t) /\ ~Blocked(t)
        /\ IF inv[i].status = "VOIDED"
           THEN Rollback(t)
           ELSE /\ tx' = [tx EXCEPT ![t].step = @ + 1,
                            ![t].invoice[i] = calculatePaymentUpdate(inv[i], Total[i],
                                                 Sign(t) * tx[t].row.alloc[i], i \in pastDue)]
                /\ UNCHANGED stateVars

\* Mutant: the original is not marked reversed.
ReversalNotMarked(t) ==
    IF tx[t].op = "allocate"
    THEN [pay EXCEPT ![tx[t].target].alloc[tx[t].order[1]] =
                        @ + tx[t].row.alloc[tx[t].order[1]]]
    ELSE [pay EXCEPT ![tx[t].new] = tx[t].row]

\* What the transaction wrote becomes visible at once.
WrittenPayments(t) ==
    CASE tx[t].op = "create"   -> [pay EXCEPT ![tx[t].new] = tx[t].row]
      [] tx[t].op = "reverse"  -> [pay EXCEPT ![tx[t].target].reversedBy = tx[t].new,
                                              ![tx[t].new] = tx[t].row]
      [] tx[t].op = "allocate" ->
            LET i == tx[t].order[1]
            IN  [pay EXCEPT ![tx[t].target].alloc[i] = @ + tx[t].row.alloc[i]]

WrittenInvoices(t) ==
    [i \in Invoices |-> IF LocksInvoice(t, i) THEN tx[t].invoice[i] ELSE inv[i]]

Commit(t) ==
    /\ Finished(t)
    /\ pay' = WrittenPayments(t)
    /\ inv' = WrittenInvoices(t)
    /\ tx' = [tx EXCEPT ![t] = Idle]
    /\ UNCHANGED <<pastDue, sending>>

\* A lost connection, a cancelled request, a crash of the server.
Fail(t) == tx[t].pc # "idle" /\ Rollback(t)

\* The database's deadlock detector picks a victim; nothing retries it.
DeadlockVictim(t) ==
    /\ \E S \in SUBSET Tx : t \in S /\ Deadlock(S)
    /\ Rollback(t)

-----------------------------------------------------------------------------
(* Single statements, and the clock *)

\* No transaction has the invoice locked FOR UPDATE. FOR KEY SHARE does not
\* stop an update of status.
Unlocked(i) == \A t \in Tx : ~LocksInvoice(t, i)

SendWrite(s) ==
    /\ sending[s] # None => Unlocked(sending[s])
    /\ R!SendWrite(s)
    /\ UNCHANGED tx

\* Mutant: the invoice is checked before the update, and not by it.
VoidWithoutLock(i) ==
    /\ R!VoidInvoice(i)
    /\ UNCHANGED tx

VoidInvoice(i) ==
    /\ Unlocked(i)
    /\ R!VoidInvoice(i)
    /\ UNCHANGED tx

UpdateOverdueStatus ==
    /\ \A i \in R!Overdue : Unlocked(i)
    /\ R!UpdateOverdueStatus
    /\ UNCHANGED tx

OtherStep ==
    /\ \/ \E s \in Senders : R!SendCrash(s)
       \/ \E s \in Senders, i \in Invoices : R!SendRead(s, i)
       \/ \E i \in Invoices : R!DueDatePasses(i)
    /\ UNCHANGED tx

-----------------------------------------------------------------------------

Begin(t) == BeginCreate(t) \/ BeginReverse(t) \/ BeginAllocate(t)

Statement(t) ==
    \/ LockForReverse(t) \/ LockForAllocate(t) \/ ReadNumber(t)
    \/ InsertPayment(t) \/ InsertAllocation(t) \/ RecordPayment(t) \/ Commit(t)

Next ==
    \/ \E t \in Tx : Begin(t) \/ Statement(t) \/ Fail(t) \/ DeadlockVictim(t)
    \/ \E s \in Senders : SendWrite(s)
    \/ \E i \in Invoices : VoidInvoice(i)
    \/ UpdateOverdueStatus
    \/ OtherStep

Spec == Init /\ [][Next]_vars

\* The server goes on with a transaction whenever its next statement can run,
\* a lock that is free again and again is granted in the end (waiters queue),
\* and the deadlock detector runs after deadlock_timeout.
FairSpec ==
    /\ Spec
    /\ \A t \in Tx : SF_vars(Statement(t)) /\ WF_vars(DeadlockVictim(t))

-----------------------------------------------------------------------------
(* Properties *)

TxTypeOK == TypeOK /\ tx \in [Tx -> Transactions]

\* No two transactions that are past GetByIDForUpdate spend or reverse the same
\* payment.
PaymentsExclusive ==
    \A t, u \in Tx, p \in Payments : HoldsPayment(t, p) /\ HoldsPayment(u, p) => t = u

\* A transaction that has locked an invoice is the only one with any lock on it.
InvoicesExclusive ==
    \A t, u \in Tx, i \in Invoices : LocksInvoice(t, i) /\ SharesInvoice(u, i) => t = u

\* What a transaction computed for an invoice is still what the committed row
\* gives: nobody changed the row between its read and the commit.
UpdatesNotStale ==
    \A t \in Tx, i \in Invoices :
        LocksInvoice(t, i) =>
            /\ inv[i].status # "VOIDED"
            /\ \E late \in BOOLEAN :
                 /\ late => i \in pastDue
                 /\ tx[t].invoice[i] = calculatePaymentUpdate(inv[i], Total[i],
                                           Sign(t) * tx[t].row.alloc[i], late)

\* The order of a transaction names each invoice it allocates to once.
OrderOK(t) ==
    /\ \A i \in Targets(tx[t].row.alloc) : \E k \in 1..Width(t) : tx[t].order[k] = i
    /\ \A k \in 1..Width(t) : tx[t].order[k] \in Targets(tx[t].row.alloc)
    /\ \A k, l \in 1..Width(t) : tx[t].order[k] = tx[t].order[l] => k = l
    /\ tx[t].step <= 2 * Width(t)

Unnumbered(t) == [tx[t].row EXCEPT !.number = 0]

\* The checks a transaction passed still hold.
CreateOK(t) ==
    tx[t].op = "create" =>
        /\ tx[t].target = None /\ tx[t].new # None
        /\ tx[t].pc \in {"number", "insert", "run"}
        /\ Unnumbered(t) \in PaymentRequests
        /\ OrderOK(t)

ReverseOK(t) ==
    tx[t].op = "reverse" =>
        /\ tx[t].target # None /\ tx[t].new # None /\ Exists(tx[t].target)
        /\ tx[t].pc \in {"number", "insert", "run"} =>
              /\ ~IsReversal(tx[t].target) /\ ~IsReversed(tx[t].target)
              /\ Unnumbered(t) = ReversalOf(tx[t].target, pay[tx[t].target])
              /\ OrderOK(t)

AllocateOK(t) ==
    tx[t].op = "allocate" =>
        /\ tx[t].target # None /\ tx[t].new = None /\ Exists(tx[t].target)
        /\ tx[t].pc \in {"lock", "run"}
        /\ OrderOK(t)
        /\ \E i \in Invoices, amount \in Amounts :
             /\ tx[t].order = <<i>>
             /\ tx[t].row.alloc = [NoAllocations EXCEPT ![i] = amount]
             /\ tx[t].pc = "run" =>
                   /\ ~IsReversal(tx[t].target) /\ ~IsReversed(tx[t].target)
                   /\ amount <= UnallocatedAmount(pay[tx[t].target])

\* No other transaction and no committed payment has the id, or once it is
\* inserted the number, of the payment a transaction creates.
NewOK ==
    \A t \in Tx :
        /\ tx[t].op = "none" <=> tx[t].pc = "idle"
        /\ tx[t].op = "none" => tx[t].new = None
        /\ tx[t].pc # "run" => tx[t].step = 0
        /\ tx[t].pc = "insert" => tx[t].row.number \in Numbers
        /\ tx[t].new # None =>
              ~Exists(tx[t].new) /\ \A u \in Tx : tx[u].new = tx[t].new => t = u
        /\ HoldsNumber(t) =>
              /\ tx[t].row.number \in Numbers \ UsedNumbers(tx[t].row.type)
              /\ \A u \in Tx :
                    HoldsNumber(u) /\ tx[u].row.type = tx[t].row.type
                                  /\ tx[u].row.number = tx[t].row.number => t = u

\* What makes every commit a step of Receivables.
TxInv ==
    /\ TxTypeOK /\ PaymentsExclusive /\ InvoicesExclusive /\ UpdatesNotStale /\ NewOK
    /\ \A t \in Tx : CreateOK(t) /\ ReverseOK(t) /\ AllocateOK(t)

\* Every payment operation is atomic: the committed rows move as Receivables
\* moves them, whatever the statements interleave with.
ImplementsReceivables == R!Spec

\* A payment is recorded on no invoice that is voided, whether it was voided
\* before the transaction or while it ran (VoidInvoice's predicates are part of
\* its update, invoicing/repository_gorm.go:166).
VoidedNotPaid ==
    [][\A i \in Invoices : inv[i].status = "VOIDED" => inv'[i].paid = inv[i].paid]_vars

\* Voiding is final but for a Send that read the invoice while it was a draft:
\* no payment, reversal or overdue run, whatever it read before, brings a
\* voided invoice back.
VoidedOnlySent ==
    [][\A i \in Invoices :
         inv[i].status = "VOIDED" =>
            inv'[i] = inv[i] \/ \E s \in Senders : sending[s] = i /\ sending'[s] = None]_vars

\* Every transaction ends, although two payments of one invoice deadlock.
TransactionsEnd == \A t \in Tx : tx[t].pc # "idle" ~> tx[t].pc = "idle"
=============================================================================
