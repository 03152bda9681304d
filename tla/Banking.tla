------------------------------- MODULE Banking -------------------------------
(***************************************************************************)
(* internal/banking: statement import, matching of bank transactions to    *)
(* payments, payments made from bank transactions, and reconciliations,    *)
(* over the payments of Receivables, whose operations go on meanwhile.     *)
(*                                                                         *)
(* Every single statement is an action.  What is longer is a clerk's       *)
(* request: it reads rows in one statement and writes in a later one, and  *)
(* a crash between the two leaves what was written.  One bank account.     *)
(***************************************************************************)
EXTENDS ReceivablesState

CONSTANTS
    Lines,      \* statement lines
    Files,      \* the sets of lines that a file may hold
    LineRef,    \* the external id of each line, or None
    LineKey,    \* date and amount of each line, which the duplicate check compares
    LineType,   \* the payment type the sign of the amount asks for
    LineAmount, \* the absolute amount, which may be zero
    BankRows,   \* ids of bank transactions
    Reconciliations,
    Clerks,     \* requests that are under way at once
    Importers,  \* the clerks that import statements
    Matchers    \* the clerks that start auto-matching

ASSUME LinesAssumption ==
    /\ Files \subseteq SUBSET Lines
    /\ LineType \in [Lines -> PaymentTypes]
    /\ LineAmount \in [Lines -> Amounts \union {0}]
ASSUME ClerksAssumption == Importers \subseteq Clerks /\ Matchers \subseteq Clerks
ASSUME BankNoneAssumption == None \notin Lines \union BankRows \union Reconciliations

VARIABLES
    bank,     \* bank_transactions
    recon,    \* bank_reconciliations: the status of each
    clerk,    \* what each clerk's request has read
    made      \* history: the row a payment was created from, until it is unmatched

bankVars == <<bank, recon>>
vars     == <<stateVars, bankVars, clerk, made>>

R == INSTANCE Receivables WITH pay <- pay, inv <- inv, pastDue <- pastDue, sending <- sending

-----------------------------------------------------------------------------
(* Rows *)

BankRow ==
    [line : Lines \union {None}, status : {"NONE", "UNMATCHED", "MATCHED", "RECONCILED"},
     payment : Payments \union {None}, recon : Reconciliations \union {None},
     skipped : BOOLEAN,  \* history: imported with skip_duplicates
     by : {"nobody", "clerk", "program"}]  \* history: who chose the payment

NoRow == [line |-> None, status |-> "NONE", payment |-> None, recon |-> None,
          skipped |-> FALSE, by |-> "nobody"]

Requests ==
    [step : {"idle", "import", "insert", "create", "auto", "pick"},
     lines : SUBSET Lines, skip : BOOLEAN, line : Lines \union {None},
     rows : SUBSET BankRows, row : BankRows \union {None},
     payment : Payments \union {None}]

NoRequest == [step |-> "idle", lines |-> {}, skip |-> FALSE, line |-> None,
              rows |-> {}, row |-> None, payment |-> None]

Imported  == {b \in BankRows : bank[b].status # "NONE"}
Unmatched == {b \in BankRows : bank[b].status = "UNMATCHED"}
Linked(p) == {b \in BankRows : bank[b].payment = p}

Init ==
    /\ R!Init
    /\ bank = [b \in BankRows |-> NoRow]
    /\ recon = [r \in Reconciliations |-> "NONE"]
    /\ clerk = [c \in Clerks |-> NoRequest]
    /\ made = [p \in Payments |-> None]

-----------------------------------------------------------------------------
(* ImportTransactions: line by line, each a check and an insert *)

SameTransaction(l, m) ==
    (LineRef[l] # None /\ LineRef[l] = LineRef[m]) \/ LineKey[l] = LineKey[m]

\* Mutant: the external ids are not compared.
DuplicateDateAmount(l) == \E b \in Imported : LineKey[l] = LineKey[bank[b].line]

IsTransactionDuplicate(l) == \E b \in Imported : SameTransaction(l, bank[b].line)

Idle(c)       == clerk[c].step = "idle"
ClerkStep(c, request) == clerk' = [clerk EXCEPT ![c] = request]

\* The request ends with its last line or row.
Goes(request) == IF request.lines = {} /\ request.rows = {} THEN NoRequest ELSE request

StartImport(c, lines, skip) ==
    /\ Idle(c) /\ c \in Importers /\ lines # {}
    /\ ClerkStep(c, [NoRequest EXCEPT !.step = "import", !.lines = lines, !.skip = skip])
    /\ UNCHANGED <<stateVars, bankVars, made>>

\* A line that is invalid, of another account or currency, already imported, or
\* whose check fails is left out.
LeaveOut(c, l) ==
    /\ clerk[c].step = "import" /\ l \in clerk[c].lines
    /\ ClerkStep(c, Goes([clerk[c] EXCEPT !.lines = @ \ {l}]))
    /\ UNCHANGED <<stateVars, bankVars, made>>

CheckLine(c, l) ==
    /\ clerk[c].step = "import" /\ l \in clerk[c].lines
    /\ clerk[c].skip => ~IsTransactionDuplicate(l)
    /\ ClerkStep(c, [clerk[c] EXCEPT !.step = "insert", !.lines = @ \ {l}, !.line = l])
    /\ UNCHANGED <<stateVars, bankVars, made>>

CreateTransaction(c, b) ==
    /\ clerk[c].step = "insert" /\ b \notin Imported
    /\ bank' = [bank EXCEPT ![b] = [NoRow EXCEPT !.line = clerk[c].line, !.status = "UNMATCHED",
                                                 !.skipped = clerk[c].skip]]
    /\ ClerkStep(c, Goes([clerk[c] EXCEPT !.step = "import", !.line = None]))
    /\ UNCHANGED <<stateVars, recon, made>>

-----------------------------------------------------------------------------
(* Matching: single UPDATEs whose WHERE names the status *)

\* Mutant: the UPDATE names the row only.
AnyStatus(b) == b \in Imported

Matchable(b) == b \in Unmatched

LinkedTo(b, p, by) ==
    [bank EXCEPT ![b].status = "MATCHED", ![b].payment = p, ![b].by = by]

\* The foreign key wants the payment to exist; nothing asks whether another
\* row is matched to it, what its amount is or whether it was reversed.
MatchTransaction(b, p) ==
    /\ Matchable(b) /\ Exists(p)
    /\ bank' = LinkedTo(b, p, "clerk")
    /\ UNCHANGED <<stateVars, recon, clerk, made>>

\* Mutant: the payment stays on the row.
StatusOnly(b) == [bank EXCEPT ![b].status = "UNMATCHED"]

Unlinked(b) == [bank EXCEPT ![b].status = "UNMATCHED", ![b].payment = None, ![b].by = "nobody"]

\* A row that was added to a reconciliation stays in it.
UnmatchTransaction(b) ==
    /\ bank[b].status = "MATCHED"
    /\ bank' = Unlinked(b)
    /\ made' = [p \in Payments |-> IF p = bank[b].payment /\ made[p] = b THEN None ELSE made[p]]
    /\ UNCHANGED <<stateVars, recon, clerk>>

-----------------------------------------------------------------------------
(* CreatePaymentFromTransaction *)

StartCreate(c, b) ==
    /\ Idle(c) /\ b \in Unmatched
    /\ ClerkStep(c, [NoRequest EXCEPT !.step = "create", !.row = b])
    /\ UNCHANGED <<stateVars, bankVars, made>>

\* Mutant: the payment of an outgoing transaction carries the signed amount.
SignedPaymentFrom(l, n) ==
    [NoPayment EXCEPT !.type = LineType[l], !.amount = 0 - LineAmount[l], !.number = n]

PaymentFrom(l, n) ==
    [type |-> LineType[l], number |-> n, amount |-> LineAmount[l],
     alloc |-> NoAllocations, reversalOf |-> None, reversedBy |-> None]

\* Mutant: that no row was updated is not an error.
LinkIfUnmatched(b, p) ==
    bank' = IF b \in Unmatched THEN LinkedTo(b, p, "program") ELSE bank

LinkOrFail(b, p) == b \in Unmatched /\ bank' = LinkedTo(b, p, "program")

\* One transaction; it rolls back (Fail) when the row is no longer unmatched or
\* another payment took the number.
CommitCreate(c, p) ==
    LET b == clerk[c].row
    IN  /\ clerk[c].step = "create" /\ ~Exists(p)
        /\ \E n \in Numbers :
              /\ NextPaymentNumberSequence(LineType[bank[b].line], n)
              /\ pay' = [pay EXCEPT ![p] = PaymentFrom(bank[b].line, n)]
        /\ LinkOrFail(b, p)
        /\ made' = [made EXCEPT ![p] = b]
        /\ ClerkStep(c, NoRequest)
        /\ UNCHANGED <<inv, pastDue, sending, recon>>

-----------------------------------------------------------------------------
(* AutoMatchTransactions: for each row read as unmatched, list and match *)

\* Mutant: a payment that a row is matched to is listed.
PaymentsWithBalance(type) ==
    {p \in Payments : Exists(p) /\ pay[p].type = type /\ UnallocatedAmount(pay[p]) > 0}

ListPaymentMatchCandidates(type) ==
    {p \in Payments : /\ Exists(p) /\ pay[p].type = type
                      /\ UnallocatedAmount(pay[p]) > 0
                      /\ Linked(p) = {}}

StartAutoMatch(c) ==
    /\ Idle(c) /\ c \in Matchers /\ Unmatched # {}
    /\ ClerkStep(c, [NoRequest EXCEPT !.step = "auto", !.rows = Unmatched])
    /\ UNCHANGED <<stateVars, bankVars, made>>

\* Scores, rules and the gap to the second best decide: any candidate, or none.
PickMatch(c, b, p) ==
    /\ clerk[c].step = "auto" /\ b \in clerk[c].rows
    /\ p \in ListPaymentMatchCandidates(LineType[bank[b].line])
    /\ ClerkStep(c, [clerk[c] EXCEPT !.step = "pick", !.rows = @ \ {b}, !.row = b, !.payment = p])
    /\ UNCHANGED <<stateVars, bankVars, made>>

NoMatch(c, b) ==
    /\ clerk[c].step = "auto" /\ b \in clerk[c].rows
    /\ ClerkStep(c, Goes([clerk[c] EXCEPT !.rows = @ \ {b}]))
    /\ UNCHANGED <<stateVars, bankVars, made>>

\* The same UPDATE as MatchTransaction; that no row was updated is passed over.
MatchPicked(c) ==
    /\ clerk[c].step = "pick"
    /\ bank' = IF Matchable(clerk[c].row) THEN LinkedTo(clerk[c].row, clerk[c].payment, "program") ELSE bank
    /\ ClerkStep(c, Goes([clerk[c] EXCEPT !.step = "auto", !.row = None, !.payment = None]))
    /\ UNCHANGED <<stateVars, recon, made>>

-----------------------------------------------------------------------------
(* Reconciliations *)

CreateReconciliation(r) ==
    /\ recon[r] = "NONE"
    /\ recon' = [recon EXCEPT ![r] = "IN_PROGRESS"]
    /\ UNCHANGED <<stateVars, bank, clerk, made>>

\* Asks neither for the row's status nor for the reconciliation's.
AddTransactionToReconciliation(b, r) ==
    /\ b \in Imported /\ recon[r] # "NONE" /\ bank[b].recon # r
    /\ bank' = [bank EXCEPT ![b].recon = r]
    /\ UNCHANGED <<stateVars, recon, clerk, made>>

MatchedIn(r) == {b \in BankRows : bank[b].recon = r /\ bank[b].status = "MATCHED"}

\* One transaction, after requireApprovedReconciliationEvidence has read the
\* documents of the rows that were matched then: they may be any, and the
\* update below reads none of what that check read.
CompleteReconciliation(r) ==
    /\ recon[r] = "IN_PROGRESS"
    /\ recon' = [recon EXCEPT ![r] = "COMPLETED"]
    /\ bank' = [b \in BankRows |-> IF b \in MatchedIn(r)
                                   THEN [bank[b] EXCEPT !.status = "RECONCILED"]
                                   ELSE bank[b]]
    /\ UNCHANGED <<stateVars, clerk, made>>

-----------------------------------------------------------------------------

\* A statement of the request failed, or the server stopped.
Fail(c) ==
    /\ ~Idle(c)
    /\ ClerkStep(c, NoRequest)
    /\ UNCHANGED <<stateVars, bankVars, made>>

\* Everything else that happens to payments.
PaymentStep == R!PaymentNext /\ UNCHANGED <<bankVars, clerk, made>>

ImportStep(c) ==
    \/ \E lines \in Files, skip \in BOOLEAN : StartImport(c, lines, skip)
    \/ \E l \in Lines : LeaveOut(c, l) \/ CheckLine(c, l)
    \/ \E b \in BankRows : CreateTransaction(c, b)

AutoMatchStep(c) ==
    \/ StartAutoMatch(c)
    \/ \E b \in BankRows, p \in Payments : PickMatch(c, b, p)
    \/ \E b \in BankRows : NoMatch(c, b)
    \/ MatchPicked(c)

CreateStep(c) ==
    \/ \E b \in BankRows : StartCreate(c, b)
    \/ \E p \in Payments : CommitCreate(c, p)

RowStep ==
    \E b \in BankRows :
        \/ \E p \in Payments : MatchTransaction(b, p)
        \/ UnmatchTransaction(b)
        \/ \E r \in Reconciliations : AddTransactionToReconciliation(b, r)

Next ==
    \/ \E c \in Clerks : ImportStep(c) \/ AutoMatchStep(c) \/ CreateStep(c) \/ Fail(c)
    \/ RowStep
    \/ \E r \in Reconciliations : CreateReconciliation(r) \/ CompleteReconciliation(r)
    \/ PaymentStep

Spec == Init /\ [][Next]_vars

-----------------------------------------------------------------------------
(* Properties *)

\* A row has a payment exactly when its status says so, and the payment exists.
BankTypeOK ==
    /\ TypeOK
    /\ bank \in [BankRows -> BankRow]
    /\ recon \in [Reconciliations -> {"NONE", "IN_PROGRESS", "COMPLETED"}]
    /\ clerk \in [Clerks -> Requests]
    /\ made \in [Payments -> BankRows \union {None}]
    /\ \A b \in BankRows :
          /\ bank[b].payment # None <=> bank[b].status \in {"MATCHED", "RECONCILED"}
          /\ bank[b].payment # None => Exists(bank[b].payment)
          /\ bank[b].line # None <=> b \in Imported

\* The payment of an unmatched row whose line has no amount: the payment service
\* refuses to make one (payments/service.go:69).
PaysNothing(b, p) ==
    /\ b \in Unmatched /\ LineAmount[bank[b].line] = 0 /\ bank'[b].payment = p
    /\ ~Exists(p)
    /\ \E n \in Numbers \ UsedNumbers(LineType[bank[b].line]) :
          pay' = [pay EXCEPT ![p] = [type |-> LineType[bank[b].line], number |-> n, amount |-> 0,
                                     alloc |-> NoAllocations, reversalOf |-> None, reversedBy |-> None]]
    /\ UNCHANGED <<inv, pastDue, sending>>

\* The payments that banking inserts, past the payment service, are payments
\* that the service could have made: type, amount and number are as there
\* (repository_gorm.go:547-577). Only a line of zero is paid as the service
\* would not. Without that case this is R!Spec; the stutter is named first for
\* TLC to find it before it enumerates payments.
PaymentsAsPromised ==
    /\ R!Init
    /\ [][\/ UNCHANGED stateVars \/ R!Next
          \/ \E b \in BankRows, p \in Payments : PaysNothing(b, p)]_vars

\* As long as one statement is imported at a time, no transaction is imported
\* twice by requests that skip duplicates, although check and insert are two
\* statements, imports stop halfway and are repeated (transaction_import.go:54).
ImportedOnce ==
    \A a, b \in Imported :
        SameTransaction(bank[a].line, bank[b].line) /\ bank[a].skipped /\ bank[b].skipped => a = b

\* A payment created from a bank transaction is matched to it until somebody
\* unmatches it: however many clerks create one from the same row, no payment
\* is left over (repository_gorm.go:591).
NoPaymentLeftOver ==
    \A p \in Payments : made[p] # None => bank[made[p]].payment = p

\* Auto-matching, one run at a time, never matches two bank transactions to one
\* payment: only a clerk who names a payment can (repository_gorm.go:406, 436).
AutoMatchesDistinct ==
    \A a, b \in BankRows :
        bank[a].payment = bank[b].payment /\ bank[a].payment # None =>
            a = b \/ "clerk" \in {bank[a].by, bank[b].by}

\* Whatever two clerks, auto-matching and reconciliation do at once, a match is
\* never overwritten by another, and what is reconciled stays as it is
\* (repository_gorm.go:436-476).
MatchesStand ==
    [][\A b \in BankRows :
         /\ bank[b].payment # None => bank'[b].payment \in {bank[b].payment, None}
         /\ bank[b].status = "RECONCILED" =>
               bank'[b].status = "RECONCILED" /\ bank'[b].payment = bank[b].payment]_vars
=============================================================================
