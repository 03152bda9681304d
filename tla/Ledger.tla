-------------------------------- MODULE Ledger --------------------------------
(***************************************************************************)
(* The journal of internal/accounting: entries that are drafted, posted    *)
(* and voided by a reversing entry, the balances the reports compute from  *)
(* the posted ones, and the year-end carry-forward lines.  Each action is  *)
(* one database transaction; YearEnd composes them into the requests that  *)
(* call them, with what those read before.                                 *)
(*                                                                         *)
(* An entry's lines are summed per account, debits minus credits, once in  *)
(* the currency of each line (raw) and once in the base currency (base).   *)
(* A date is the number of a day, as in PeriodClose.                       *)
(***************************************************************************)
EXTENDS Integers, Sequences, FiniteSets, Functions

CONSTANTS
    Accounts, Revenue, Expense,  \* the chart of accounts and its P&L part
    RetainedEarnings,            \* the account findRetainedEarningsAccount finds
    MaxEntries                   \* bound on the journal entries

ASSUME AccountsAssumption ==
    /\ IsFiniteSet(Accounts)
    /\ Revenue \union Expense \subseteq Accounts
    /\ Revenue \intersect Expense = {}
    /\ RetainedEarnings \in Accounts \ (Revenue \union Expense)
    /\ MaxEntries \in Nat

VARIABLE entries  \* the journal_entries table, in the order of creation

ProfitAndLoss == Revenue \union Expense

Lines == [raw : [Accounts -> Int], base : [Accounts -> Int]]

NoLines == [raw |-> [a \in Accounts |-> 0], base |-> [a \in Accounts |-> 0]]

CarryForwardSources == {"YEAR_END_CARRY_FORWARD", "YEAR_END_CARRY_FORWARD_REVERSAL"}
ReversalSources     == {"VOID", "YEAR_END_CARRY_FORWARD_REVERSAL"}

\* What source_type and source_id link an entry to: the entry that a reversal
\* reverses, or the last day of the year that a carry-forward closes. "MANUAL"
\* stands for every other source.
Link == [source : {"MANUAL", "VOID"} \union CarryForwardSources, of : Nat]

NoLink == [source |-> "MANUAL", of |-> 0]

\* History: "own" says that the program chose the link, and not a client;
\* "created" is the number of period-close events before the entry.
JournalEntry ==
    [status : {"DRAFT", "POSTED", "VOIDED"}, date : Nat, lines : Lines, link : Link,
     own : BOOLEAN, created : Nat]

LedgerInit == entries = <<>>

Total(f, S) == SumFunctionOnSet(f, S)

-----------------------------------------------------------------------------
(* Balances *)

Posted == {n \in DOMAIN entries : entries[n].status = "POSTED"}

\* The balance of each account over a set of entries.
Balances(S) == [a \in Accounts |-> Total([n \in S |-> entries[n].lines.raw[a]], S)]

GetTrialBalance(asOf) == Balances({n \in Posted : entries[n].date <= asOf})

PeriodEntries(from, to) ==
    {n \in Posted : /\ entries[n].date \in from..to
                    /\ entries[n].link.source \notin CarryForwardSources}

GetPeriodBalances(from, to) == Balances(PeriodEntries(from, to))

\* The source id of a carry-forward is a hash of the date: a client can name it.
CarryForwardOf(year) == [source |-> "YEAR_END_CARRY_FORWARD", of |-> year]

\* Mutant: a carry-forward that was created and not posted is not found.
PostedCarryForwards(year) ==
    {n \in DOMAIN entries : /\ entries[n].link = CarryForwardOf(year)
                            /\ entries[n].status = "POSTED"}

\* The carry-forwards of a year that GetJournalEntryBySource finds: not voided,
\* and whoever created them.
CarryForwards(year) ==
    {n \in DOMAIN entries : /\ entries[n].link = CarryForwardOf(year)
                            /\ entries[n].status # "VOIDED"}

-----------------------------------------------------------------------------
(* Lines *)

\* Mutant: any lines are accepted.
AlwaysValid(lines) == TRUE

Validate(lines) ==
    /\ Total(lines.base, Accounts) = 0
    /\ \E a \in Accounts : lines.base[a] # 0

Swapped(lines) ==
    [raw |-> [a \in Accounts |-> 0 - lines.raw[a]],
     base |-> [a \in Accounts |-> 0 - lines.base[a]]]

\* Each revenue and expense account is emptied into retained earnings, in the
\* base currency at rate 1.
buildYearEndCarryForwardLines(balances) ==
    LET amounts == [a \in Accounts |->
                      IF a \in ProfitAndLoss THEN 0 - balances[a]
                      ELSE IF a = RetainedEarnings THEN Total(balances, ProfitAndLoss) ELSE 0]
    IN  [raw |-> amounts, base |-> amounts]

-----------------------------------------------------------------------------
(* Transactions *)

CreateJournalEntry(date, lines, link, own, created) ==
    /\ Len(entries) < MaxEntries
    /\ Validate(lines)
    /\ entries' = Append(entries, [status |-> "DRAFT", date |-> date, lines |-> lines,
                                   link |-> link, own |-> own, created |-> created])

\* UpdateJournalEntryStatus: posts the entry if it is still a draft.
PostDraft(n) ==
    /\ entries[n].status = "DRAFT"
    /\ entries' = [entries EXCEPT ![n].status = "POSTED"]

\* Mutant: the reversing entry gets a status of its own.
ReversedStatus(n, date, source, created) ==
    [status |-> "REVERSED", date |-> date, lines |-> Swapped(entries[n].lines),
     link |-> [source |-> source, of |-> n], own |-> TRUE, created |-> created]

Reversal(n, date, source, created) ==
    [status |-> "POSTED", date |-> date, lines |-> Swapped(entries[n].lines),
     link |-> [source |-> source, of |-> n], own |-> TRUE, created |-> created]

\* Mutant: an entry that another request has voided meanwhile is voided again.
VoidUnchecked(n, date, source, created) ==
    /\ Len(entries) < MaxEntries
    /\ entries' = Append([entries EXCEPT ![n].status = "VOIDED"],
                         Reversal(n, date, source, created))

\* VoidJournalEntry: voids the entry if it is still posted and inserts the
\* reversing entry, posted, in the same transaction.
VoidPosted(n, date, source, created) ==
    /\ Len(entries) < MaxEntries
    /\ entries[n].status = "POSTED"
    /\ entries' = Append([entries EXCEPT ![n].status = "VOIDED"],
                         Reversal(n, date, source, created))

-----------------------------------------------------------------------------
(* Properties *)

LedgerTypeOK == entries \in Seq(JournalEntry)

Reverses(r, n) ==
    entries[r].own /\ entries[r].link.source \in ReversalSources /\ entries[r].link.of = n

\* Every voided entry has one reversing entry, which mirrors its lines, and no
\* other entry has one, although several requests may have read the entry as
\* posted (repository_gorm.go:715 updates only an entry still posted). Entries
\* that clients linked to it, which service.go:312 does not prevent, reverse
\* nothing.
OneReversal ==
    \A n \in DOMAIN entries :
        LET reversals == {r \in DOMAIN entries : Reverses(r, n)}
        IN  /\ Cardinality(reversals) = IF entries[n].status = "VOIDED" THEN 1 ELSE 0
            /\ \A r \in reversals : entries[r].lines = Swapped(entries[n].lines)

\* The posted entries balance in the base currency (types.go:223), the
\* reversals and carry-forwards that no request validated included.
BooksBalance ==
    Total([n \in Posted |-> Total(entries[n].lines.base, Accounts)], Posted) = 0

\* What "voids a posted journal entry by creating a reversing entry"
\* (service.go:765) says: a voided entry and the entry that reverses it leave
\* no balance on any account.
VoidLeavesNoBalance ==
    \A n, r \in DOMAIN entries :
        Reverses(r, n) /\ entries[r].status = "POSTED"
            => \A a \in Accounts : Balances({n, r} \intersect Posted)[a] = 0

\* While requests come one at a time, the carry-forward request posts once for
\* a year, whichever of them stops between creating its entry and posting it,
\* and whatever entries clients link to the year (year_end.go:425). That a
\* carry-forward "cannot be posted twice" (docs/API.md:436) is more than this:
\* two requests that race both post, and so does a client that links an entry
\* of its own.
CarryForwardOnce ==
    \A m, n \in Posted :
        /\ entries[m].link.source = "YEAR_END_CARRY_FORWARD"
        /\ entries[m].link = entries[n].link
        /\ entries[m].own /\ entries[n].own
        => m = n
=============================================================================
