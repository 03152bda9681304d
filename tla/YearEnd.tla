------------------------------- MODULE YearEnd -------------------------------
(***************************************************************************)
(* The requests that write the journal, composed with the ones that move   *)
(* the period lock.  The handlers of cmd/api read the lock date, then the  *)
(* service reads what it decides on, then a transaction writes: other      *)
(* requests run in between.  Evidence and inventory reviews are taken as   *)
(* approved, and a request to close as signed off.                         *)
(***************************************************************************)
EXTENDS PeriodClose, Ledger

CONSTANTS
    Handlers,    \* requests that write the journal
    YearLength,  \* days in a fiscal year, which the first date starts
    Now,         \* the current date
    Dates,       \* the entry dates that requests name
    Postings,    \* the lines that requests name
    Links        \* the source types and ids that requests name

ASSUME YearAssumption == /\ YearLength \in Nat \ {0}
                         /\ Now \in Nat
                         /\ Dates \subseteq Nat
                         /\ Postings \subseteq Lines
                         /\ Links \subseteq Link

VARIABLE call  \* what each handler has checked and is about to do

vars == <<lock, closes, officer, opening, entries, call>>

Call ==
    [step : {"idle", "create", "post", "post write", "void", "void write", "activity",
             "existing", "balances", "carry create", "carry post", "reverse", "reverse write"},
     entry : 0..MaxEntries, date : Nat, lines : Lines, link : Link]

CallAt(step, entry, date, lines) ==
    [step |-> step, entry |-> entry, date |-> date, lines |-> lines, link |-> NoLink]

NoCall == CallAt("idle", 0, 0, NoLines)

YearInit == Init /\ LedgerInit /\ call = [h \in Handlers |-> NoCall]

Calls(h, c) == call' = [call EXCEPT ![h] = c]
Continues(h, c) == Calls(h, c) /\ UNCHANGED entries
Returns(h) == Calls(h, NoCall)
Idle(h)    == call[h] = NoCall

\* Mutant: the last locked month is open.
UnlockedFrom(date) == date >= lock

\* rejectLockedPeriod
Unlocked(date) == date > lock

-----------------------------------------------------------------------------
(* Journal entries *)

\* The request may name any source; the id of an entry is random, and known
\* only once there is one.
CheckCreate(h, date, lines, link) ==
    /\ Idle(h)
    /\ Unlocked(date)
    /\ link.source \in ReversalSources => link.of \in DOMAIN entries
    /\ Continues(h, [CallAt("create", 0, date, lines) EXCEPT !.link = link])

Create(h) ==
    /\ call[h].step = "create"
    /\ CreateJournalEntry(call[h].date, call[h].lines, call[h].link, FALSE, Len(closes))
    /\ Returns(h)

\* The handlers of post and void read the entry and check the lock against its
\* date; the service then reads it again for its status.
CheckEntry(h, n, step) ==
    /\ Idle(h)
    /\ Unlocked(entries[n].date)
    /\ Continues(h, CallAt(step, n, 0, NoLines))

ReadEntry(h, step, status, next) ==
    /\ call[h].step = step
    /\ entries[call[h].entry].status = status
    /\ Continues(h, [call[h] EXCEPT !.step = next])

ReadForPost(h) == ReadEntry(h, "post", "DRAFT", "post write")
ReadForVoid(h) == ReadEntry(h, "void", "POSTED", "void write")

Post(h) ==
    /\ call[h].step = "post write"
    /\ PostDraft(call[h].entry)
    /\ Returns(h)

\* The reversing entry is dated today.
Void(h) ==
    /\ call[h].step = "void write"
    /\ VoidPosted(call[h].entry, Now, "VOID", Len(closes))
    /\ Returns(h)

-----------------------------------------------------------------------------
(* Year-end carry-forward *)

IsFiscalYearEnd(period) == period % YearLength = 0

FiscalYear(year) == GetPeriodBalances(year - YearLength + 1, year)

\* The handler reads the tenant: the year must be closed.
CheckYearClosed(h, year) ==
    /\ Idle(h)
    /\ IsFiscalYearEnd(year)
    /\ year <= lock
    /\ Continues(h, CallAt("activity", 0, year, NoLines))

\* GetYearEndCloseStatus: the year must have moved a revenue or expense
\* account, and must not be carried forward.
CheckActivity(h) ==
    /\ call[h].step = "activity"
    /\ \E n \in PeriodEntries(call[h].date - YearLength + 1, call[h].date), a \in ProfitAndLoss :
          entries[n].lines.raw[a] # 0
    /\ Continues(h, [call[h] EXCEPT !.step = "existing"])

CheckNotCarried(h) ==
    /\ call[h].step = "existing"
    /\ CarryForwards(call[h].date) = {}
    /\ Continues(h, [call[h] EXCEPT !.step = "balances"])

ReadBalances(h) ==
    /\ call[h].step = "balances"
    /\ \E a \in ProfitAndLoss : FiscalYear(call[h].date)[a] # 0
    /\ Continues(h, CallAt("carry create", 0, call[h].date,
                           buildYearEndCarryForwardLines(FiscalYear(call[h].date))))

CreateCarryForward(h) ==
    /\ call[h].step = "carry create"
    /\ CreateJournalEntry(call[h].date + 1, call[h].lines, CarryForwardOf(call[h].date), TRUE,
                          Len(closes))
    /\ Calls(h, CallAt("carry post", Len(entries) + 1, 0, NoLines))

PostCarryForward(h) ==
    /\ call[h].step = "carry post"
    /\ PostDraft(call[h].entry)
    /\ Returns(h)

\* ReverseYearEndCarryForward finds the newest carry-forward of the year,
\* whatever the lock date is, and reads it again: it must be posted.
FindCarryForward(h, year) ==
    /\ Idle(h)
    /\ IsFiscalYearEnd(year)
    /\ \E n \in CarryForwards(year) :
          /\ \A m \in CarryForwards(year) : m <= n
          /\ Continues(h, CallAt("reverse", n, 0, NoLines))

ReadForReverse(h) == ReadEntry(h, "reverse", "POSTED", "reverse write")

ReverseCarryForward(h) ==
    /\ call[h].step = "reverse write"
    /\ VoidPosted(call[h].entry, entries[call[h].entry].date,
                  "YEAR_END_CARRY_FORWARD_REVERSAL", Len(closes))
    /\ Returns(h)

\* A check refuses, a statement fails or the server stops: what earlier
\* transactions of the request wrote stays.
FailCall(h) ==
    /\ ~Idle(h)
    /\ Returns(h)
    /\ UNCHANGED entries

-----------------------------------------------------------------------------

HandlerStep(h) ==
    \/ \E date \in Dates, lines \in Postings, link \in Links : CheckCreate(h, date, lines, link)
    \/ \E n \in DOMAIN entries : CheckEntry(h, n, "post") \/ CheckEntry(h, n, "void")
    \/ \E year \in MonthEnds : CheckYearClosed(h, year) \/ FindCarryForward(h, year)
    \/ Create(h) \/ ReadForPost(h) \/ Post(h) \/ ReadForVoid(h) \/ Void(h)
    \/ CheckActivity(h) \/ CheckNotCarried(h) \/ ReadBalances(h)
    \/ CreateCarryForward(h) \/ PostCarryForward(h)
    \/ ReadForReverse(h) \/ ReverseCarryForward(h) \/ FailCall(h)

yearEndCarryForwardExists(p) == IsFiscalYearEnd(p) /\ CarryForwards(p) # {}

\* The reopen handler refuses the last month of a year carried forward.
ReopenRequest(o, p) ==
    /\ ~yearEndCarryForwardExists(p)
    /\ RequestReopen(o, p)

OfficerNext ==
    \E o \in Officers : OfficerStep(o) \/ \E p \in MonthEnds : ReopenRequest(o, p)

YearNext ==
    \/ (\E h \in Handlers : HandlerStep(h)) /\ UNCHANGED periodVars
    \/ OfficerNext /\ UNCHANGED <<entries, call>>

YearSpec == YearInit /\ [][YearNext]_vars

-----------------------------------------------------------------------------
(* Properties *)

YearTypeOK ==
    /\ PeriodTypeOK /\ LedgerTypeOK
    /\ call \in [Handlers -> Call]

\* A carry-forward that the year-end request posted empties the revenue and
\* expense accounts of its year as they are now, and not only as they were when
\* it was built, as long as the year was never unlocked since: nothing is
\* created, posted or voided in a locked year, and entries that clients link to
\* a carry-forward of it do not count. It needs requests that do not overlap,
\* and a current date that is not locked, since a reversing entry is dated today.
CarryForwardExact ==
    \A n \in Posted :
        LET year == entries[n].link.of
        IN  /\ entries[n].own /\ entries[n].link.source = "YEAR_END_CARRY_FORWARD"
            /\ \A m \in entries[n].created..Len(closes) : LockAfter(m) >= year
            => \A a \in ProfitAndLoss : entries[n].lines.raw[a] = 0 - FiscalYear(year)[a]

\* What "fiscal-year periods cannot be reopened after carry-forward has been
\* posted unless the carry-forward is explicitly reversed first"
\* (docs/CLI.md:1062) says: no reopen that the period-close service will carry
\* out is accepted while a year it opens has a posted carry-forward.
CarriedYearsStayClosed ==
    [][\A o \in Officers, p \in MonthEnds :
         ReopenRequest(o, p) /\ ClosesOf(p) # {} =>
            \A year \in p..lock : \A n \in Posted \intersect CarryForwards(year) : ~entries[n].own]_vars
=============================================================================
