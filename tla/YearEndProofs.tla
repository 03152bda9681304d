---------------------------- MODULE YearEndProofs ----------------------------
(***************************************************************************)
(* For any chart of accounts and any number of requests: types, that an    *)
(* entry is voided if and only if one entry reverses it, and that the      *)
(* posted entries balance.  For requests that come one at a time: that a   *)
(* year is carried forward once, and exactly.                              *)
(*                                                                         *)
(* Whatever a handler does, to the journal it drafts an entry, posts one   *)
(* or voids one; the invariants of the journal are kept by each of these.  *)
(***************************************************************************)
EXTENDS YearEnd, PeriodCloseProofs, SumTheorems

\* A call that will write an entry names one that exists.
OnEntry == {"post", "post write", "void", "void write", "carry post", "reverse", "reverse write"}

NamesEntry(c) == c.step \in OnEntry => c.entry \in DOMAIN entries

IsReversal(r) == entries[r].own /\ entries[r].link.source \in ReversalSources

\* The reversals are a bijection with the voided entries.
PairedReversals ==
    /\ \A r \in DOMAIN entries : IsReversal(r) =>
          /\ entries[r].link.of \in DOMAIN entries
          /\ entries[entries[r].link.of].status = "VOIDED"
          /\ entries[r].lines = Swapped(entries[entries[r].link.of].lines)
    /\ \A n \in DOMAIN entries : entries[n].status = "VOIDED" =>
          \E r \in DOMAIN entries : IsReversal(r) /\ entries[r].link.of = n
    /\ \A r, s \in DOMAIN entries :
          IsReversal(r) /\ IsReversal(s) /\ entries[r].link.of = entries[s].link.of => r = s

YearTypeInv ==
    /\ PeriodInv
    /\ LedgerTypeOK /\ Len(entries) <= MaxEntries
    /\ call \in [Handlers -> Call]
    /\ \A h \in Handlers : NamesEntry(call[h])

-----------------------------------------------------------------------------
(* Lines and balances *)

LEMMA LinesFacts ==
    ASSUME NEW lines \in Lines
    PROVE  /\ \A a \in Accounts : lines.raw[a] \in Int /\ lines.base[a] \in Int
           /\ Total(lines.base, Accounts) \in Int
<1>1. \A a \in Accounts : lines.raw[a] \in Int /\ lines.base[a] \in Int
  BY DEF Lines
<1>2. SumFunctionOnSet(lines.base, Accounts) \in Int
  BY <1>1, AccountsAssumption, SumTyped
<1> QED
  BY <1>1, <1>2 DEF Total

\* The lines of a reversing entry take back those of the entry.
LEMMA SwappedFacts ==
    ASSUME NEW lines \in Lines
    PROVE  /\ Swapped(lines) \in Lines
           /\ Total(Swapped(lines).base, Accounts) = 0 - Total(lines.base, Accounts)
           /\ \A a \in Accounts : Swapped(lines).raw[a] = 0 - lines.raw[a]
<1> DEFINE other == Swapped(lines).base
<1>1. /\ Swapped(lines) \in Lines
      /\ \A a \in Accounts : Swapped(lines).raw[a] = 0 - lines.raw[a] /\ other[a] = 0 - lines.base[a]
  BY LinesFacts DEF Swapped, Lines
<1>2. \A a \in Accounts : lines.base[a] \in Int
  BY LinesFacts
<1> HIDE DEF other
<1>3. SumFunctionOnSet(other, Accounts) = 0 - SumFunctionOnSet(lines.base, Accounts)
  BY <1>1, <1>2, AccountsAssumption, SumOpposite
<1> QED
  BY <1>1, <1>3 DEF Total, other

LEMMA NoLinesTyped == NoLines \in Lines
BY DEF NoLines, Lines

LEMMA EntriesFinite ==
    ASSUME LedgerTypeOK, NEW S \in SUBSET DOMAIN entries
    PROVE  IsFiniteSet(S) /\ \A n \in S : entries[n] \in JournalEntry /\ entries[n].lines \in Lines
<1>1. DOMAIN entries = 1..Len(entries) /\ Len(entries) \in Nat
  BY DEF LedgerTypeOK
<1>2. IsFiniteSet(DOMAIN entries)
  BY <1>1, FS_Interval
<1>3. \A n \in S : entries[n] \in JournalEntry
  BY DEF LedgerTypeOK
<1> QED
  BY <1>2, <1>3, FS_Subset DEF JournalEntry

LEMMA BalancesTyped ==
    ASSUME LedgerTypeOK, NEW S \in SUBSET DOMAIN entries
    PROVE  Balances(S) \in [Accounts -> Int]
<1> SUFFICES ASSUME NEW a \in Accounts
             PROVE  Total([n \in S |-> entries[n].lines.raw[a]], S) \in Int
  BY DEF Balances
<1> DEFINE f == [n \in S |-> entries[n].lines.raw[a]]
<1>1. IsFiniteSet(S) /\ \A n \in S : f[n] \in Int
  BY EntriesFinite, LinesFacts
<1> HIDE DEF f
<1> QED
  BY <1>1, SumTyped DEF Total, f

LEMMA FiscalYearTyped ==
    ASSUME LedgerTypeOK, NEW year
    PROVE  FiscalYear(year) \in [Accounts -> Int]
<1>1. PeriodEntries(year - YearLength + 1, year) \in SUBSET DOMAIN entries
  BY DEF PeriodEntries, Posted
<1> QED
  BY <1>1, BalancesTyped DEF FiscalYear, GetPeriodBalances

LEMMA CarryForwardLines ==
    ASSUME NEW balances \in [Accounts -> Int]
    PROVE  /\ buildYearEndCarryForwardLines(balances) \in Lines
           /\ \A a \in ProfitAndLoss :
                 a \in Accounts /\ buildYearEndCarryForwardLines(balances).raw[a] = 0 - balances[a]
<1>1. IsFiniteSet(ProfitAndLoss) /\ ProfitAndLoss \subseteq Accounts
  BY AccountsAssumption, FS_Subset DEF ProfitAndLoss
<1>2. \A a \in ProfitAndLoss : balances[a] \in Int
  BY <1>1
<1>3. Total(balances, ProfitAndLoss) \in Int
  BY <1>1, <1>2, SumTyped DEF Total
<1> QED
  BY <1>1, <1>3 DEF buildYearEndCarryForwardLines, Lines

-----------------------------------------------------------------------------
(* What a handler does to the journal *)

Drafts(e) ==
    /\ e \in JournalEntry /\ e.status = "DRAFT" /\ e.created = Len(closes)
    /\ e.own => e.link.source = "YEAR_END_CARRY_FORWARD"
    /\ Validate(e.lines) /\ Len(entries) < MaxEntries
    /\ entries' = Append(entries, e)

Posts(n) ==
    /\ n \in DOMAIN entries /\ entries[n].status = "DRAFT"
    /\ entries' = [entries EXCEPT ![n].status = "POSTED"]

Voids(n, e) ==
    /\ n \in DOMAIN entries /\ entries[n].status = "POSTED"
    /\ e \in JournalEntry /\ e.status = "POSTED" /\ e.created = Len(closes)
    /\ e.own /\ e.link.of = n /\ e.link.source \in ReversalSources /\ e.lines = Swapped(entries[n].lines)
    /\ e.link.source = "VOID" => e.date = Now
    /\ Len(entries) < MaxEntries
    /\ entries' = Append([entries EXCEPT ![n].status = "VOIDED"], e)

\* Only the status of an entry ever changes.
Kept(m) ==
    /\ entries'[m].link = entries[m].link
    /\ entries'[m].own = entries[m].own
    /\ entries'[m].lines = entries[m].lines
    /\ entries'[m].date = entries[m].date
    /\ entries'[m].created = entries[m].created

LEMMA LinksTyped ==
    /\ NoLink \in Link
    /\ \A year \in Nat : /\ CarryForwardOf(year) \in Link
                          /\ CarryForwardOf(year).source = "YEAR_END_CARRY_FORWARD"
                          /\ CarryForwardOf(year).of = year
    /\ \A link \in Link : link.of \in Nat
    /\ \A link \in Link : link.source = "YEAR_END_CARRY_FORWARD" => link = CarryForwardOf(link.of)
BY DEF NoLink, Link, CarryForwardOf, CarryForwardSources

LEMMA ClientDrafts ==
    ASSUME YearTypeInv, NEW date \in Nat, NEW lines \in Lines, NEW link \in Link,
           CreateJournalEntry(date, lines, link, FALSE, Len(closes))
    PROVE  \E e : Drafts(e) /\ ~e.own
<1> DEFINE e == [status |-> "DRAFT", date |-> date, lines |-> lines,
                 link |-> link, own |-> FALSE, created |-> Len(closes)]
<1>1. Len(closes) \in Nat
  BY DEF YearTypeInv, PeriodInv, PeriodTypeOK
<1>2. e \in JournalEntry
  BY <1>1 DEF JournalEntry
<1>3. e.status = "DRAFT" /\ e.created = Len(closes) /\ ~e.own /\ e.lines = lines
  OBVIOUS
<1>4. Len(entries) < MaxEntries /\ Validate(lines) /\ entries' = Append(entries, e)
  BY DEF CreateJournalEntry
<1> HIDE DEF e
<1> QED
  BY <1>2, <1>3, <1>4 DEF Drafts

CreatesCarry(date, lines, year) ==
    CreateJournalEntry(date, lines, CarryForwardOf(year), TRUE, Len(closes))

LEMMA CarryDrafts ==
    ASSUME YearTypeInv, NEW date \in Nat, NEW lines \in Lines, NEW year \in Nat,
           CreatesCarry(date, lines, year)
    PROVE  \E e : /\ Drafts(e) /\ e.lines = lines
                  /\ e.link.source = "YEAR_END_CARRY_FORWARD" /\ e.link.of = year
<1> DEFINE link == CarryForwardOf(year)
           e == [status |-> "DRAFT", date |-> date, lines |-> lines,
                 link |-> link, own |-> TRUE, created |-> Len(closes)]
<1>1. Len(closes) \in Nat
  BY DEF YearTypeInv, PeriodInv, PeriodTypeOK
<1>4. Len(entries) < MaxEntries /\ Validate(lines) /\ entries' = Append(entries, e)
  BY DEF CreatesCarry, CreateJournalEntry
<1>5. link \in Link /\ link.source = "YEAR_END_CARRY_FORWARD" /\ link.of = year
  BY LinksTyped
<1> HIDE DEF link
<1>2. e \in JournalEntry
  BY <1>1, <1>5 DEF JournalEntry
<1>3. e.status = "DRAFT" /\ e.created = Len(closes) /\ e.link = link /\ e.lines = lines
  OBVIOUS
<1> HIDE DEF e
<1> QED
  BY <1>2, <1>3, <1>4, <1>5 DEF Drafts

LEMMA Reversed ==
    ASSUME YearTypeInv, NEW n \in DOMAIN entries, NEW date \in Nat, NEW source \in ReversalSources,
           source = "VOID" => date = Now, VoidPosted(n, date, source, Len(closes))
    PROVE  \E e : Voids(n, e) /\ e.link.source = source
<1> DEFINE e == Reversal(n, date, source, Len(closes))
<1>1. Len(closes) \in Nat /\ n \in Nat
  BY DEF YearTypeInv, PeriodInv, PeriodTypeOK, LedgerTypeOK
<1>2. Swapped(entries[n].lines) \in Lines
  BY EntriesFinite, SwappedFacts DEF YearTypeInv
<1>3. e \in JournalEntry
  BY <1>1, <1>2 DEF JournalEntry, Link, Reversal, CarryForwardSources, ReversalSources
<1>4. /\ e.status = "POSTED" /\ e.own /\ e.link.of = n /\ e.created = Len(closes)
      /\ e.link.source = source /\ e.lines = Swapped(entries[n].lines) /\ e.date = date
  BY DEF Reversal
<1>5. /\ Len(entries) < MaxEntries /\ entries[n].status = "POSTED"
      /\ entries' = Append([entries EXCEPT ![n].status = "VOIDED"], e)
  BY DEF VoidPosted
<1> HIDE DEF e
<1> QED
  BY <1>3, <1>4, <1>5 DEF Voids

LEMMA EntryAppended ==
    ASSUME NEW s \in Seq(JournalEntry), NEW e \in JournalEntry, NEW t, t = Append(s, e)
    PROVE  /\ t \in Seq(JournalEntry) /\ Len(t) = Len(s) + 1
           /\ Len(s) + 1 \notin DOMAIN s /\ DOMAIN t = DOMAIN s \union {Len(s) + 1}
           /\ \A m \in DOMAIN s : t[m] = s[m]
           /\ t[Len(s) + 1] = e
OBVIOUS

\* The rows t are the rows s but for the status of row n.
StatusWritten(t, s, n, x) ==
    /\ t \in Seq(JournalEntry) /\ DOMAIN t = DOMAIN s /\ Len(t) = Len(s)
    /\ t[n].status = x
    /\ \A m \in DOMAIN s \ {n} : t[m] = s[m]
    /\ \A m \in DOMAIN s : /\ t[m].link = s[m].link /\ t[m].own = s[m].own
                           /\ t[m].lines = s[m].lines /\ t[m].date = s[m].date
                           /\ t[m].created = s[m].created

LEMMA StatusSet ==
    ASSUME NEW s \in Seq(JournalEntry), NEW n \in DOMAIN s,
           NEW x, x = "POSTED" \/ x = "VOIDED", NEW t, t = [s EXCEPT ![n].status = x]
    PROVE  StatusWritten(t, s, n, x)
<1> DEFINE e == [s[n] EXCEPT !.status = x]
<1>1. s[n] \in JournalEntry
  OBVIOUS
<1>2. e \in JournalEntry
  BY <1>1 DEF JournalEntry
<1>3. /\ e.status = x /\ e.link = s[n].link /\ e.own = s[n].own /\ e.lines = s[n].lines
      /\ e.date = s[n].date /\ e.created = s[n].created
  BY <1>1 DEF JournalEntry
<1>4. t = [s EXCEPT ![n] = e]
  OBVIOUS
<1> HIDE DEF e
<1>5. /\ t \in Seq(JournalEntry) /\ DOMAIN t = DOMAIN s /\ Len(t) = Len(s) /\ t[n] = e
      /\ \A m \in DOMAIN s \ {n} : t[m] = s[m]
  BY <1>2, <1>4
<1> QED
  BY <1>3, <1>5 DEF StatusWritten

\* What the journal is like after each.
LEMMA DraftEffect ==
    ASSUME YearTypeInv, NEW e, Drafts(e), NEW k, k = Len(entries) + 1
    PROVE  /\ LedgerTypeOK' /\ Len(entries') <= MaxEntries
           /\ k \notin DOMAIN entries /\ DOMAIN entries' = DOMAIN entries \union {k}
           /\ \A m \in DOMAIN entries : entries'[m] = entries[m]
           /\ entries'[k] = e
<1>1. entries \in Seq(JournalEntry) /\ e \in JournalEntry /\ entries' = Append(entries, e)
  BY DEF YearTypeInv, LedgerTypeOK, Drafts
<1>2. Len(entries) \in Nat /\ Len(entries) + 1 <= MaxEntries
  BY <1>1, AccountsAssumption DEF Drafts
<1> QED
  BY <1>1, <1>2, EntryAppended DEF LedgerTypeOK

LEMMA PostEffect ==
    ASSUME YearTypeInv, NEW n, Posts(n)
    PROVE  /\ LedgerTypeOK' /\ Len(entries') <= MaxEntries /\ DOMAIN entries' = DOMAIN entries
           /\ entries'[n].status = "POSTED"
           /\ \A m \in DOMAIN entries \ {n} : entries'[m] = entries[m]
           /\ \A m \in DOMAIN entries : Kept(m)
<1>1. entries \in Seq(JournalEntry) /\ Len(entries) <= MaxEntries
  BY DEF YearTypeInv, LedgerTypeOK
<1>2. n \in DOMAIN entries /\ entries' = [entries EXCEPT ![n].status = "POSTED"]
  BY DEF Posts
<1>3. PICK t : t = entries'
  OBVIOUS
<1>4. StatusWritten(t, entries, n, "POSTED")
  <2>1. t = [entries EXCEPT ![n].status = "POSTED"]
    BY <1>2, <1>3
  <2> QED
    BY <1>1, <1>2, <2>1, StatusSet
<1> QED
  BY <1>1, <1>3, <1>4 DEF LedgerTypeOK, Kept, StatusWritten

LEMMA VoidEffect ==
    ASSUME YearTypeInv, NEW n, NEW e, Voids(n, e), NEW k, k = Len(entries) + 1
    PROVE  /\ LedgerTypeOK' /\ Len(entries') <= MaxEntries
           /\ k \notin DOMAIN entries /\ DOMAIN entries' = DOMAIN entries \union {k}
           /\ entries'[n].status = "VOIDED"
           /\ \A m \in DOMAIN entries \ {n} : entries'[m] = entries[m]
           /\ \A m \in DOMAIN entries : Kept(m)
           /\ entries'[k] = e
<1>1. entries \in Seq(JournalEntry) /\ e \in JournalEntry /\ n \in DOMAIN entries
  BY DEF YearTypeInv, LedgerTypeOK, Voids
<1>2. PICK t : t = [entries EXCEPT ![n].status = "VOIDED"] /\ entries' = Append(t, e)
  BY DEF Voids
<1>3. StatusWritten(t, entries, n, "VOIDED")
  BY <1>1, <1>2, StatusSet
<1>4. /\ entries' \in Seq(JournalEntry) /\ Len(entries') = Len(entries) + 1
      /\ k \notin DOMAIN entries /\ DOMAIN entries' = DOMAIN entries \union {k}
      /\ \A m \in DOMAIN entries : entries'[m] = t[m]
      /\ entries'[k] = e
  BY <1>1, <1>2, <1>3, EntryAppended DEF StatusWritten
<1>5. Len(entries) \in Nat /\ Len(entries) + 1 <= MaxEntries
  BY <1>1, AccountsAssumption DEF Voids
<1>6. Len(entries') <= MaxEntries
  BY <1>4, <1>5
<1>7. /\ entries'[n].status = "VOIDED"
      /\ \A m \in DOMAIN entries \ {n} : entries'[m] = entries[m]
  BY <1>1, <1>3, <1>4 DEF StatusWritten
<1>8. \A m \in DOMAIN entries : Kept(m)
  BY <1>3, <1>4 DEF Kept, StatusWritten
<1> QED
  BY <1>4, <1>6, <1>7, <1>8 DEF LedgerTypeOK

-----------------------------------------------------------------------------
(* Types *)

\* What a handler's step does to the journal, and by which call.
WritesFrom(c) ==
    \/ entries' = entries
    \/ \E e : /\ Drafts(e)
              /\ e.own => c.step = "carry create" /\ e.link.of = c.date /\ e.lines = c.lines
    \/ Posts(c.entry) /\ c.step \in {"post write", "carry post"}
    \/ \E e : /\ Voids(c.entry, e)
              /\ \/ c.step = "void write"
                 \/ c.step = "reverse write" /\ e.link.source # "VOID"

\* The step of a handler: what it writes and what it goes on with.
Acts(h) ==
    \E c \in Call :
        /\ call' = [call EXCEPT ![h] = c] /\ NamesEntry(c)'
        /\ WritesFrom(call[h])

LEMMA CallFacts ==
    ASSUME YearTypeInv, NEW h \in Handlers
    PROVE  /\ call[h] \in Call /\ call[h].date \in Nat /\ call[h].lines \in Lines /\ call[h].link \in Link
           /\ call[h].step \in OnEntry => call[h].entry \in DOMAIN entries
BY DEF YearTypeInv, Call, NamesEntry

LEMMA EntryNumbers ==
    ASSUME YearTypeInv
    PROVE  0 \in 0..MaxEntries /\ \A n \in DOMAIN entries : n \in 0..MaxEntries
<1>1. MaxEntries \in Nat
  BY AccountsAssumption
<1>2. Len(entries) \in Nat /\ DOMAIN entries = 1..Len(entries) /\ Len(entries) <= MaxEntries
  BY DEF YearTypeInv, LedgerTypeOK
<1> QED
  BY <1>1, <1>2

LEMMA CallTyped ==
    ASSUME YearTypeInv,
           NEW step \in {"idle", "create", "post", "post write", "void", "void write", "activity",
                         "existing", "balances", "carry create", "carry post", "reverse", "reverse write"},
           NEW date \in Nat, NEW lines \in Lines
    PROVE  /\ CallAt(step, 0, date, lines) \in Call
           /\ \A n \in DOMAIN entries : CallAt(step, n, date, lines) \in Call
           /\ NoCall \in Call
BY EntryNumbers, NoLinesTyped, LinksTyped DEF CallAt, Call, NoCall

\* A handler goes on, or returns, and writes nothing.
LEMMA GoesOn ==
    ASSUME YearTypeInv, NEW h \in Handlers, NEW c \in Call, Calls(h, c), entries' = entries, NamesEntry(c)
    PROVE  Acts(h)
BY DEF Acts, WritesFrom, Calls, NamesEntry

LEMMA NextStep ==
    ASSUME YearTypeInv, NEW h \in Handlers,
           NEW step \in {"post write", "void write", "existing", "balances", "reverse write"},
           Continues(h, [call[h] EXCEPT !.step = step]),
           step \in OnEntry => call[h].step \in OnEntry
    PROVE  Acts(h)
<1> DEFINE c == [call[h] EXCEPT !.step = step]
<1>1. c \in Call /\ c.step = step /\ c.entry = call[h].entry
  BY CallFacts DEF Call
<1>2. Calls(h, c) /\ entries' = entries
  BY DEF Continues
<1> HIDE DEF c
<1>3. NamesEntry(c)
  BY <1>1, CallFacts DEF NamesEntry
<1> QED
  BY <1>1, <1>2, <1>3, GoesOn

LEMMA ReadersAct ==
    ASSUME YearTypeInv, NEW h \in Handlers,
           \/ \E date \in Dates, lines \in Postings, link \in Links : CheckCreate(h, date, lines, link)
           \/ \E n \in DOMAIN entries : CheckEntry(h, n, "post") \/ CheckEntry(h, n, "void")
           \/ \E year \in MonthEnds : CheckYearClosed(h, year) \/ FindCarryForward(h, year)
           \/ ReadForPost(h) \/ ReadForVoid(h) \/ ReadForReverse(h)
           \/ CheckActivity(h) \/ CheckNotCarried(h) \/ ReadBalances(h) \/ FailCall(h)
    PROVE  Acts(h)
<1>0. MonthEnds \subseteq Nat
  BY DatesAssumption
<1>1. ASSUME NEW date \in Dates, NEW lines \in Postings, NEW link \in Links, CheckCreate(h, date, lines, link)
      PROVE  Acts(h)
  <2> DEFINE c == [CallAt("create", 0, date, lines) EXCEPT !.link = link]
  <2>0. PICK b : b = CallAt("create", 0, date, lines)
    OBVIOUS
  <2>4. b \in Call /\ b.step = "create" /\ link \in Link
    <3>1. b.step = "create"
      BY ONLY <2>0 DEF CallAt
    <3> QED
      BY <2>0, <3>1, YearAssumption, CallTyped
  <2>5. c = [b EXCEPT !.link = link]
    BY <2>0
  <2>1. c \in Call /\ NamesEntry(c)
    BY <2>4, <2>5 DEF Call, NamesEntry, OnEntry
  <2>2. Calls(h, c) /\ entries' = entries
    BY <1>1 DEF CheckCreate, Continues
  <2> HIDE DEF c
  <2> QED
    BY <2>1, <2>2, GoesOn
<1>2. ASSUME NEW n \in DOMAIN entries, NEW step \in {"post", "void"}, CheckEntry(h, n, step)
      PROVE  Acts(h)
  <2> DEFINE c == CallAt(step, n, 0, NoLines)
  <2>1. c \in Call /\ NamesEntry(c)
    BY CallTyped, NoLinesTyped DEF CallAt, NamesEntry, OnEntry
  <2>2. Calls(h, c) /\ entries' = entries
    BY <1>2 DEF CheckEntry, Continues
  <2> HIDE DEF c
  <2> QED
    BY <2>1, <2>2, GoesOn
<1>3. ASSUME NEW year \in MonthEnds, CheckYearClosed(h, year)
      PROVE  Acts(h)
  <2> DEFINE c == CallAt("activity", 0, year, NoLines)
  <2>1. c \in Call /\ NamesEntry(c)
    BY <1>0, CallTyped, NoLinesTyped DEF CallAt, NamesEntry, OnEntry
  <2>2. Calls(h, c) /\ entries' = entries
    BY <1>3 DEF CheckYearClosed, Continues
  <2> HIDE DEF c
  <2> QED
    BY <2>1, <2>2, GoesOn
<1>4. ASSUME NEW year \in MonthEnds, FindCarryForward(h, year)
      PROVE  Acts(h)
  <2>1. PICK n \in CarryForwards(year) : Continues(h, CallAt("reverse", n, 0, NoLines))
    BY <1>4 DEF FindCarryForward
  <2> DEFINE c == CallAt("reverse", n, 0, NoLines)
  <2>2. n \in DOMAIN entries
    BY DEF CarryForwards
  <2>3. c \in Call /\ NamesEntry(c)
    BY <2>2, CallTyped, NoLinesTyped DEF CallAt, NamesEntry
  <2>4. Calls(h, c) /\ entries' = entries
    BY <2>1 DEF Continues
  <2> HIDE DEF c
  <2> QED
    BY <2>3, <2>4, GoesOn
<1>5. CASE ReadForPost(h) \/ ReadForVoid(h) \/ ReadForReverse(h)
  BY <1>5, NextStep DEF ReadForPost, ReadForVoid, ReadForReverse, ReadEntry, OnEntry
<1>6. CASE CheckActivity(h)
  BY <1>6, NextStep DEF CheckActivity, OnEntry
<1>7. CASE CheckNotCarried(h)
  BY <1>7, NextStep DEF CheckNotCarried, OnEntry
<1>8. CASE ReadBalances(h)
  <2> DEFINE lines == buildYearEndCarryForwardLines(FiscalYear(call[h].date))
             c == CallAt("carry create", 0, call[h].date, lines)
  <2>1. lines \in Lines
    BY FiscalYearTyped, CarryForwardLines DEF YearTypeInv
  <2>2. Continues(h, c)
    BY <1>8 DEF ReadBalances
  <2> HIDE DEF lines
  <2>3. c \in Call /\ NamesEntry(c)
    BY <2>1, CallFacts, CallTyped DEF CallAt, NamesEntry, OnEntry
  <2>4. Calls(h, c) /\ entries' = entries
    BY <2>2 DEF Continues
  <2> HIDE DEF c
  <2> QED
    BY <2>3, <2>4, GoesOn
<1>9. CASE FailCall(h)
  <2>1. NoCall \in Call /\ NamesEntry(NoCall)
    BY CallFacts, CallTyped DEF NoCall, CallAt, NamesEntry, OnEntry
  <2> QED
    BY <1>9, <2>1, GoesOn DEF FailCall, Returns
<1> QED
  BY <1>1, <1>2, <1>3, <1>4, <1>5, <1>6, <1>7, <1>8, <1>9

LEMMA WritersAct ==
    ASSUME YearTypeInv, NEW h \in Handlers,
           \/ Create(h) \/ Post(h) \/ Void(h)
           \/ CreateCarryForward(h) \/ PostCarryForward(h) \/ ReverseCarryForward(h)
    PROVE  Acts(h)
<1>1. /\ call[h] \in Call /\ call[h].date \in Nat /\ call[h].date + 1 \in Nat /\ call[h].lines \in Lines
      /\ call[h].step \in OnEntry => call[h].entry \in DOMAIN entries
  BY CallFacts
<1>2. NoCall \in Call /\ (NamesEntry(NoCall))'
  BY <1>1, CallTyped DEF NoCall, CallAt, NamesEntry, OnEntry
<1>3. CASE Create(h)
  <2>1. CreateJournalEntry(call[h].date, call[h].lines, call[h].link, FALSE, Len(closes))
    BY <1>3 DEF Create
  <2>2. PICK date, lines, link : /\ date = call[h].date /\ date \in Nat
                                 /\ lines = call[h].lines /\ lines \in Lines
                                 /\ link = call[h].link /\ link \in Link
    BY CallFacts
  <2>3. \E e : Drafts(e) /\ ~e.own
    <3>1. CreateJournalEntry(date, lines, link, FALSE, Len(closes))
      BY <2>1, <2>2
    <3> QED
      BY ONLY YearTypeInv, <2>2, <3>1, ClientDrafts
  <2>4. WritesFrom(call[h])
    BY <2>3 DEF WritesFrom
  <2>5. Calls(h, NoCall)
    BY <1>3 DEF Create, Returns
  <2> QED
    BY <1>2, <2>4, <2>5 DEF Calls, Acts
<1>4. CASE CreateCarryForward(h)
  <2>0. PICK k : k = Len(entries) + 1
    OBVIOUS
  <2> DEFINE c == CallAt("carry post", k, 0, NoLines)
  <2>1. CreateJournalEntry(call[h].date + 1, call[h].lines, CarryForwardOf(call[h].date), TRUE,
                           Len(closes))
    BY <1>4 DEF CreateCarryForward
  <2>2. PICK e : Drafts(e) /\ e.link.of = call[h].date /\ e.lines = call[h].lines
    <3>1. PICK date, lines : /\ date = call[h].date /\ date \in Nat /\ date + 1 \in Nat
                             /\ lines = call[h].lines /\ lines \in Lines
      BY <1>1
    <3>2. PICK next : next = date + 1 /\ next \in Nat /\ CreatesCarry(next, lines, date)
      BY <2>1, <3>1 DEF CreatesCarry
    <3>3. \E e : /\ Drafts(e) /\ e.lines = lines
                 /\ e.link.source = "YEAR_END_CARRY_FORWARD" /\ e.link.of = date
      BY ONLY YearTypeInv, <3>1, <3>2, CarryDrafts
    <3> QED
      BY <3>1, <3>3
  <2>3. k \in DOMAIN entries' /\ k \in 0..MaxEntries
    <3>1. Len(entries) \in Nat /\ Len(entries) < MaxEntries
      BY <2>1 DEF CreateJournalEntry, YearTypeInv, LedgerTypeOK
    <3>2. k \in DOMAIN entries'
      BY <2>0, <2>2, DraftEffect
    <3>3. MaxEntries \in Nat
      BY AccountsAssumption
    <3> QED
      BY <2>0, <3>1, <3>2, <3>3
  <2>4. Calls(h, c)
    BY <1>4, <2>0 DEF CreateCarryForward
  <2>5. c \in Call
    BY <2>3, NoLinesTyped, LinksTyped DEF CallAt, Call
  <2>6. c.entry = k
    BY DEF CallAt
  <2> HIDE DEF c
  <2>7. NamesEntry(c)'
    BY <2>3, <2>6 DEF NamesEntry
  <2>8. WritesFrom(call[h])
    BY <1>4, <2>2 DEF WritesFrom, CreateCarryForward
  <2> QED
    BY <2>4, <2>5, <2>7, <2>8 DEF Calls, Acts
<1>5. CASE Post(h) \/ PostCarryForward(h)
  <2>1. /\ call[h].step \in OnEntry /\ Calls(h, NoCall) /\ call[h].step \in {"post write", "carry post"}
        /\ entries[call[h].entry].status = "DRAFT"
        /\ entries' = [entries EXCEPT ![call[h].entry].status = "POSTED"]
    BY <1>5 DEF Post, PostCarryForward, OnEntry, PostDraft, Returns
  <2>2. Posts(call[h].entry)
    BY <1>1, <2>1 DEF Posts
  <2>3. WritesFrom(call[h])
    BY <2>1, <2>2 DEF WritesFrom
  <2> QED
    BY <1>2, <2>1, <2>3 DEF Calls, Acts
<1>6. CASE Void(h)
  <2>1. /\ call[h].step \in OnEntry /\ Calls(h, NoCall)
        /\ VoidPosted(call[h].entry, Now, "VOID", Len(closes))
    BY <1>6 DEF Void, OnEntry, Returns
  <2>2. call[h].step = "void write"
    BY <1>6 DEF Void
  <2>3. "VOID" \in ReversalSources /\ Now \in Nat
    BY YearAssumption DEF ReversalSources
  <2>4. PICK e : Voids(call[h].entry, e)
    BY <1>1, <2>1, <2>3, Reversed
  <2>5. WritesFrom(call[h])
    BY <2>2, <2>4 DEF WritesFrom
  <2> QED
    BY <1>2, <2>1, <2>5 DEF Calls, Acts
<1>7. CASE ReverseCarryForward(h)
  <2> DEFINE date == entries[call[h].entry].date
  <2>1. /\ call[h].step \in OnEntry /\ Calls(h, NoCall)
        /\ VoidPosted(call[h].entry, date, "YEAR_END_CARRY_FORWARD_REVERSAL", Len(closes))
    BY <1>7 DEF ReverseCarryForward, OnEntry, Returns
  <2>2. date \in Nat
    <3>1. entries[call[h].entry] \in JournalEntry
      BY <1>1, <2>1 DEF YearTypeInv, LedgerTypeOK
    <3> QED
      BY <3>1 DEF JournalEntry
  <2>3. \E e : Voids(call[h].entry, e) /\ e.link.source = "YEAR_END_CARRY_FORWARD_REVERSAL"
    BY <1>1, <2>1, <2>2, Reversed DEF ReversalSources
  <2>4. WritesFrom(call[h])
    BY <1>7, <2>3 DEF WritesFrom, ReverseCarryForward
  <2> QED
    BY <1>2, <2>1, <2>4 DEF Calls, Acts
<1> QED
  BY <1>3, <1>4, <1>5, <1>6, <1>7

LEMMA HandlersAct ==
    ASSUME YearTypeInv, NEW h \in Handlers, HandlerStep(h)
    PROVE  Acts(h)
BY ReadersAct, WritersAct DEF HandlerStep

LEMMA TypesStart == YearInit => YearTypeInv
<1> SUFFICES ASSUME YearInit PROVE YearTypeInv
  OBVIOUS
<1>1. PeriodInv
  BY InitPeriodInv DEF YearInit
<1>2. entries = <<>> /\ call = [h \in Handlers |-> NoCall]
  BY DEF YearInit, LedgerInit
<1>3. NoCall \in Call /\ NamesEntry(NoCall)
  <2>1. 0 \in 0..MaxEntries
    BY AccountsAssumption
  <2> QED
    BY <2>1, NoLinesTyped, LinksTyped DEF NoCall, CallAt, Call, NamesEntry, OnEntry
<1> QED
  BY <1>1, <1>2, <1>3, AccountsAssumption DEF YearTypeInv, LedgerTypeOK

LEMMA TypesStay == YearTypeInv /\ [YearNext]_vars => YearTypeInv'
<1> SUFFICES ASSUME YearTypeInv, [YearNext]_vars PROVE YearTypeInv'
  OBVIOUS
<1>1. ASSUME NEW h \in Handlers, HandlerStep(h), UNCHANGED periodVars PROVE YearTypeInv'
  <2>1. PICK c \in Call :
           /\ call' = [call EXCEPT ![h] = c] /\ NamesEntry(c)'
           /\ \/ entries' = entries
              \/ \E e : Drafts(e)
              \/ \E n : Posts(n)
              \/ \E n, e : Voids(n, e)
    BY <1>1, HandlersAct DEF Acts, WritesFrom
  <2>2. LedgerTypeOK' /\ Len(entries') <= MaxEntries /\ DOMAIN entries \subseteq DOMAIN entries'
    <3>1. CASE entries' = entries
      BY <3>1 DEF YearTypeInv, LedgerTypeOK
    <3>2. ASSUME NEW e, Drafts(e) PROVE <2>2
      BY <3>2, DraftEffect
    <3>3. ASSUME NEW n, Posts(n) PROVE <2>2
      BY <3>3, PostEffect
    <3>4. ASSUME NEW n, NEW e, Voids(n, e) PROVE <2>2
      BY <3>4, VoidEffect
    <3> QED
      BY <2>1, <3>1, <3>2, <3>3, <3>4
  <2>3. PeriodInv'
    BY <1>1, StepPeriodInv DEF YearTypeInv
  <2>4. call' \in [Handlers -> Call] /\ \A g \in Handlers : NamesEntry(call[g])'
    BY <2>1, <2>2 DEF YearTypeInv, NamesEntry
  <2> QED
    BY <2>2, <2>3, <2>4 DEF YearTypeInv
<1>2. CASE OfficerNext /\ UNCHANGED <<entries, call>>
  <2>1. Next
    BY <1>2 DEF OfficerNext, ReopenRequest, Next
  <2>2. PeriodInv'
    BY <2>1, StepPeriodInv DEF YearTypeInv
  <2> QED
    BY <1>2, <2>2 DEF YearTypeInv, LedgerTypeOK, NamesEntry
<1>3. CASE UNCHANGED vars
  <2>1. PeriodInv'
    BY <1>3, StepPeriodInv DEF YearTypeInv, vars, periodVars
  <2> QED
    BY <1>3, <2>1 DEF YearTypeInv, LedgerTypeOK, NamesEntry, vars
<1> QED
  BY <1>1, <1>2, <1>3 DEF YearNext

LEMMA TypesHold == YearSpec => []YearTypeInv
BY TypesStart, TypesStay, PTL DEF YearSpec

\* Whatever requests and officers interleave, the journal, the calls under way
\* and the period lock are well formed (accounting/types.go, accounting/
\* repository_gorm.go:685-760).
THEOREM YearTypes == YearSpec => []YearTypeOK
<1>1. YearTypeInv => YearTypeOK
  BY DEF YearTypeInv, YearTypeOK, PeriodInv
<1> QED
  BY <1>1, TypesHold, PTL

\* A step of the specification writes the journal in one of three ways.
LEMMA JournalSteps ==
    ASSUME YearTypeInv, [YearNext]_vars
    PROVE  \/ entries' = entries
           \/ \E e : Drafts(e)
           \/ \E n : Posts(n)
           \/ \E n, e : Voids(n, e)
<1>1. ASSUME NEW h \in Handlers, HandlerStep(h)
      PROVE  \/ entries' = entries
             \/ \E e : Drafts(e)
             \/ \E n : Posts(n)
             \/ \E n, e : Voids(n, e)
  BY <1>1, HandlersAct DEF Acts, WritesFrom
<1> QED
  BY <1>1 DEF YearNext, vars

-----------------------------------------------------------------------------
(* Reversals *)

LEMMA PairsCount == PairedReversals => OneReversal
<1> SUFFICES ASSUME PairedReversals, NEW n \in DOMAIN entries
             PROVE  LET reversals == {r \in DOMAIN entries : Reverses(r, n)}
                    IN  /\ Cardinality(reversals) = IF entries[n].status = "VOIDED" THEN 1 ELSE 0
                        /\ \A r \in reversals : entries[r].lines = Swapped(entries[n].lines)
  BY DEF OneReversal
<1> DEFINE reversals == {r \in DOMAIN entries : Reverses(r, n)}
<1>1. \A r \in reversals : entries[n].status = "VOIDED" /\ entries[r].lines = Swapped(entries[n].lines)
  BY DEF PairedReversals, IsReversal, Reverses
<1>2. CASE entries[n].status = "VOIDED"
  <2>1. PICK r \in DOMAIN entries : IsReversal(r) /\ entries[r].link.of = n
    BY <1>2 DEF PairedReversals
  <2>2. reversals = {r}
    BY <2>1 DEF PairedReversals, IsReversal, Reverses
  <2> QED
    BY <1>1, <1>2, <2>2, FS_Singleton
<1>3. CASE entries[n].status # "VOIDED"
  <2>1. reversals = {}
    BY <1>1, <1>3
  <2> QED
    BY <1>3, <2>1, FS_EmptySet
<1> QED
  BY <1>2, <1>3

\* An entry is created as a draft that reverses nothing.
LEMMA DraftKeeps ==
    ASSUME PairedReversals, NEW k, k \notin DOMAIN entries, DOMAIN entries' = DOMAIN entries \union {k},
           \A m \in DOMAIN entries : entries'[m] = entries[m],
           (~entries'[k].own \/ entries'[k].link.source \notin ReversalSources), entries'[k].status = "DRAFT"
    PROVE  PairedReversals'
<1>1. \A r \in DOMAIN entries' : IsReversal(r)' => r \in DOMAIN entries /\ IsReversal(r)
  BY DEF IsReversal
<1>2. ASSUME NEW r \in DOMAIN entries', IsReversal(r)'
      PROVE  /\ entries'[r].link.of \in DOMAIN entries'
             /\ entries'[entries'[r].link.of].status = "VOIDED"
             /\ entries'[r].lines = Swapped(entries'[entries'[r].link.of].lines)
  BY <1>1, <1>2 DEF PairedReversals
<1>3. ASSUME NEW n \in DOMAIN entries', entries'[n].status = "VOIDED"
      PROVE  \E r \in DOMAIN entries' : IsReversal(r)' /\ entries'[r].link.of = n
  BY <1>3 DEF PairedReversals, IsReversal
<1>4. ASSUME NEW r \in DOMAIN entries', NEW s \in DOMAIN entries',
             IsReversal(r)', IsReversal(s)', entries'[r].link.of = entries'[s].link.of
      PROVE  r = s
  BY <1>1, <1>4 DEF PairedReversals
<1> QED
  BY <1>2, <1>3, <1>4 DEF PairedReversals

\* A draft is posted.
LEMMA PostKeeps ==
    ASSUME PairedReversals, NEW n \in DOMAIN entries, DOMAIN entries' = DOMAIN entries,
           \A m \in DOMAIN entries : Kept(m),
           \A m \in DOMAIN entries \ {n} : entries'[m].status = entries[m].status,
           entries[n].status # "VOIDED", entries'[n].status # "VOIDED"
    PROVE  PairedReversals'
<1>1. \A r \in DOMAIN entries : IsReversal(r)' <=> IsReversal(r)
  BY DEF IsReversal, Kept
<1>2. \A m \in DOMAIN entries : entries'[m].status = "VOIDED" <=> entries[m].status = "VOIDED"
  OBVIOUS
<1> QED
  BY <1>1, <1>2 DEF PairedReversals, Kept

\* A posted entry is voided and its reversal inserted.
LEMMA VoidKeeps ==
    ASSUME PairedReversals, NEW n \in DOMAIN entries, NEW k, k \notin DOMAIN entries,
           DOMAIN entries' = DOMAIN entries \union {k},
           \A m \in DOMAIN entries : Kept(m),
           \A m \in DOMAIN entries \ {n} : entries'[m].status = entries[m].status,
           entries[n].status = "POSTED", entries'[n].status = "VOIDED",
           entries'[k].own, entries'[k].link.source \in ReversalSources, entries'[k].link.of = n,
           entries'[k].lines = Swapped(entries[n].lines), entries'[k].status = "POSTED"
    PROVE  PairedReversals'
<1>1. \A r \in DOMAIN entries : IsReversal(r)' <=> IsReversal(r)
  BY DEF IsReversal, Kept
<1>2. IsReversal(k)'
  BY DEF IsReversal
<1>3. \A r \in DOMAIN entries : IsReversal(r) => entries[r].link.of # n
  BY DEF PairedReversals
<1>4. ASSUME NEW r \in DOMAIN entries', IsReversal(r)'
      PROVE  /\ entries'[r].link.of \in DOMAIN entries'
             /\ entries'[entries'[r].link.of].status = "VOIDED"
             /\ entries'[r].lines = Swapped(entries'[entries'[r].link.of].lines)
  <2>1. CASE r = k
    BY <2>1 DEF Kept
  <2>2. CASE r # k
    <3>1. /\ r \in DOMAIN entries /\ IsReversal(r) /\ entries'[r].link.of = entries[r].link.of
          /\ entries'[r].lines = entries[r].lines
      BY <1>1, <1>4, <2>2 DEF Kept
    <3>2. /\ entries[r].link.of \in DOMAIN entries \ {n}
          /\ entries[entries[r].link.of].status = "VOIDED"
          /\ entries[r].lines = Swapped(entries[entries[r].link.of].lines)
      BY <1>3, <3>1 DEF PairedReversals
    <3> QED
      BY <3>1, <3>2 DEF Kept
  <2> QED
    BY <2>1, <2>2
<1>5. ASSUME NEW m \in DOMAIN entries', entries'[m].status = "VOIDED"
      PROVE  \E r \in DOMAIN entries' : IsReversal(r)' /\ entries'[r].link.of = m
  <2>1. CASE m = n
    BY <1>2, <2>1
  <2>2. CASE m # n
    <3>1. m \in DOMAIN entries /\ entries[m].status = "VOIDED"
      BY <1>5, <2>2
    <3> QED
      BY <1>1, <3>1 DEF PairedReversals, Kept
  <2> QED
    BY <2>1, <2>2
<1>6. ASSUME NEW r \in DOMAIN entries', NEW s \in DOMAIN entries',
             IsReversal(r)', IsReversal(s)', entries'[r].link.of = entries'[s].link.of
      PROVE  r = s
  <2>1. CASE r # k /\ s # k
    BY <1>1, <1>6, <2>1 DEF PairedReversals, Kept
  <2>2. CASE r = k \/ s = k
    BY <1>1, <1>3, <1>6, <2>2 DEF Kept
  <2> QED
    BY <2>1, <2>2
<1> QED
  BY <1>4, <1>5, <1>6 DEF PairedReversals

LEMMA PairsStay == YearTypeInv /\ PairedReversals /\ [YearNext]_vars => PairedReversals'
<1> SUFFICES ASSUME YearTypeInv, PairedReversals, [YearNext]_vars PROVE PairedReversals'
  OBVIOUS
<1> DEFINE k == Len(entries) + 1
<1>1. CASE entries' = entries
  BY <1>1 DEF PairedReversals, IsReversal
<1>2. ASSUME NEW e, Drafts(e) PROVE PairedReversals'
  <2>1. /\ k \notin DOMAIN entries /\ DOMAIN entries' = DOMAIN entries \union {k}
        /\ \A m \in DOMAIN entries : entries'[m] = entries[m]
        /\ entries'[k] = e
    BY <1>2, DraftEffect
  <2>2. (~entries'[k].own \/ entries'[k].link.source \notin ReversalSources) /\ entries'[k].status = "DRAFT"
    BY <1>2, <2>1 DEF Drafts, ReversalSources
  <2> HIDE DEF k
  <2> QED
    BY <2>1, <2>2, DraftKeeps
<1>3. ASSUME NEW n, Posts(n) PROVE PairedReversals'
  <2>1. /\ n \in DOMAIN entries /\ DOMAIN entries' = DOMAIN entries
        /\ \A m \in DOMAIN entries : Kept(m)
        /\ \A m \in DOMAIN entries \ {n} : entries'[m].status = entries[m].status
        /\ entries[n].status # "VOIDED" /\ entries'[n].status # "VOIDED"
    BY <1>3, PostEffect DEF Posts
  <2> QED
    BY <2>1, PostKeeps
<1>4. ASSUME NEW n, NEW e, Voids(n, e) PROVE PairedReversals'
  <2>1. /\ k \notin DOMAIN entries /\ DOMAIN entries' = DOMAIN entries \union {k}
        /\ \A m \in DOMAIN entries : Kept(m)
        /\ \A m \in DOMAIN entries \ {n} : entries'[m].status = entries[m].status
        /\ entries'[n].status = "VOIDED" /\ entries'[k] = e
    BY <1>4, VoidEffect
  <2>2. /\ n \in DOMAIN entries /\ entries[n].status = "POSTED"
        /\ entries'[k].own /\ entries'[k].link.source \in ReversalSources /\ entries'[k].link.of = n
        /\ entries'[k].lines = Swapped(entries[n].lines) /\ entries'[k].status = "POSTED"
    BY <1>4, <2>1 DEF Voids
  <2> HIDE DEF k
  <2> QED
    BY <2>1, <2>2, VoidKeeps
<1> QED
  BY <1>1, <1>2, <1>3, <1>4, JournalSteps

\* However many requests create, post and void entries at once, and wherever
\* they stop, a voided entry has one reversing entry, which mirrors its lines,
\* and no other entry has one: for every chart of accounts, number of requests,
\* set of postings and set of links that clients give their entries.
THEOREM EntriesReversedOnce == YearSpec => []OneReversal
<1>1. YearInit => PairedReversals
  BY DEF YearInit, LedgerInit, PairedReversals
<1> QED
  BY <1>1, PairsStay, PairsCount, TypesHold, PTL DEF YearSpec

-----------------------------------------------------------------------------
(* Balance *)

\* Not only what is posted balances, but whatever the journal holds: what was
\* drafted had been validated, and a reversal has the opposite lines.
EntriesBalance == \A n \in DOMAIN entries : Total(entries[n].lines.base, Accounts) = 0

LEMMA EntriesStayBalanced == YearTypeInv /\ EntriesBalance /\ [YearNext]_vars => EntriesBalance'
<1> SUFFICES ASSUME YearTypeInv, EntriesBalance, [YearNext]_vars,
                    NEW m \in DOMAIN entries'
             PROVE  Total(entries'[m].lines.base, Accounts) = 0
  BY DEF EntriesBalance
<1>0. \A n \in DOMAIN entries : Total(entries[n].lines.base, Accounts) = 0
  BY DEF EntriesBalance
<1> DEFINE k == Len(entries) + 1
<1>1. CASE entries' = entries
  BY <1>0, <1>1
<1>2. ASSUME NEW e, Drafts(e) PROVE Total(entries'[m].lines.base, Accounts) = 0
  <2>1. /\ DOMAIN entries' = DOMAIN entries \union {k} /\ entries'[k] = e
        /\ \A n \in DOMAIN entries : entries'[n] = entries[n]
    BY <1>2, DraftEffect
  <2>2. Total(e.lines.base, Accounts) = 0
    BY <1>2 DEF Drafts, Validate
  <2> HIDE DEF k
  <2> QED
    BY <1>0, <2>1, <2>2
<1>3. ASSUME NEW n, Posts(n) PROVE Total(entries'[m].lines.base, Accounts) = 0
  <2>1. m \in DOMAIN entries /\ entries'[m].lines = entries[m].lines
    BY <1>3, PostEffect DEF Kept
  <2> QED
    BY <1>0, <2>1
<1>4. ASSUME NEW n, NEW e, Voids(n, e) PROVE Total(entries'[m].lines.base, Accounts) = 0
  <2>1. /\ DOMAIN entries' = DOMAIN entries \union {k} /\ entries'[k] = e
        /\ \A l \in DOMAIN entries : entries'[l].lines = entries[l].lines
    <3>1. /\ DOMAIN entries' = DOMAIN entries \union {k} /\ entries'[k] = e
          /\ \A l \in DOMAIN entries : Kept(l)
      BY <1>4, VoidEffect
    <3> QED
      BY <3>1 DEF Kept
  <2>2. entries[n].lines \in Lines /\ e.lines = Swapped(entries[n].lines) /\ n \in DOMAIN entries
    BY <1>4, EntriesFinite DEF Voids, YearTypeInv
  <2>3. Total(e.lines.base, Accounts) = 0 - 0
    BY <1>0, <2>2, SwappedFacts
  <2> HIDE DEF k
  <2> QED
    BY <1>0, <2>1, <2>3
<1> QED
  BY <1>1, <1>2, <1>3, <1>4, JournalSteps

\* The posted entries balance in the base currency, the reversals and
\* carry-forwards that no request validated included (accounting/types.go:223),
\* whatever requests race.
THEOREM PostedBalance == YearSpec => []BooksBalance
<1>1. YearInit => EntriesBalance
  BY DEF YearInit, LedgerInit, EntriesBalance
<1>2. YearTypeInv /\ EntriesBalance => BooksBalance
  <2> SUFFICES ASSUME YearTypeInv, EntriesBalance PROVE BooksBalance
    OBVIOUS
  <2> DEFINE f == [n \in Posted |-> Total(entries[n].lines.base, Accounts)]
  <2>1. Posted \in SUBSET DOMAIN entries
    BY DEF Posted
  <2>2. IsFiniteSet(Posted)
    BY <2>1, EntriesFinite DEF YearTypeInv
  <2>3. \A n \in Posted : f[n] = 0
    BY <2>1 DEF EntriesBalance
  <2> HIDE DEF f
  <2>4. SumFunctionOnSet(f, Posted) = 0
    BY <2>2, <2>3, SumOfZeros
  <2> QED
    BY <2>4 DEF BooksBalance, Total, f
<1> QED
  BY <1>1, <1>2, EntriesStayBalanced, TypesHold, PTL DEF YearSpec

-----------------------------------------------------------------------------
(* What a call has read *)

Carries(n) == entries[n].link.source = "YEAR_END_CARRY_FORWARD"

\* The program made it, and not a client.
IsCarry(n) == entries[n].own /\ Carries(n)

\* How the call of a handler goes on.
GoesTo(c, d) ==
    /\ d.step = "activity" => d.date \in MonthEnds
    /\ d.step \in {"existing", "balances", "carry create"} => d.date = c.date
    /\ d.step = "existing" => c.step = "activity"
    /\ d.step = "balances" => c.step = "existing" /\ CarryForwards(c.date) = {}
    /\ d.step = "carry create" =>
          c.step = "balances" /\ d.lines = buildYearEndCarryForwardLines(FiscalYear(c.date))
    /\ d.step \in {"post", "void"} => d.entry \in DOMAIN entries /\ Unlocked(entries[d.entry].date)
    /\ d.step \in {"post write", "void write", "reverse write"} => d.entry = c.entry
    /\ d.step = "post write" => c.step = "post"
    /\ d.step = "void write" => c.step = "void"
    /\ d.step = "reverse" => d.entry \in DOMAIN entries /\ Carries(d.entry)
    /\ d.step = "reverse write" => c.step = "reverse"
    /\ d.step = "carry post" => d.entry \in DOMAIN entries' /\ Carries(d.entry)'
    /\ d.step # "idle" /\ d.step # "carry post" => entries' = entries

LEMMA CallGoes ==
    ASSUME YearTypeInv, NEW h \in Handlers, HandlerStep(h), NEW d, d = call'[h]
    PROVE  GoesTo(call[h], d)
<1> PICK c : c = call[h]
  OBVIOUS
<1> SUFFICES GoesTo(c, d)
  OBVIOUS
<1>0. call \in [Handlers -> Call] /\ c \in Call
  BY CallFacts DEF YearTypeInv
<1>0m. MonthEnds \subseteq Nat
  BY DatesAssumption
<1>1. ASSUME NEW e, Calls(h, e) PROVE d = e
  BY <1>0, <1>1 DEF Calls
<1>2. ASSUME NEW date \in Dates, NEW lines \in Postings, NEW link \in Links, CheckCreate(h, date, lines, link)
      PROVE  GoesTo(c, d)
  <2>1. d = [CallAt("create", 0, date, lines) EXCEPT !.link = link] /\ entries' = entries
    BY <1>1, <1>2 DEF CheckCreate, Continues
  <2>2. d.step = "create"
    BY <2>1 DEF CallAt
  <2> QED
    BY <2>1, <2>2 DEF GoesTo
<1>3. ASSUME NEW n \in DOMAIN entries, NEW step \in {"post", "void"}, CheckEntry(h, n, step)
      PROVE  GoesTo(c, d)
  <2>1. d = CallAt(step, n, 0, NoLines) /\ entries' = entries /\ Unlocked(entries[n].date)
    BY <1>1, <1>3 DEF CheckEntry, Continues
  <2>2. d.step = step /\ d.entry = n
    BY <2>1 DEF CallAt
  <2> QED
    BY <2>1, <2>2 DEF GoesTo
<1>4. ASSUME NEW year \in MonthEnds, CheckYearClosed(h, year)
      PROVE  GoesTo(c, d)
  <2>1. d = CallAt("activity", 0, year, NoLines) /\ entries' = entries
    BY <1>1, <1>4 DEF CheckYearClosed, Continues
  <2>2. d.step = "activity" /\ d.date = year
    BY <2>1 DEF CallAt
  <2> QED
    BY <2>1, <2>2 DEF GoesTo
<1>5. ASSUME NEW year \in MonthEnds, FindCarryForward(h, year)
      PROVE  GoesTo(c, d)
  <2>1. PICK n \in CarryForwards(year) : Continues(h, CallAt("reverse", n, 0, NoLines))
    BY <1>5 DEF FindCarryForward
  <2>2. d = CallAt("reverse", n, 0, NoLines) /\ entries' = entries
    BY <1>1, <2>1 DEF Continues
  <2>3. d.step = "reverse" /\ d.entry = n
    BY <2>2 DEF CallAt
  <2>4. n \in DOMAIN entries /\ Carries(n)
    BY LinksTyped, <1>0m DEF CarryForwards, Carries
  <2> QED
    BY <2>2, <2>3, <2>4 DEF GoesTo
<1>6. ASSUME NEW step, Continues(h, [call[h] EXCEPT !.step = step])
      PROVE  /\ d.step = step /\ d.entry = c.entry /\ d.date = c.date /\ d.lines = c.lines
             /\ entries' = entries
  <2>1. d = [c EXCEPT !.step = step] /\ entries' = entries
    BY <1>1, <1>6 DEF Continues
  <2> QED
    BY <1>0, <2>1 DEF Call
<1>7. CASE ReadForPost(h)
  <2>1. d.step = "post write" /\ c.step = "post" /\ d.entry = c.entry /\ entries' = entries
    BY <1>6, <1>7 DEF ReadForPost, ReadEntry
  <2> QED
    BY <2>1 DEF GoesTo
<1>8. CASE ReadForVoid(h)
  <2>1. d.step = "void write" /\ c.step = "void" /\ d.entry = c.entry /\ entries' = entries
    BY <1>6, <1>8 DEF ReadForVoid, ReadEntry
  <2> QED
    BY <2>1 DEF GoesTo
<1>9. CASE ReadForReverse(h)
  <2>1. d.step = "reverse write" /\ c.step = "reverse" /\ d.entry = c.entry /\ entries' = entries
    BY <1>6, <1>9 DEF ReadForReverse, ReadEntry
  <2> QED
    BY <2>1 DEF GoesTo
<1>10. CASE CheckActivity(h)
  <2>1. d.step = "existing" /\ c.step = "activity" /\ d.date = c.date /\ entries' = entries
    BY <1>6, <1>10 DEF CheckActivity
  <2> QED
    BY <2>1 DEF GoesTo
<1>11. CASE CheckNotCarried(h)
  <2>1. /\ d.step = "balances" /\ c.step = "existing" /\ d.date = c.date /\ entries' = entries
        /\ CarryForwards(c.date) = {}
    BY <1>6, <1>11 DEF CheckNotCarried
  <2> QED
    BY <2>1 DEF GoesTo
<1>12. CASE ReadBalances(h)
  <2> DEFINE lines == buildYearEndCarryForwardLines(FiscalYear(c.date))
  <2>1. d = CallAt("carry create", 0, c.date, lines) /\ entries' = entries /\ c.step = "balances"
    BY <1>1, <1>12 DEF ReadBalances, Continues
  <2> HIDE DEF lines
  <2>2. d.step = "carry create" /\ d.date = c.date /\ d.lines = lines
    <3>1. d.step = "carry create"
      BY ONLY <2>1 DEF CallAt
    <3>2. d.date = c.date
      BY ONLY <2>1 DEF CallAt
    <3>3. d.lines = lines
      BY ONLY <2>1 DEF CallAt
    <3> QED
      BY <3>1, <3>2, <3>3
  <2>3. d.lines = buildYearEndCarryForwardLines(FiscalYear(c.date))
    BY <2>2 DEF lines
  <2> QED
    BY <2>1, <2>2, <2>3 DEF GoesTo
<1>13. CASE Create(h) \/ Post(h) \/ Void(h) \/ PostCarryForward(h) \/ ReverseCarryForward(h) \/ FailCall(h)
  <2>1. d = NoCall
    BY <1>1, <1>13 DEF Create, Post, Void, PostCarryForward, ReverseCarryForward, FailCall, Returns
  <2>2. d.step = "idle"
    BY <2>1 DEF NoCall, CallAt
  <2> QED
    BY <2>2 DEF GoesTo
<1>14. CASE CreateCarryForward(h)
  <2>1. PICK k : k = Len(entries) + 1
    OBVIOUS
  <2>2. d = CallAt("carry post", k, 0, NoLines)
    BY <1>1, <1>14, <2>1 DEF CreateCarryForward
  <2>3. d.step = "carry post" /\ d.entry = k
    <3>1. d.step = "carry post"
      BY ONLY <2>2 DEF CallAt
    <3>2. d.entry = k
      BY ONLY <2>2 DEF CallAt
    <3> QED
      BY <3>1, <3>2
  <2>4. c.date \in Nat /\ c.date + 1 \in Nat /\ c.lines \in Lines
    BY CallFacts
  <2>5. CreateJournalEntry(c.date + 1, c.lines, CarryForwardOf(c.date), TRUE, Len(closes))
    BY <1>14 DEF CreateCarryForward
  <2>6. PICK e : Drafts(e) /\ e.link.source = "YEAR_END_CARRY_FORWARD"
    <3>1. PICK date, lines, year : /\ date = c.date + 1 /\ date \in Nat /\ lines = c.lines
                                   /\ lines \in Lines /\ year = c.date /\ year \in Nat
      BY <2>4
    <3>2. CreatesCarry(date, lines, year)
      BY <2>5, <3>1 DEF CreatesCarry
    <3>3. \E e : /\ Drafts(e) /\ e.lines = lines
                 /\ e.link.source = "YEAR_END_CARRY_FORWARD" /\ e.link.of = year
      BY ONLY YearTypeInv, <3>1, <3>2, CarryDrafts
    <3> QED
      BY <3>3
  <2>7. k \in DOMAIN entries' /\ entries'[k] = e
    BY <2>1, <2>6, DraftEffect
  <2>8. d.entry \in DOMAIN entries' /\ Carries(d.entry)'
    BY <2>3, <2>6, <2>7 DEF Carries
  <2> QED
    BY <2>3, <2>8 DEF GoesTo
<1> QED
  BY <1>2, <1>3, <1>4, <1>5, <1>7, <1>8, <1>9, <1>10, <1>11, <1>12, <1>13, <1>14 DEF HandlerStep

\* Requests that write the journal come one at a time.
OneAtATime == \A g, h \in Handlers : g = h

\* What the only handler does.
LEMMA OneHandler ==
    ASSUME YearTypeInv, OneAtATime, NEW h \in Handlers, [YearNext]_vars
    PROVE  \/ /\ UNCHANGED <<entries, call>>
              /\ UNCHANGED periodVars \/ \E o \in Officers : OfficerStep(o) \/ \E p \in MonthEnds : RequestReopen(o, p)
           \/ /\ UNCHANGED periodVars
              /\ \E c, d : c = call[h] /\ d = call'[h] /\ WritesFrom(c) /\ GoesTo(c, d)
<1>1. ASSUME NEW g \in Handlers, HandlerStep(g)
      PROVE  \E c, d : c = call[h] /\ d = call'[h] /\ WritesFrom(c) /\ GoesTo(c, d)
  <2>1. g = h
    BY DEF OneAtATime
  <2>2. PICK d : d = call'[h]
    OBVIOUS
  <2>3. WritesFrom(call[h])
    BY <1>1, <2>1, HandlersAct DEF Acts
  <2>4. GoesTo(call[h], d)
    BY <1>1, <2>1, <2>2, CallGoes
  <2>5. PICK c : c = call[h]
    OBVIOUS
  <2>6. WritesFrom(c) /\ GoesTo(c, d)
    BY <2>3, <2>4, <2>5
  <2> QED
    BY <2>2, <2>5, <2>6
<1> QED
  BY <1>1 DEF YearNext, OfficerNext, ReopenRequest, vars, periodVars

-----------------------------------------------------------------------------
(* Carried forward once *)

\* No year has two carry-forwards, and one about to be created has none.
CarriedInv ==
    /\ \A m, n \in DOMAIN entries :
          /\ IsCarry(m) /\ entries[m].status # "VOIDED"
          /\ IsCarry(n) /\ entries[n].status # "VOIDED"
          /\ entries[m].link.of = entries[n].link.of
          => m = n
    /\ \A h \in Handlers :
          call[h].step \in {"balances", "carry create"} => CarryForwards(call[h].date) = {}

LEMMA CarriedStays == 
    ASSUME OneAtATime, YearTypeInv, CarriedInv, [YearNext]_vars
    PROVE  CarriedInv'
<1> SUFFICES ASSUME NEW h \in Handlers PROVE CarriedInv'
  <2>1. ASSUME Handlers = {} PROVE CarriedInv'
    <3>1. UNCHANGED entries
      BY <2>1 DEF YearNext, vars
    <3> QED
      BY <2>1, <3>1 DEF CarriedInv, IsCarry, Carries
  <2> QED
    BY <2>1
<1> DEFINE k == Len(entries) + 1
<1>1. \A g \in Handlers : g = h
  BY DEF OneAtATime
<1>2. CASE UNCHANGED <<entries, call>>
  BY <1>2 DEF CarriedInv, IsCarry, Carries, CarryForwards
<1>3. ASSUME NEW c, NEW d, c = call[h], d = call'[h], WritesFrom(c), GoesTo(c, d) PROVE CarriedInv'
  <2>1. CASE entries' = entries
    <3>1. d.step \in {"balances", "carry create"} => CarryForwards(d.date)' = {}
      <4>1. \A year : CarryForwards(year)' = CarryForwards(year)
        BY <2>1 DEF CarryForwards
      <4>2. c.step = "balances" => CarryForwards(c.date) = {}
        BY <1>3 DEF CarriedInv
      <4>3. CASE d.step = "balances"
        <5>1. d.date = c.date /\ CarryForwards(c.date) = {}
          BY <1>3, <4>3 DEF GoesTo
        <5> QED
          BY <4>1, <5>1
      <4>4. CASE d.step = "carry create"
        <5>1. d.date = c.date /\ c.step = "balances"
          BY <1>3, <4>4 DEF GoesTo
        <5> QED
          BY <4>1, <4>2, <5>1
      <4> QED
        BY <4>3, <4>4
    <3>3. (\A g \in Handlers : call[g].step \in {"balances", "carry create"} =>
                                  CarryForwards(call[g].date) = {})'
      <4>1. PICK y : y = d.date
        OBVIOUS
      <4>2. d.step \in {"balances", "carry create"} => CarryForwards(y)' = {}
        BY <3>1, <4>1
      <4> QED
        BY <1>1, <1>3, <4>1, <4>2 DEF CarryForwards
    <3>2. \A m \in DOMAIN entries' : m \in DOMAIN entries /\ (IsCarry(m)' <=> IsCarry(m))
      BY <2>1 DEF IsCarry, Carries
    <3> QED
      BY <2>1, <3>2, <3>3 DEF CarriedInv
  <2>2. CASE entries' # entries
    <3>1. d.step \notin {"balances", "carry create"}
      BY <1>3, <2>2 DEF GoesTo
    <3>2. SUFFICES ASSUME NEW m \in DOMAIN entries', NEW n \in DOMAIN entries',
                          IsCarry(m)', entries'[m].status # "VOIDED",
                          IsCarry(n)', entries'[n].status # "VOIDED",
                          entries'[m].link.of = entries'[n].link.of
                   PROVE  m = n
      BY <1>1, <1>3, <3>1 DEF CarriedInv
    <3>3. \A l \in DOMAIN entries : IsCarry(l) /\ entries[l].status # "VOIDED" => l \in CarryForwards(entries[l].link.of)
      <4>1. \A l \in DOMAIN entries : entries[l].link \in Link
        <5>1. \A l \in DOMAIN entries : entries[l] \in JournalEntry
          BY DEF YearTypeInv, LedgerTypeOK
        <5> QED
          BY <5>1 DEF JournalEntry
      <4>2. \A l \in DOMAIN entries : IsCarry(l) => entries[l].link = CarryForwardOf(entries[l].link.of)
        BY <4>1, LinksTyped DEF IsCarry, Carries
      <4> QED
        BY <4>2 DEF CarryForwards
    <3>4. ASSUME \A l \in DOMAIN entries' : IsCarry(l)' /\ entries'[l].status # "VOIDED" =>
                    /\ l \in DOMAIN entries /\ IsCarry(l) /\ entries[l].status # "VOIDED"
                    /\ entries'[l].link.of = entries[l].link.of
          PROVE  m = n
      BY <3>2, <3>4 DEF CarriedInv
    <3>5. ASSUME NEW e, Drafts(e),
                 e.own => c.step = "carry create" /\ e.link.of = c.date
          PROVE  m = n
      <4>1. /\ DOMAIN entries' = DOMAIN entries \union {k} /\ entries'[k] = e
            /\ \A l \in DOMAIN entries : entries'[l] = entries[l]
        BY <3>5, DraftEffect
      <4> HIDE DEF k
      <4>2. CASE ~e.own
        BY <3>4, <4>1, <4>2 DEF IsCarry, Carries
      <4>3. CASE e.own
        <5>1. CarryForwards(e.link.of) = {}
          BY <1>3, <3>5, <4>3 DEF CarriedInv
        <5>2. \A l \in DOMAIN entries : IsCarry(l) /\ entries[l].status # "VOIDED" => entries[l].link.of # e.link.of
          BY <3>3, <5>1
        <5>3. \A l \in DOMAIN entries : IsCarry(l)' <=> IsCarry(l)
          BY <4>1 DEF IsCarry, Carries
        <5>4. CASE m # k /\ n # k
          BY <3>2, <4>1, <5>3, <5>4 DEF CarriedInv
        <5>5. CASE m = k \/ n = k
          BY <3>2, <4>1, <5>2, <5>3, <5>5
        <5> QED
          BY <5>4, <5>5
      <4> QED
        BY <4>2, <4>3
    <3>6. ASSUME NEW p, Posts(p) PROVE m = n
      <4>1. /\ DOMAIN entries' = DOMAIN entries /\ p \in DOMAIN entries /\ entries[p].status = "DRAFT"
            /\ \A l \in DOMAIN entries \ {p} : entries'[l] = entries[l]
            /\ \A l \in DOMAIN entries : Kept(l)
        BY <3>6, PostEffect DEF Posts
      <4> QED
        BY <3>4, <4>1 DEF IsCarry, Carries, Kept
    <3>7. ASSUME NEW p, NEW e, Voids(p, e) PROVE m = n
      <4>1. /\ DOMAIN entries' = DOMAIN entries \union {k} /\ entries'[k] = e
            /\ p \in DOMAIN entries /\ entries[p].status = "POSTED"
            /\ \A l \in DOMAIN entries \ {p} : entries'[l] = entries[l]
            /\ \A l \in DOMAIN entries : Kept(l)
        BY <3>7, VoidEffect DEF Voids
      <4>2. e.link.source # "YEAR_END_CARRY_FORWARD"
        BY <3>7 DEF Voids, ReversalSources
      <4> HIDE DEF k
      <4> QED
        BY <3>4, <4>1, <4>2 DEF IsCarry, Carries, Kept
    <3> QED
      BY <1>3, <2>2, <3>5, <3>6, <3>7 DEF WritesFrom
  <2> QED
    BY <2>1, <2>2
<1> QED
  BY <1>2, <1>3, OneHandler

\* While the requests come one at a time, whichever of them stops between
\* creating its entry and posting it, and whatever entries clients link to the
\* year, the carry-forward request posts once for a year at most (accounting/
\* year_end.go:425).
THEOREM CarriedForwardOnce ==
    ASSUME OneAtATime
    PROVE  YearSpec => []CarryForwardOnce
<1>1. YearInit => CarriedInv
  <2> SUFFICES ASSUME YearInit PROVE CarriedInv
    OBVIOUS
  <2>1. DOMAIN entries = {}
    BY DEF YearInit, LedgerInit
  <2>2. \A h \in Handlers : call[h].step = "idle"
    BY DEF YearInit, NoCall, CallAt
  <2> QED
    BY <2>1, <2>2 DEF CarriedInv
<1>2. YearTypeInv /\ CarriedInv /\ [YearNext]_vars => CarriedInv'
  BY CarriedStays
<1>3. CarriedInv => CarryForwardOnce
  BY DEF CarriedInv, CarryForwardOnce, IsCarry, Carries, Posted
<1> QED
  BY <1>1, <1>2, <1>3, TypesHold, PTL DEF YearSpec

-----------------------------------------------------------------------------
(* Carried forward exactly *)

\* The year of a carry-forward was never unlocked since it was created.
Held(n) == \A m \in entries[n].created..Len(closes) : LockAfter(m) >= entries[n].link.of

Empties(lines, year) == \A a \in ProfitAndLoss : lines.raw[a] = 0 - FiscalYear(year)[a]

\* The last event says what the lock date is, and an update rewrites it.
LockFollows ==
    /\ lock = LockAfter(Len(closes))
    /\ \A o \in Officers : officer[o].step = "update" => officer[o].after = lock

RowsExact ==
    \A n \in DOMAIN entries :
        /\ entries[n].created <= Len(closes)
        /\ IsCarry(n) => /\ entries[n].link.of \in MonthEnds
                         /\ Held(n) => Empties(entries[n].lines, entries[n].link.of)

\* The entry that is about to be posted or voided is after every year that has
\* been held.
CallExact(c) ==
    /\ c.step \in {"activity", "existing", "balances", "carry create"} => c.date \in MonthEnds
    /\ c.step = "carry create" => Empties(c.lines, c.date)
    /\ c.step \in {"post", "post write", "void", "void write"} =>
          \A n \in DOMAIN entries : IsCarry(n) /\ entries[n].link.of >= entries[c.entry].date => ~Held(n)
    /\ c.step \in {"carry post", "reverse", "reverse write"} => Carries(c.entry)

ExactInv == LockFollows /\ RowsExact /\ \A h \in Handlers : CallExact(call[h])

LEMMA SameYear ==
    ASSUME NEW year,
           PeriodEntries(year - YearLength + 1, year)' = PeriodEntries(year - YearLength + 1, year),
           \A n \in PeriodEntries(year - YearLength + 1, year) : entries'[n].lines = entries[n].lines
    PROVE  FiscalYear(year)' = FiscalYear(year)
<1> PICK S : S = PeriodEntries(year - YearLength + 1, year)
  OBVIOUS
<1>1. \A a : [n \in S |-> entries'[n].lines.raw[a]] = [n \in S |-> entries[n].lines.raw[a]]
  OBVIOUS
<1>2. FiscalYear(year) = [a \in Accounts |-> Total([n \in S |-> entries[n].lines.raw[a]], S)]
  BY DEF FiscalYear, GetPeriodBalances, Balances
<1>3. FiscalYear(year)' = [a \in Accounts |-> Total([n \in S |-> entries'[n].lines.raw[a]], S)]
  BY DEF FiscalYear, GetPeriodBalances, Balances
<1> QED
  BY <1>1, <1>2, <1>3

\* Only a posted entry that is dated in the year and is no carry-forward counts.
LEMMA RowCounts ==
    ASSUME LedgerTypeOK, NEW year \in Nat
    PROVE  \A n : n \in PeriodEntries(year - YearLength + 1, year) =>
              /\ n \in DOMAIN entries /\ entries[n].status = "POSTED" /\ entries[n].date <= year
              /\ entries[n].link.source \notin CarryForwardSources
<1> SUFFICES ASSUME NEW n, n \in PeriodEntries(year - YearLength + 1, year)
             PROVE  /\ n \in DOMAIN entries /\ entries[n].status = "POSTED" /\ entries[n].date <= year
                    /\ entries[n].link.source \notin CarryForwardSources
  OBVIOUS
<1>1. /\ n \in DOMAIN entries /\ entries[n].status = "POSTED"
      /\ entries[n].date \in (year - YearLength + 1)..year
      /\ entries[n].link.source \notin CarryForwardSources
  BY DEF PeriodEntries, Posted
<1>2. YearLength \in Nat
  BY YearAssumption
<1>3. entries[n].date <= year
  BY <1>1, <1>2
<1> QED
  BY <1>1, <1>3

LEMMA DraftCounts ==
    ASSUME YearTypeInv, NEW e, Drafts(e), NEW year \in Nat
    PROVE  FiscalYear(year)' = FiscalYear(year)
<1> PICK k : k = Len(entries) + 1
  OBVIOUS
<1>1. /\ k \notin DOMAIN entries /\ DOMAIN entries' = DOMAIN entries \union {k}
      /\ \A m \in DOMAIN entries : entries'[m] = entries[m]
      /\ entries'[k].status # "POSTED"
  BY DraftEffect DEF Drafts
<1>2. PeriodEntries(year - YearLength + 1, year)' = PeriodEntries(year - YearLength + 1, year)
  BY <1>1 DEF PeriodEntries, Posted
<1>3. \A n \in PeriodEntries(year - YearLength + 1, year) : entries'[n].lines = entries[n].lines
  BY <1>1 DEF PeriodEntries, Posted
<1> QED
  BY <1>2, <1>3, SameYear

LEMMA PostCounts ==
    ASSUME YearTypeInv, NEW p, Posts(p), NEW year \in Nat, Carries(p) \/ ~(year >= entries[p].date)
    PROVE  FiscalYear(year)' = FiscalYear(year)
<1>1. /\ DOMAIN entries' = DOMAIN entries /\ p \in DOMAIN entries
      /\ \A m \in DOMAIN entries \ {p} : entries'[m] = entries[m]
      /\ \A m \in DOMAIN entries : Kept(m)
      /\ LedgerTypeOK /\ LedgerTypeOK'
  BY PostEffect DEF Posts, YearTypeInv
<1>2. p \notin PeriodEntries(year - YearLength + 1, year)
  BY <1>1, RowCounts DEF Carries, CarryForwardSources
<1>3. p \notin PeriodEntries(year - YearLength + 1, year)'
  <2>1. entries'[p].date = entries[p].date /\ entries'[p].link = entries[p].link
    BY <1>1 DEF Kept
  <2>2. YearLength \in Nat
    BY YearAssumption
  <2>3. CASE Carries(p)
    BY <2>1, <2>3 DEF PeriodEntries, Carries, CarryForwardSources
  <2>4. CASE ~(year >= entries[p].date)
    <3>1. entries[p].date \notin (year - YearLength + 1)..year
      BY <2>2, <2>4
    <3> QED
      BY <2>1, <3>1 DEF PeriodEntries
  <2> QED
    BY <2>3, <2>4
<1>4. PeriodEntries(year - YearLength + 1, year)' = PeriodEntries(year - YearLength + 1, year)
  BY <1>1, <1>2, <1>3 DEF PeriodEntries, Posted
<1>5. \A n \in PeriodEntries(year - YearLength + 1, year) : entries'[n].lines = entries[n].lines
  BY <1>1 DEF PeriodEntries, Posted, Kept
<1> QED
  BY <1>4, <1>5, SameYear

\* The reversing entry is a carry-forward reversal, or dated after the year.
LEMMA VoidCounts ==
    ASSUME YearTypeInv, NEW p, NEW e, Voids(p, e), NEW year \in Nat, year < Now,
           Carries(p) \/ ~(year >= entries[p].date)
    PROVE  FiscalYear(year)' = FiscalYear(year)
<1> PICK k : k = Len(entries) + 1
  OBVIOUS
<1>1. /\ DOMAIN entries' = DOMAIN entries \union {k} /\ k \notin DOMAIN entries /\ p \in DOMAIN entries
      /\ \A m \in DOMAIN entries \ {p} : entries'[m] = entries[m]
      /\ \A m \in DOMAIN entries : Kept(m)
      /\ entries'[p].status = "VOIDED" /\ entries'[k] = e
      /\ LedgerTypeOK
  BY SMTT(30), VoidEffect DEF Voids, YearTypeInv
<1>2. p \notin PeriodEntries(year - YearLength + 1, year)
  BY <1>1, RowCounts DEF Carries, CarryForwardSources
<1>3. p \notin PeriodEntries(year - YearLength + 1, year)'
  BY <1>1 DEF PeriodEntries, Posted
<1>4. k \notin PeriodEntries(year - YearLength + 1, year)'
  <2>1. e.link.source \in CarryForwardSources \/ e.date = Now
    BY DEF Voids, ReversalSources, CarryForwardSources
  <2>2. YearLength \in Nat /\ Now \in Nat
    BY YearAssumption
  <2>3. Now \notin (year - YearLength + 1)..year
    BY <2>2
  <2> QED
    BY <1>1, <2>1, <2>3 DEF PeriodEntries
<1>5. PeriodEntries(year - YearLength + 1, year)' = PeriodEntries(year - YearLength + 1, year)
  BY <1>1, <1>2, <1>3, <1>4 DEF PeriodEntries, Posted
<1>6. \A n \in PeriodEntries(year - YearLength + 1, year) : entries'[n].lines = entries[n].lines
  BY <1>1 DEF PeriodEntries, Posted, Kept
<1> QED
  BY <1>5, <1>6, SameYear

\* A year that is held has been held.
LEMMA HeldBack ==
    ASSUME YearTypeInv, NEW n \in DOMAIN entries, n \in DOMAIN entries', Kept(n), Held(n)',
           entries[n].created <= Len(closes), opening' = opening,
           closes' = closes \/ \E event \in Event : closes' = Append(closes, event)
    PROVE  Held(n)
<1>1. /\ entries'[n].created = entries[n].created /\ entries'[n].link.of = entries[n].link.of
      /\ closes \in Seq(Event) /\ entries[n].created \in Nat
  <2>1. entries[n] \in JournalEntry
    BY DEF YearTypeInv, LedgerTypeOK
  <2> QED
    BY <2>1 DEF Kept, JournalEntry, YearTypeInv, PeriodInv, PeriodTypeOK
<1>2. Len(closes) \in Nat /\ Len(closes') \in Nat /\ Len(closes) <= Len(closes')
      /\ \A m \in 1..Len(closes) : closes'[m] = closes[m]
  BY <1>1
<1> SUFFICES ASSUME NEW m \in entries[n].created..Len(closes) PROVE LockAfter(m) >= entries[n].link.of
  BY DEF Held
<1>3. m \in entries'[n].created..Len(closes') /\ (m = 0 \/ m \in 1..Len(closes))
  BY <1>1, <1>2
<1>4. LockAfter(m)' >= entries'[n].link.of
  BY <1>3 DEF Held
<1>5. LockAfter(m)' = LockAfter(m)
  BY <1>2, <1>3 DEF LockAfter
<1> QED
  BY <1>1, <1>4, <1>5

\* With one officer nothing happens between what it reads and what it writes.
LEMMA LockKept ==
    ASSUME YearTypeInv, LockFollows, OneOfficer, NEW o \in Officers,
           OfficerStep(o) \/ \E p \in MonthEnds : RequestReopen(o, p)
    PROVE  /\ LockFollows' /\ opening' = opening
           /\ closes' = closes \/ \E event \in Event : closes' = Append(closes, event)
<1>0. /\ officer \in [Officers -> Task] /\ closes \in Seq(Event)
      /\ \A q \in Officers : q = o
  BY DEF YearTypeInv, PeriodInv, PeriodTypeOK, OneOfficer
<1>1. ASSUME NEW task, Becomes(o, task), task.step = "update" => task.after = lock
      PROVE  LockFollows' /\ opening' = opening /\ closes' = closes
  BY <1>0, <1>1 DEF Becomes, LockFollows, LockAfter
<1>2. ASSUME NEW p \in MonthEnds, ReadForClose(o, p) \/ RequestReopen(o, p)
      PROVE  LockFollows' /\ opening' = opening /\ closes' = closes
  BY <1>1, <1>2 DEF ReadForClose, RequestReopen, NoTask
<1>3. ASSUME NEW step \in {"find", "restore"}, NEW before, NEW after,
             \/ Becomes(o, [officer[o] EXCEPT !.step = step, !.before = before])
             \/ Becomes(o, [officer[o] EXCEPT !.step = step, !.after = after])
      PROVE  LockFollows' /\ opening' = opening /\ closes' = closes
  <2>1. [officer[o] EXCEPT !.step = step, !.before = before].step # "update"
    BY <1>0 DEF Task
  <2>2. [officer[o] EXCEPT !.step = step, !.after = after].step # "update"
    BY <1>0 DEF Task
  <2> QED
    BY <1>1, <1>3, <2>1, <2>2
<1>4. CASE ReadForReopen(o)
  BY <1>1, <1>3, <1>4 DEF ReadForReopen, NoTask
<1>5. CASE FindClose(o)
  BY <1>1, <1>3, <1>5 DEF FindClose, NoTask
<1>6. CASE WritePeriodClose(o)
  <2>1. PICK event : event = EventOf(officer[o])
    OBVIOUS
  <2>2. event \in Event /\ event.after = officer[o].after
    <3>1. officer[o] \in Task /\ TaskOK(officer[o]) /\ officer[o].step \in {"close", "restore"}
      BY <1>0, <1>6 DEF YearTypeInv, PeriodInv, WritePeriodClose
    <3>2. PICK task : task = officer[o]
      OBVIOUS
    <3>3. task.period \in MonthEnds /\ task.before \in LockDates /\ task.after \in LockDates
      BY <3>1, <3>2 DEF TaskOK, Task
    <3> QED
      BY <2>1, <3>2, <3>3 DEF EventOf, Event
  <2>3. /\ closes' = Append(closes, event) /\ lock' = event.after /\ opening' = opening
        /\ officer' = [officer EXCEPT ![o] = NoTask]
    BY <1>6, <2>1, <2>2 DEF WritePeriodClose
  <2>4. Len(closes') # 0 /\ closes'[Len(closes')] = event
    BY <1>0, <2>2, <2>3
  <2>5. officer'[o].step # "update"
    BY <1>0, <2>3 DEF NoTask
  <2> QED
    BY <1>0, <2>2, <2>3, <2>4, <2>5 DEF LockFollows, LockAfter
<1>7. CASE ReadForUpdate(o)
  BY <1>1, <1>7 DEF ReadForUpdate, NoTask
<1>8. CASE WriteUpdate(o)
  <2>1. /\ officer' = [officer EXCEPT ![o] = NoTask]
        /\ closes' = closes /\ lock' = lock /\ opening' = opening
    BY <1>8 DEF WriteUpdate, LockFollows
  <2>2. officer'[o].step # "update"
    BY <1>0, <2>1 DEF NoTask
  <2> QED
    BY <1>0, <2>1, <2>2 DEF LockFollows, LockAfter
<1>9. CASE FailTask(o)
  BY <1>1, <1>9 DEF FailTask, NoTask
<1> QED
  BY <1>2, <1>4, <1>5, <1>6, <1>7, <1>8, <1>9 DEF OfficerStep

LEMMA MonthsPassed ==
    ASSUME NEW month \in MonthEnds, Now > LastDate
    PROVE  month \in Nat /\ month < Now
<1>1. month \in 1..LastDate /\ LastDate \in Nat /\ Now \in Nat
  BY DatesAssumption, YearAssumption
<1>2. month \in Nat /\ month <= LastDate /\ LastDate < Now
  BY <1>1
<1> QED
  BY ONLY <1>1, <1>2

\* What a step of the handler does to the years of the carry-forwards.
LEMMA YearsKept ==
    ASSUME YearTypeInv, RowsExact, NEW c, CallExact(c), WritesFrom(c), Now > LastDate,
           NEW year \in Nat,
           \/ c.step \notin {"post write", "carry post", "void write", "reverse write"}
           \/ \E n \in DOMAIN entries : IsCarry(n) /\ Held(n) /\ entries[n].link.of = year
    PROVE  FiscalYear(year)' = FiscalYear(year)
<1>1. CASE entries' = entries
  BY <1>1 DEF FiscalYear, GetPeriodBalances, Balances, PeriodEntries, Posted
<1>2. ASSUME NEW e, Drafts(e) PROVE FiscalYear(year)' = FiscalYear(year)
  BY <1>2, DraftCounts
<1>3. ASSUME NEW n \in DOMAIN entries, IsCarry(n), Held(n), entries[n].link.of = year
      PROVE  year < Now
  <2>1. year \in MonthEnds
    BY <1>3 DEF RowsExact
  <2> QED
    BY <2>1, MonthsPassed
<1>4. ASSUME c.step \in {"post write", "void write"} \/ c.step \in {"carry post", "reverse write"}
      PROVE  year < Now /\ (Carries(c.entry) \/ ~(year >= entries[c.entry].date))
  <2>1. PICK n \in DOMAIN entries : IsCarry(n) /\ Held(n) /\ entries[n].link.of = year
    BY <1>4
  <2>2. year < Now
    BY <1>3, <2>1
  <2>3. CASE c.step \in {"post write", "void write"}
    <3>1. ~(year >= entries[c.entry].date)
      BY <2>1, <2>3 DEF CallExact
    <3> QED
      BY <2>2, <3>1
  <2>4. CASE c.step \in {"carry post", "reverse write"}
    BY <2>2, <2>4 DEF CallExact
  <2> QED
    BY <1>4, <2>3, <2>4
<1>5. ASSUME Posts(c.entry), c.step \in {"post write", "carry post"}
      PROVE  FiscalYear(year)' = FiscalYear(year)
  BY <1>4, <1>5, PostCounts
<1>6. ASSUME NEW e, Voids(c.entry, e), c.step \in {"void write", "reverse write"}
      PROVE  FiscalYear(year)' = FiscalYear(year)
  BY <1>4, <1>6, VoidCounts
<1> QED
  BY <1>1, <1>2, <1>5, <1>6 DEF WritesFrom

\* Which rows there are after a step, and what is new about them.
LEMMA RowsAfter ==
    ASSUME YearTypeInv, NEW c, WritesFrom(c), NEW n \in DOMAIN entries'
    PROVE  \/ n \in DOMAIN entries /\ Kept(n)
           \/ /\ n \notin DOMAIN entries /\ entries'[n].created = Len(closes)
              /\ IsCarry(n)' => /\ c.step = "carry create" /\ entries'[n].link.of = c.date
                                /\ entries'[n].lines = c.lines
<1> PICK k : k = Len(entries) + 1
  OBVIOUS
<1>1. CASE entries' = entries
  BY <1>1 DEF Kept
<1>2. ASSUME NEW e, Drafts(e),
             e.own => c.step = "carry create" /\ e.link.of = c.date /\ e.lines = c.lines
      PROVE  \/ n \in DOMAIN entries /\ Kept(n)
             \/ /\ n \notin DOMAIN entries /\ entries'[n].created = Len(closes)
                /\ IsCarry(n)' => /\ c.step = "carry create" /\ entries'[n].link.of = c.date
                                  /\ entries'[n].lines = c.lines
  <2>1. /\ k \notin DOMAIN entries /\ DOMAIN entries' = DOMAIN entries \union {k}
        /\ \A m \in DOMAIN entries : entries'[m] = entries[m]
        /\ entries'[k] = e /\ e.created = Len(closes)
    BY <1>2, DraftEffect DEF Drafts
  <2> QED
    BY <1>2, <2>1 DEF Kept, IsCarry
<1>3. ASSUME Posts(c.entry) PROVE n \in DOMAIN entries /\ Kept(n)
  BY <1>3, PostEffect
<1>4. ASSUME NEW e, Voids(c.entry, e)
      PROVE  \/ n \in DOMAIN entries /\ Kept(n)
             \/ /\ n \notin DOMAIN entries /\ entries'[n].created = Len(closes)
                /\ IsCarry(n)' => /\ c.step = "carry create" /\ entries'[n].link.of = c.date
                                  /\ entries'[n].lines = c.lines
  <2>1. /\ k \notin DOMAIN entries /\ DOMAIN entries' = DOMAIN entries \union {k}
        /\ \A m \in DOMAIN entries : Kept(m)
        /\ entries'[k] = e
    BY <1>4, VoidEffect
  <2>2. e.created = Len(closes) /\ e.link.source # "YEAR_END_CARRY_FORWARD"
    BY <1>4 DEF Voids, ReversalSources
  <2> QED
    BY <2>1, <2>2 DEF IsCarry, Carries
<1> QED
  BY <1>1, <1>2, <1>3, <1>4 DEF WritesFrom

LEMMA HandlerRows ==
    ASSUME YearTypeInv, YearTypeInv', RowsExact, NEW c, CallExact(c), WritesFrom(c), Now > LastDate,
           UNCHANGED periodVars
    PROVE  RowsExact'
<1> SUFFICES ASSUME NEW n \in DOMAIN entries'
             PROVE  /\ entries'[n].created <= Len(closes')
                    /\ IsCarry(n)' => /\ entries'[n].link.of \in MonthEnds
                                      /\ Held(n)' => Empties(entries[n].lines, entries[n].link.of)'
  BY DEF RowsExact
<1>0. closes' = closes /\ Len(closes) \in Nat
  BY DEF periodVars, YearTypeInv, PeriodInv, PeriodTypeOK
<1>1. CASE n \in DOMAIN entries /\ Kept(n)
  <2>1. entries[n].created <= Len(closes) /\ (IsCarry(n)' <=> IsCarry(n))
    BY <1>1 DEF RowsExact, Kept, IsCarry, Carries
  <2>2. ASSUME IsCarry(n), Held(n)' PROVE Empties(entries[n].lines, entries[n].link.of)'
    <3>1. Held(n)
      BY <1>0, <1>1, <2>1, <2>2, HeldBack DEF periodVars
    <3>2. PICK year : year = entries[n].link.of
      OBVIOUS
    <3>3. Empties(entries[n].lines, year) /\ year \in MonthEnds /\ year \in Nat
      <4>1. Empties(entries[n].lines, year) /\ year \in MonthEnds
        BY <1>1, <2>2, <3>1, <3>2 DEF RowsExact
      <4> QED
        BY <4>1, DatesAssumption
    <3>4. FiscalYear(year)' = FiscalYear(year)
      BY <1>1, <2>2, <3>1, <3>2, <3>3, YearsKept
    <3>5. entries'[n].lines = entries[n].lines /\ entries'[n].link.of = year
      BY <1>1, <3>2 DEF Kept
    <3> QED
      BY <3>3, <3>4, <3>5 DEF Empties
  <2> QED
    BY <1>0, <1>1, <2>1, <2>2 DEF RowsExact, Kept
<1>2. CASE /\ n \notin DOMAIN entries /\ entries'[n].created = Len(closes)
           /\ IsCarry(n)' => /\ c.step = "carry create" /\ entries'[n].link.of = c.date
                             /\ entries'[n].lines = c.lines
  <2>1. ASSUME IsCarry(n)' PROVE entries'[n].link.of \in MonthEnds /\ Empties(entries[n].lines, entries[n].link.of)'
    <3>1. c.step = "carry create" /\ entries'[n].link.of = c.date /\ entries'[n].lines = c.lines
      BY <1>2, <2>1
    <3>2. PICK year : year = c.date
      OBVIOUS
    <3>3. year \in MonthEnds /\ Empties(c.lines, year)
      BY <3>1, <3>2 DEF CallExact
    <3>4. year \in Nat
      BY <3>3, MonthsPassed
    <3>5. FiscalYear(year)' = FiscalYear(year)
      BY <3>1, <3>4, YearsKept
    <3> QED
      BY <3>1, <3>2, <3>3, <3>5 DEF Empties
  <2>2. entries'[n].created <= Len(closes')
    <3>1. PICK l : l = Len(closes)
      OBVIOUS
    <3>2. l \in Nat /\ l <= l
      BY <1>0, <3>1
    <3>3. entries'[n].created = l /\ Len(closes') = l
      BY <1>0, <1>2, <3>1
    <3> QED
      BY <3>2, <3>3
  <2> QED
    BY <2>1, <2>2
<1> QED
  BY <1>1, <1>2, RowsAfter

\* What the handler goes on with is as exact.
LEMMA CallStays ==
    ASSUME YearTypeInv, LockFollows, RowsExact, NEW c, NEW d, CallExact(c), GoesTo(c, d),
           WritesFrom(c), UNCHANGED periodVars, Now > LastDate
    PROVE  CallExact(d)'
<1>0. closes' = closes /\ lock' = lock /\ Len(closes) \in Nat
  BY DEF periodVars, YearTypeInv, PeriodInv, PeriodTypeOK
<1>1. CASE d.step = "idle" \/ d.step = "create"
  BY <1>1 DEF CallExact
<1>2. CASE d.step = "carry post"
  <2>1. Carries(d.entry)'
    BY <1>2 DEF GoesTo
  <2> QED
    BY <1>2, <2>1 DEF CallExact
<1>3. ASSUME d.step # "idle", d.step # "carry post"
      PROVE  CallExact(d)' <=> CallExact(d)
  <2>1. entries' = entries
    BY <1>3 DEF GoesTo
  <2>2. \A n : (IsCarry(n)' <=> IsCarry(n)) /\ (Carries(n)' <=> Carries(n)) /\ (Held(n)' <=> Held(n))
    BY <1>0, <2>1 DEF IsCarry, Carries, Held, LockAfter, periodVars
  <2>3. \A year : FiscalYear(year)' = FiscalYear(year)
    BY <2>1 DEF FiscalYear, GetPeriodBalances, Balances, PeriodEntries, Posted
  <2>4. \A lines, year : Empties(lines, year)' <=> Empties(lines, year)
    BY <2>3 DEF Empties
  <2> QED
    BY <2>1, <2>2, <2>4 DEF CallExact
<1>4. CASE d.step \in {"activity", "existing", "balances"}
  <2>1. d.date \in MonthEnds
    BY <1>4 DEF GoesTo, CallExact
  <2>2. CallExact(d)
    BY <1>4, <2>1 DEF CallExact
  <2> QED
    BY <1>3, <1>4, <2>2
<1>5. CASE d.step = "carry create"
  <2>1. /\ d.date = c.date /\ c.step = "balances"
        /\ d.lines = buildYearEndCarryForwardLines(FiscalYear(c.date))
    BY <1>5 DEF GoesTo
  <2>2. d.date \in MonthEnds
    BY <2>1 DEF CallExact
  <2>3. Empties(d.lines, d.date)
    BY <2>1, FiscalYearTyped, CarryForwardLines DEF Empties, YearTypeInv
  <2>4. CallExact(d)
    BY <1>5, <2>2, <2>3 DEF CallExact
  <2> QED
    BY <1>3, <1>5, <2>4
<1>6. CASE d.step \in {"post", "void"}
  <2>1. d.entry \in DOMAIN entries /\ entries[d.entry].date > lock
    BY <1>6 DEF GoesTo, Unlocked
  <2>2. ASSUME NEW n \in DOMAIN entries, entries[n].link.of >= entries[d.entry].date, Held(n) PROVE FALSE
    <3>1. entries[n] \in JournalEntry /\ entries[d.entry] \in JournalEntry
      BY <2>1, <2>2 DEF YearTypeInv, LedgerTypeOK
    <3>2. entries[n].link.of \in Nat /\ entries[n].created \in Nat /\ entries[d.entry].date \in Nat
      BY <3>1, LinksTyped DEF JournalEntry
    <3>3. lock \in Int
      BY DatesAssumption DEF YearTypeInv, PeriodInv, PeriodTypeOK, LockDates
    <3>4. entries[n].created <= Len(closes)
      BY <2>2 DEF RowsExact
    <3>5. Len(closes) \in entries[n].created..Len(closes)
      BY <1>0, <3>2, <3>4
    <3>6. lock >= entries[n].link.of
      BY <2>2, <3>5 DEF Held, LockFollows
    <3> QED
      BY <2>1, <2>2, <3>2, <3>3, <3>6
  <2>3. CallExact(d)
    BY <1>6, <2>2 DEF CallExact
  <2> QED
    BY <1>3, <1>6, <2>3
<1>7. CASE d.step \in {"post write", "void write"}
  <2>1. d.entry = c.entry /\ c.step \in {"post", "void"}
    BY <1>7 DEF GoesTo
  <2>2. \A n \in DOMAIN entries : IsCarry(n) /\ entries[n].link.of >= entries[d.entry].date => ~Held(n)
    BY <2>1 DEF CallExact
  <2>3. CallExact(d)
    BY <1>7, <2>2 DEF CallExact
  <2> QED
    BY <1>3, <1>7, <2>3
<1>8. CASE d.step \in {"reverse", "reverse write"}
  <2>1. Carries(d.entry)
    BY <1>8 DEF GoesTo, CallExact
  <2>2. CallExact(d)
    BY <1>8, <2>1 DEF CallExact
  <2> QED
    BY <1>3, <1>8, <2>2
<1>9. CASE d.step \notin {"idle", "create", "carry post", "activity", "existing", "balances",
                          "carry create", "post", "void", "post write", "void write",
                          "reverse", "reverse write"}
  BY <1>9 DEF CallExact
<1> QED
  BY <1>1, <1>2, <1>4, <1>5, <1>6, <1>7, <1>8, <1>9

LEMMA OfficerKeeps ==
    ASSUME YearTypeInv, YearTypeInv', ExactInv, OneOfficer, UNCHANGED <<entries, call>>,
           \/ UNCHANGED periodVars
           \/ \E o \in Officers : OfficerStep(o) \/ \E p \in MonthEnds : RequestReopen(o, p)
    PROVE  ExactInv'
<1>1. /\ LockFollows' /\ opening' = opening
      /\ closes' = closes \/ \E event \in Event : closes' = Append(closes, event)
  <2>1. CASE UNCHANGED periodVars
    BY <2>1 DEF ExactInv, LockFollows, LockAfter, periodVars
  <2>2. ASSUME NEW o \in Officers, OfficerStep(o) \/ \E p \in MonthEnds : RequestReopen(o, p)
        PROVE  <1>1
    BY <2>2, LockKept DEF ExactInv
  <2> QED
    BY <2>1, <2>2
<1>2. \A n : (IsCarry(n)' <=> IsCarry(n)) /\ (Carries(n)' <=> Carries(n)) /\ (n \in DOMAIN entries => Kept(n))
  BY DEF IsCarry, Carries, Kept
<1>3. \A lines, year : Empties(lines, year)' <=> Empties(lines, year)
  <2>1. \A year : FiscalYear(year)' = FiscalYear(year)
    BY DEF FiscalYear, GetPeriodBalances, Balances, PeriodEntries, Posted
  <2> QED
    BY <2>1 DEF Empties
<1>4. ASSUME NEW n \in DOMAIN entries, Held(n)' PROVE Held(n)
  <2>1. entries[n].created <= Len(closes)
    BY DEF ExactInv, RowsExact
  <2>2. n \in DOMAIN entries' /\ Kept(n)
    BY <1>2
  <2> QED
    BY <1>1, <1>4, <2>1, <2>2, HeldBack
<1>5. Len(closes) \in Nat /\ Len(closes') \in Nat /\ Len(closes) <= Len(closes')
  BY <1>1 DEF YearTypeInv, PeriodInv, PeriodTypeOK
<1>6. RowsExact'
  <2> SUFFICES ASSUME NEW n \in DOMAIN entries
               PROVE  /\ entries[n].created <= Len(closes')
                      /\ IsCarry(n) => /\ entries[n].link.of \in MonthEnds
                                       /\ Held(n)' => Empties(entries[n].lines, entries[n].link.of)
    BY <1>2, <1>3 DEF RowsExact
  <2>1. entries[n].created \in Nat
    <3>1. entries[n] \in JournalEntry
      BY DEF YearTypeInv, LedgerTypeOK
    <3> QED
      BY <3>1 DEF JournalEntry
  <2>2. /\ entries[n].created <= Len(closes)
        /\ IsCarry(n) => /\ entries[n].link.of \in MonthEnds
                         /\ Held(n) => Empties(entries[n].lines, entries[n].link.of)
    BY DEF ExactInv, RowsExact
  <2>3. entries[n].created <= Len(closes')
    BY <1>5, <2>1, <2>2
  <2> QED
    BY <1>4, <2>2, <2>3
<1>7. ASSUME NEW h \in Handlers PROVE CallExact(call[h])'
  <2>1. PICK c : c = call[h]
    OBVIOUS
  <2>2. CallExact(c)
    BY <1>7, <2>1 DEF ExactInv
  <2>3. c.step \in {"post", "post write", "void", "void write"} =>
           \A n \in DOMAIN entries : IsCarry(n) /\ entries[n].link.of >= entries[c.entry].date => ~Held(n)'
    BY <1>4, <2>2 DEF CallExact
  <2>4. CallExact(c)'
    BY <1>2, <1>3, <2>2, <2>3 DEF CallExact
  <2> QED
    BY <2>1, <2>4 DEF CallExact, Empties, IsCarry, Carries, Held
<1> QED
  BY <1>1, <1>6, <1>7 DEF ExactInv

LEMMA ExactStays ==
    ASSUME OneAtATime, OneOfficer, Now > LastDate, YearTypeInv, YearTypeInv', ExactInv, [YearNext]_vars
    PROVE  ExactInv'
<1>1. CASE /\ UNCHANGED <<entries, call>>
           /\ UNCHANGED periodVars \/ \E o \in Officers : OfficerStep(o) \/ \E p \in MonthEnds : RequestReopen(o, p)
  BY <1>1, OfficerKeeps
<1>2. ASSUME NEW h \in Handlers, NEW c, NEW d, c = call[h], d = call'[h],
             WritesFrom(c), GoesTo(c, d), UNCHANGED periodVars
      PROVE  ExactInv'
  <2>1. CallExact(c) /\ LockFollows /\ RowsExact
    BY <1>2 DEF ExactInv
  <2>2. RowsExact'
    BY <1>2, <2>1, HandlerRows
  <2>3. CallExact(d)'
    BY <1>2, <2>1, CallStays
  <2>4. LockFollows'
    BY <1>2, <2>1 DEF LockFollows, LockAfter, periodVars
  <2>5. ASSUME NEW g \in Handlers PROVE CallExact(call[g])'
    <3>1. d = call'[g]
      BY <1>2, <2>5 DEF OneAtATime
    <3> QED
      BY <2>3, <3>1 DEF CallExact, Empties, IsCarry, Carries, Held
  <2> QED
    BY <2>2, <2>4, <2>5 DEF ExactInv
<1>3. CASE Handlers = {}
  BY <1>1, <1>3 DEF YearNext, OfficerNext, ReopenRequest, vars, periodVars
<1>4. ASSUME NEW h \in Handlers PROVE ExactInv'
  BY <1>1, <1>2, <1>4, OneHandler
<1> QED
  BY <1>3, <1>4

\* A carry-forward leaves nothing on the revenue and expense accounts of its
\* year as they are now, as long as the year was never unlocked since
\* (accounting/year_end.go:443 builds it from the balances of the moment, and
\* cmd/api/period_lock.go:54 keeps later requests out of the year): for
\* requests that do not overlap, whatever entries clients link to the year, and
\* while the current date, which reversing entries are dated on, is after every
\* date that can be locked.
THEOREM CarriedForwardExactly ==
    ASSUME OneAtATime, OneOfficer, Now > LastDate
    PROVE  YearSpec => []CarryForwardExact
<1>1. YearInit => ExactInv
  <2> SUFFICES ASSUME YearInit PROVE ExactInv
    OBVIOUS
  <2>1. entries = <<>> /\ closes = <<>> /\ lock = opening
    BY DEF YearInit, LedgerInit, Init
  <2>2. \A h \in Handlers : call[h].step = "idle"
    BY DEF YearInit, NoCall, CallAt
  <2>3. \A o \in Officers : officer[o].step = "idle"
    BY DEF YearInit, Init, NoTask
  <2>4. LockFollows /\ RowsExact
    BY <2>1, <2>3 DEF LockFollows, LockAfter, RowsExact
  <2>5. \A h \in Handlers : CallExact(call[h])
    BY <2>2 DEF CallExact
  <2> QED
    BY <2>4, <2>5 DEF ExactInv
<1>2. YearTypeInv /\ YearTypeInv' /\ ExactInv /\ [YearNext]_vars => ExactInv'
  BY ExactStays
<1>3. ExactInv => CarryForwardExact
  BY DEF ExactInv, RowsExact, CarryForwardExact, Held, Empties, IsCarry, Carries, Posted
<1> QED
  BY <1>1, <1>2, <1>3, TypesHold, PTL DEF YearSpec
=============================================================================
