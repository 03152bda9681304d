----------------------------- MODULE Generation -----------------------------
(***************************************************************************)
(* internal/recurring, the journal templates of internal/accounting, and   *)
(* the jobs of internal/scheduler: templates from which an invoice or a    *)
(* journal entry is generated for each period.                             *)
(*                                                                         *)
(* A generator is a cron job of one server, or an HTTP request.  It reads  *)
(* the template, creates the document, and then moves the template on, in  *)
(* separate transactions.  No lock keeps two generators apart.             *)
(*                                                                         *)
(* A date is the number of a day.  A document stands for the days from its *)
(* date to the day before the one that CalculateNextDate gives.            *)
(***************************************************************************)
EXTENDS Integers, FiniteSets, Functions

CONSTANTS
    Invoicing,    \* recurring invoices
    Journals,     \* recurring journal templates
    Generators,   \* jobs and requests
    Jobs,         \* the scheduled jobs among them
    Serves,       \* the templates that each of them may generate
    Frequencies,  \* the frequencies that templates have
    Week,         \* the days of a week
    FirstDay,     \* the first day of each month
    LastMonth,    \* the month of the last day, or a later one
    Start,        \* the day on which the clock starts
    Horizon,      \* bound: the last day of the clock and of documents
    Firsts,       \* the first dates of schedules
    Ends,         \* end dates that may be set; Horizon + 1 is no end date
    Locks,        \* lock dates that closing and reopening months sets
    MaxTemplates, \* bound: templates that users create
    MaxByHand,    \* bound: what users ask for, and changes they make to templates
    MaxFailures,  \* bound: statements that fail, servers that stop
    None

Templates == Invoicing \union Journals
Dates     == Start..Horizon
NoDate    == Start - 1
NoEnd     == Horizon + 1

ASSUME DatesAssumption == Start \in Int /\ Horizon \in Int /\ Start <= Horizon
ASSUME CalendarAssumption ==
    /\ Frequencies \subseteq {"WEEKLY", "BIWEEKLY", "MONTHLY", "QUARTERLY", "YEARLY"}
    /\ Week \in Nat \ {0} /\ LastMonth \in Nat
    /\ FirstDay \in [1..LastMonth + 12 -> Int]
    /\ \A m, n \in 1..LastMonth + 12 : m < n => FirstDay[m] < FirstDay[n]
    /\ \A d \in Dates : \E m \in 1..LastMonth : d \in FirstDay[m]..FirstDay[m + 1] - 1
ASSUME EndsAssumption ==
    Firsts \subseteq Dates /\ Ends \subseteq Dates \union {NoEnd} /\ Locks \subseteq Int
ASSUME KindsAssumption ==
    Invoicing \intersect Journals = {} /\ None \notin Templates /\ Jobs \subseteq Generators
ASSUME ServesAssumption == Serves \in [Generators -> SUBSET Templates]
ASSUME BoundsAssumption == MaxTemplates \in Nat /\ MaxByHand \in Nat /\ MaxFailures \in Nat

VARIABLES
    today,
    lock,      \* period_lock_date of the tenant's settings
    tmpl,      \* recurring_invoices and journal_entry_templates
    gen,       \* what each generator has read
    docs,      \* how many documents of each template and date there are
    periods,   \* history: the date and the frequency that documents were made for
    named,     \* history: the dates that users asked documents for
    halfway,   \* history: documents whose template was not moved on
    uncounted, \* history: documents that were not counted
    byHand, failures

history == <<periods, named, halfway, uncounted>>
bounds  == <<byHand, failures>>
vars    == <<today, lock, tmpl, gen, docs, history, bounds>>

-----------------------------------------------------------------------------
(* Rows and requests *)

Template ==
    [row : {"absent", "there", "deleted"},
     first : Dates,  \* the date its schedule began with
     next : Int, freq : Frequencies \union {None}, count : Nat,
     active : BOOLEAN, end : Dates \union {NoEnd}]

NewTemplate(first, freq, end) ==
    [row |-> "there", first |-> first, next |-> first, freq |-> freq, count |-> 0,
     active |-> TRUE, end |-> end]

NoTemplate == [row |-> "absent", first |-> Start, next |-> Start, freq |-> None, count |-> 0,
               active |-> FALSE, end |-> NoEnd]

There(t) == tmpl[t].row = "there"

Request ==
    [step : {"idle", "listed", "read", "created", "moved"}, due : SUBSET Templates,
     template : Templates \union {None}, date : Dates \union {NoDate},
     freq : Frequencies \union {None}, asked : Dates \union {NoDate}, lock : Int]

NoRequest == [step |-> "idle", due |-> {}, template |-> None, date |-> NoDate,
              freq |-> None, asked |-> NoDate, lock |-> NoDate]

Listed(due) == [NoRequest EXCEPT !.step = "listed", !.due = due, !.lock = lock]

Init ==
    /\ today = Start /\ lock = NoDate
    /\ tmpl = [t \in Templates |-> NoTemplate]
    /\ gen = [g \in Generators |-> NoRequest]
    /\ docs = [t \in Templates |-> [d \in Dates |-> 0]]
    /\ periods = [t \in Templates |-> {}] /\ named = periods
    /\ halfway = docs
    /\ uncounted = [t \in Templates |-> 0]
    /\ byHand = 0 /\ failures = 0

-----------------------------------------------------------------------------
(* Starting *)

\* A document that was still missing when the end date passed stays missing.
DueInvoices ==
    {t \in Invoicing : /\ There(t) /\ tmpl[t].active
                       /\ tmpl[t].next <= today /\ tmpl[t].end >= today}

DueJournals(asOf) ==
    {t \in Journals : There(t) /\ tmpl[t].next <= asOf /\ tmpl[t].next <= tmpl[t].end}

Starts(g, request) ==
    /\ gen[g].step = "idle"
    /\ request.due # {} /\ request.due \subseteq Serves[g]
    /\ gen' = [gen EXCEPT ![g] = request]
    /\ UNCHANGED <<today, lock, tmpl, docs, history, failures>>

ByHand == byHand < MaxByHand /\ byHand' = byHand + 1

\* The daily job; generate-due by hand does the same.
GenerateDue(g) ==
    /\ Starts(g, Listed(Serves[g] \intersect (DueInvoices \union DueJournals(today))))
    /\ IF g \in Jobs THEN UNCHANGED byHand ELSE ByHand

\* Journal entries alone are due by a date that the request names.
GenerateDueBy(g, asOf) ==
    Starts(g, Listed(Serves[g] \intersect DueJournals(asOf))) /\ ByHand

GenerateOne(g, t) == There(t) /\ Starts(g, Listed({t})) /\ ByHand

GenerateOneFor(g, t, date) ==
    /\ t \in Journals /\ There(t)
    /\ Starts(g, [Listed({t}) EXCEPT !.asked = date]) /\ ByHand

-----------------------------------------------------------------------------
(* Generating *)

EntryDate(g, t) == IF gen[g].asked = NoDate THEN tmpl[t].next ELSE gen[g].asked

\* A single invoice is generated whether it is due or not.
MayGenerate(g, t) ==
    /\ There(t) /\ EntryDate(g, t) \in Dates
    /\ t \in Invoicing => tmpl[t].active
    /\ t \in Journals => EntryDate(g, t) <= tmpl[t].end /\ EntryDate(g, t) > gen[g].lock

\* Mutant: the job still holds the template that it is done with.
RestHolding(request) ==
    IF request.due = {} THEN [request EXCEPT !.step = "idle"] ELSE [request EXCEPT !.step = "listed"]

Rest(request) ==
    IF request.due = {} THEN NoRequest
    ELSE [NoRequest EXCEPT !.step = "listed", !.due = request.due, !.lock = request.lock]

ReadTemplate(g, t) ==
    /\ gen[g].step = "listed" /\ t \in gen[g].due /\ MayGenerate(g, t)
    /\ gen' = [gen EXCEPT ![g] = [gen[g] EXCEPT !.step = "read", !.due = @ \ {t}, !.template = t,
                                                !.date = EntryDate(g, t), !.freq = tmpl[t].freq]]
    /\ UNCHANGED <<today, lock, tmpl, docs, history, bounds>>

\* Mutant: an error ends the run.
EndOfRun(request) == NoRequest

\* One template's error does not end the run.
AfterError(request) == Rest(request)

PassOver(g, t) ==
    /\ gen[g].step = "listed" /\ t \in gen[g].due /\ ~MayGenerate(g, t)
    /\ gen' = [gen EXCEPT ![g] = AfterError([gen[g] EXCEPT !.due = @ \ {t}])]
    /\ UNCHANGED <<today, lock, tmpl, docs, history, bounds>>

\* A job creates as user "system", and created_by is a UUID: the INSERT fails
\* every time.
InsertRefused(g) ==
    /\ gen[g].step = "read" /\ g \in Jobs
    /\ gen' = [gen EXCEPT ![g] = AfterError(gen[g])]
    /\ UNCHANGED <<today, lock, tmpl, docs, history, bounds>>

\* A transaction of its own; what else it checks may fail (Fail).
CreateDocument(g) ==
    LET t == gen[g].template
        d == gen[g].date
    IN  /\ gen[g].step = "read" /\ g \notin Jobs
        /\ docs' = [docs EXCEPT ![t][d] = @ + 1]
        /\ periods' = [periods EXCEPT ![t] = @ \union {<<d, gen[g].freq>>}]
        /\ named' = IF gen[g].asked = NoDate THEN named
                    ELSE [named EXCEPT ![t] = @ \union {d}]
        /\ gen' = [gen EXCEPT ![g].step = "created"]
        /\ UNCHANGED <<today, lock, tmpl, halfway, uncounted, bounds>>

DaysOf   == [WEEKLY |-> Week, BIWEEKLY |-> 2 * Week]
MonthsOf == [MONTHLY |-> 1, QUARTERLY |-> 3, YEARLY |-> 12]

MonthOf(d) == CHOOSE m \in 1..LastMonth : d \in FirstDay[m]..FirstDay[m + 1] - 1

\* AddDate: the same day of the month; what a month is too short for runs over
\* into the next one.
AddMonths(d, n) == FirstDay[MonthOf(d) + n] + (d - FirstDay[MonthOf(d)])

CalculateNextDate(freq, d) ==
    IF freq \in DOMAIN DaysOf THEN d + DaysOf[freq] ELSE AddMonths(d, MonthsOf[freq])

\* Mutant: counted from the clock's day, not from the document's.
NextAfterToday(request) == CalculateNextDate(request.freq, today)

\* Mutant: the document's own date.
SameDate(request) == request.date

NextAfter(request) == CalculateNextDate(request.freq, request.date)

\* Mutant: the UPDATE names active templates only.
CountedIfActive(t) == [tmpl EXCEPT ![t].count = IF tmpl[t].active THEN @ + 1 ELSE @]

Counted(t) == [tmpl EXCEPT ![t].count = @ + 1]

\* The next date is set from what was read; the journal's UPDATE counts as well.
\* Of a deleted template no row is updated, which is not an error.
MoveOn(g) ==
    LET t == gen[g].template
    IN  /\ gen[g].step = "created"
        /\ tmpl' = IF ~There(t) THEN tmpl
                   ELSE [(IF t \in Journals THEN Counted(t) ELSE tmpl)
                            EXCEPT ![t].next = NextAfter(gen[g])]
        /\ gen' = [gen EXCEPT ![g] = IF t \in Journals THEN Rest(gen[g]) ELSE [gen[g] EXCEPT !.step = "moved"]]
        /\ UNCHANGED <<today, lock, docs, history, bounds>>

CountInvoice(g) ==
    LET t == gen[g].template
    IN  /\ gen[g].step = "moved"
        /\ tmpl' = IF There(t) THEN Counted(t) ELSE tmpl
        /\ gen' = [gen EXCEPT ![g] = Rest(gen[g])]
        /\ UNCHANGED <<today, lock, docs, history, bounds>>

\* A statement fails and the job goes on with the next template, or the server stops.
Fail(g) ==
    LET t == gen[g].template
        d == gen[g].date
    IN  /\ gen[g].step \in {"read", "created", "moved"}
        /\ failures < MaxFailures /\ failures' = failures + 1
        /\ halfway' = IF gen[g].step = "created" THEN [halfway EXCEPT ![t][d] = @ + 1] ELSE halfway
        /\ uncounted' = IF gen[g].step # "read" THEN [uncounted EXCEPT ![t] = @ + 1] ELSE uncounted
        /\ \E request \in {Rest(gen[g]), NoRequest} : gen' = [gen EXCEPT ![g] = request]
        /\ UNCHANGED <<today, lock, tmpl, docs, periods, named, byHand>>

-----------------------------------------------------------------------------
(* Users and the clock *)

\* Its first date may be past, and a journal's may be after its end.
CreateTemplate(t, first, freq, end) ==
    /\ tmpl[t].row = "absent" /\ Cardinality({u \in Templates : tmpl[u].row # "absent"}) < MaxTemplates
    /\ t \in Invoicing => first <= end
    /\ tmpl' = [tmpl EXCEPT ![t] = NewTemplate(first, freq, end)]
    /\ UNCHANGED <<today, lock, gen, docs, history, bounds>>

SetActive(t, active) ==
    /\ t \in Invoicing /\ There(t)
    /\ tmpl' = [tmpl EXCEPT ![t].active = active]
    /\ ByHand /\ UNCHANGED <<today, lock, gen, docs, history, failures>>

\* What it leaves alone it writes as it read it, which may be stale by now.
Update(t, freq, end) ==
    /\ t \in Invoicing /\ There(t) /\ tmpl[t].first <= end
    /\ tmpl' = [tmpl EXCEPT ![t].freq = freq, ![t].end = end]
    /\ ByHand /\ UNCHANGED <<today, lock, gen, docs, history, failures>>

Delete(t) ==
    /\ t \in Invoicing /\ There(t)
    /\ tmpl' = [tmpl EXCEPT ![t].row = "deleted"]
    /\ ByHand /\ UNCHANGED <<today, lock, gen, docs, history, failures>>

\* ClosePeriod and ReopenPeriod of the tenant.
MoveLock(l) ==
    /\ lock' = l
    /\ UNCHANGED <<today, tmpl, gen, docs, history, bounds>>

Tick ==
    /\ today < Horizon /\ today' = today + 1
    /\ UNCHANGED <<lock, tmpl, gen, docs, history, bounds>>

-----------------------------------------------------------------------------

Work(g) ==
    \/ \E t \in Templates : ReadTemplate(g, t) \/ PassOver(g, t)
    \/ InsertRefused(g) \/ CreateDocument(g) \/ MoveOn(g) \/ CountInvoice(g)

Asked(g) ==
    \/ \E asOf \in Dates : GenerateDueBy(g, asOf)
    \/ \E t \in Templates : GenerateOne(g, t) \/ \E d \in Dates : GenerateOneFor(g, t, d)

UserStep ==
    \E t \in Templates :
        \/ \E active \in BOOLEAN : SetActive(t, active)
        \/ \E first \in Firsts, f \in Frequencies, e \in Ends : CreateTemplate(t, first, f, e)
        \/ \E f \in Frequencies, e \in Ends : Update(t, f, e)
        \/ Delete(t)

Next ==
    \/ \E g \in Generators : GenerateDue(g) \/ Asked(g) \/ Work(g) \/ Fail(g)
    \/ UserStep
    \/ \E l \in Locks : MoveLock(l)
    \/ Tick

\* Each job's cron fires day after day, and its run goes on.
Fairness == \A j \in Jobs : WF_vars(GenerateDue(j)) /\ WF_vars(Work(j))

Spec == Init /\ [][Next]_vars /\ Fairness

-----------------------------------------------------------------------------
(* Properties *)

GenTypeOK ==
    /\ today \in Dates /\ lock \in Int
    /\ tmpl \in [Templates -> Template]
    /\ gen \in [Generators -> Request]
    /\ docs \in [Templates -> [Dates -> Nat]] /\ halfway \in [Templates -> [Dates -> Nat]]
    /\ periods \in [Templates -> SUBSET (Dates \X Frequencies)]
    /\ named \in [Templates -> SUBSET Dates] /\ uncounted \in [Templates -> Nat]
    /\ byHand \in 0..MaxByHand /\ failures \in 0..MaxFailures
    /\ \A g \in Generators :
          /\ gen[g].step \in {"read", "created", "moved"} <=> gen[g].template # None
          /\ gen[g].template # None => gen[g].date \in Dates /\ gen[g].freq \in Frequencies
    /\ \A t \in Templates : There(t) => tmpl[t].freq \in Frequencies

\* Whatever jobs of several servers and requests do at once, wherever they stop,
\* and however users change the frequency meanwhile: a schedule passes over no
\* day without a document for it, unless a user asked for one of a later date. A
\* document is for the days from its date to the next date of the frequency it
\* was made with, which AddDate may put behind a month that is too short
\* (accounting/service.go:526, recurring/service.go:437).
Covered(t, d) == \E p \in periods[t] : d \in p[1]..CalculateNextDate(p[2], p[1]) - 1

NoPeriodSkipped ==
    \A t \in Templates : \A d \in tmpl[t].first..tmpl[t].next - 1 :
        Covered(t, d) \/ \E r \in named[t] : r > d

\* With one request at a time a date is generated once, and again only after a
\* request stopped between the document and the schedule, beside any jobs.
Alone(t) ==
    \A g, h \in Generators \ Jobs : t \in Serves[g] \intersect Serves[h] => g = h

GeneratedOnce ==
    \A t \in Templates : Alone(t) /\ named[t] = {} =>
        \A d \in Dates : docs[t][d] <= 1 + halfway[t][d]

\* However many generators run at once, the count of a template is that of its
\* documents, but for the ones under way and the ones a failure left uncounted
\* (recurring/repository_gorm.go:283).
Underway(t) == {g \in Generators : gen[g].step \in {"created", "moved"} /\ gen[g].template = t}

CountsDocuments ==
    \A t \in Templates : There(t) =>
        SumFunctionOnSet(docs[t], Dates)
            = tmpl[t].count + uncounted[t] + Cardinality(Underway(t))

\* A template that is due day after day is tried by a job again and again,
\* although the errors of others come before it in the run, as long as servers
\* stop finitely often (recurring/service.go:427 "continue with other recurring
\* invoices"). What the job tries fails: InsertRefused.
Due(t) ==
    /\ There(t) /\ tmpl[t].active /\ tmpl[t].next <= today
    /\ t \in Invoicing => today <= tmpl[t].end
    /\ t \in Journals => tmpl[t].next \in lock + 1..tmpl[t].end

NoTemplateStarves ==
    \A j \in Jobs : \A t \in Serves[j] :
        []<>(Due(t) => \E k \in Jobs : gen[k].template = t)
=============================================================================
