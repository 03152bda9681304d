----------------------------- MODULE PeriodClose -----------------------------
(***************************************************************************)
(* The period lock of a tenant: internal/tenant closes a month, reopens it *)
(* and updates the other settings.  The lock date lives in the tenant's    *)
(* settings, one JSON document that every operation reads whole and later  *)
(* writes whole, without a transaction around the two and without a check  *)
(* that it is still what was read.                                         *)
(*                                                                         *)
(* A date is the number of a day; a lock date is the last day it covers,   *)
(* and 0 is the missing lock date.  A month is named by its last day.  The *)
(* close events are in the order they were committed, which the code sorts *)
(* by created_at.                                                          *)
(***************************************************************************)
EXTENDS Integers, Sequences

CONSTANTS
    LastDate,   \* the dates are 1 .. LastDate
    MonthEnds,  \* the months that can be closed, each by its last day
    Officers,   \* requests that close, reopen or update
    MaxEvents   \* bound on the close and reopen events

ASSUME DatesAssumption == LastDate \in Nat /\ MonthEnds \subseteq 1..LastDate

VARIABLES
    lock,    \* settings.period_lock_date
    closes,  \* the tenant_period_closes table
    officer, \* what each request has read and is about to write
    opening  \* history: the lock date that the tenant was created with

periodVars == <<lock, closes, officer, opening>>

-----------------------------------------------------------------------------

LockDates == 0..LastDate

Event == [action : {"CLOSE", "REOPEN"}, period : MonthEnds, before : LockDates, after : LockDates]

\* The settings read carry the lock date "before", those to be written "after".
Task ==
    [step : {"idle", "close", "reopen", "find", "restore", "update"},
     period : LockDates, before : LockDates, after : LockDates]

NoTask == [step |-> "idle", period |-> 0, before |-> 0, after |-> 0]

\* CreateTenant stores the settings of its request as they are, a lock date
\* inside a month included, and no close event.
Init ==
    /\ opening \in LockDates
    /\ lock = opening
    /\ closes = <<>>
    /\ officer = [o \in Officers |-> NoTask]

Becomes(o, task) ==
    /\ officer' = [officer EXCEPT ![o] = task]
    /\ UNCHANGED <<lock, closes, opening>>

\* Mutant: the month the lock date names may be closed again.
AlreadyClosedAllowed(o, p) ==
    /\ officer[o] = NoTask
    /\ p >= lock
    /\ Becomes(o, [step |-> "close", period |-> p, before |-> lock, after |-> p])

\* ClosePeriod reads the tenant: the month must be after the lock date.
ReadForClose(o, p) ==
    /\ officer[o] = NoTask
    /\ p > lock
    /\ Becomes(o, [step |-> "close", period |-> p, before |-> lock, after |-> p])

\* The reopen handler accepts the request and calls ReopenPeriod.
RequestReopen(o, p) ==
    /\ officer[o] = NoTask
    /\ Becomes(o, [NoTask EXCEPT !.step = "reopen", !.period = p])

\* ReopenPeriod reads the tenant: the month must be closed.
ReadForReopen(o) ==
    /\ officer[o].step = "reopen"
    /\ IF officer[o].period <= lock
       THEN Becomes(o, [officer[o] EXCEPT !.step = "find", !.before = lock])
       ELSE Becomes(o, NoTask)

ClosesOf(p) == {n \in DOMAIN closes : closes[n].action = "CLOSE" /\ closes[n].period = p}

\* GetLatestCloseEventForPeriod: the lock date before the latest close of the
\* month is the one to restore; a month never closed by itself is an error.
FindClose(o) ==
    /\ officer[o].step = "find"
    /\ \/ \E n \in ClosesOf(officer[o].period) :
             /\ \A m \in ClosesOf(officer[o].period) : m <= n
             /\ Becomes(o, [officer[o] EXCEPT !.step = "restore", !.after = closes[n].before])
       \/ /\ ClosesOf(officer[o].period) = {}
          /\ Becomes(o, NoTask)

\* Mutant: the event names the lock date it found as its month.
EventOfLockBefore(task) ==
    [action |-> IF task.step = "close" THEN "CLOSE" ELSE "REOPEN",
     period |-> task.before, before |-> task.before, after |-> task.after]

EventOf(task) ==
    [action |-> IF task.step = "close" THEN "CLOSE" ELSE "REOPEN",
     period |-> task.period, before |-> task.before, after |-> task.after]

\* Mutant: the settings are written and their event is not.
EventLost(o) ==
    /\ officer[o].step \in {"close", "restore"}
    /\ lock' = officer[o].after
    /\ officer' = [officer EXCEPT ![o] = NoTask]
    /\ UNCHANGED <<closes, opening>>

\* UpdateTenantWithPeriodCloseEvent: settings and event in one transaction.
WritePeriodClose(o) ==
    /\ officer[o].step \in {"close", "restore"}
    /\ Len(closes) < MaxEvents
    /\ lock' = officer[o].after
    /\ closes' = Append(closes, EventOf(officer[o]))
    /\ officer' = [officer EXCEPT ![o] = NoTask]
    /\ UNCHANGED opening

\* UpdateTenant: reads the settings, and writes them back with other fields
\* changed.
ReadForUpdate(o) ==
    /\ officer[o] = NoTask
    /\ Becomes(o, [NoTask EXCEPT !.step = "update", !.after = lock])

WriteUpdate(o) ==
    /\ officer[o].step = "update"
    /\ lock' = officer[o].after
    /\ officer' = [officer EXCEPT ![o] = NoTask]
    /\ UNCHANGED <<closes, opening>>

\* A statement fails, or the server stops: nothing was written.
FailTask(o) ==
    /\ officer[o] # NoTask
    /\ Becomes(o, NoTask)

OfficerStep(o) ==
    \/ \E p \in MonthEnds : ReadForClose(o, p)
    \/ ReadForReopen(o) \/ FindClose(o) \/ WritePeriodClose(o)
    \/ ReadForUpdate(o) \/ WriteUpdate(o) \/ FailTask(o)

Next == \E o \in Officers : OfficerStep(o) \/ \E p \in MonthEnds : RequestReopen(o, p)

Spec == Init /\ [][Next]_periodVars

-----------------------------------------------------------------------------
(* Properties *)

PeriodTypeOK ==
    /\ lock \in LockDates /\ opening \in LockDates
    /\ closes \in Seq(Event)
    /\ officer \in [Officers -> Task]

Reopenable(date) == date = opening \/ ClosesOf(date) # {}

\* Whatever requests raced, and even if a stale settings update restored an
\* old lock date, the lock can be taken back to where the tenant began:
\* ReopenPeriod will find a close event for the month it names (tenant/
\* period_close.go:81 refuses without one, and no other operation may lower
\* the lock). Only the lock date that the tenant was created with has no event
\* to reopen it by (tenant/service.go:72).
LockReopenable == Reopenable(lock)

\* Reopening a month opens it, and with it all later months
\* (tenant/period_close.go:56): the lock date it restores, taken from an event
\* that may be older than other closes and reopens, is before that month.
ReopenOpens ==
    [][\A o \in Officers :
         officer[o].step = "restore" /\ WritePeriodClose(o) => lock' < officer[o].period]_periodVars

LockAfter(n) == IF n = 0 THEN opening ELSE closes[n].after

\* When no two requests overlap, the events are an audit trail of the lock
\* date: each starts from where the one before it ended, and the last one ends
\* at the lock date in force.
AuditTrail ==
    /\ lock = LockAfter(Len(closes))
    /\ \A n \in DOMAIN closes : closes[n].before = LockAfter(n - 1)

\* What the error "period already closed through" says (tenant/
\* period_close.go:23): a close moves the lock date on, never back.
ClosesAdvance ==
    [][\A o \in Officers :
         officer[o].step = "close" /\ WritePeriodClose(o) => lock' > lock]_periodVars
=============================================================================
