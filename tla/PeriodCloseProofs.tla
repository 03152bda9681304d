-------------------------- MODULE PeriodCloseProofs --------------------------
(***************************************************************************)
(* That the period lock can be taken back to the lock date the tenant      *)
(* began with, and that reopening a month opens it, for any number of      *)
(* months and of racing requests.                                          *)
(*                                                                         *)
(* Neither follows from what one operation reads, since the lock may have  *)
(* moved when it writes.  The invariant says it of every lock date that    *)
(* may be written one day: the one in force, those in the events, and      *)
(* those that the requests hold.                                           *)
(*                                                                         *)
(* Where no two requests overlap, more holds: the events are an audit      *)
(* trail of the lock date, and a close moves it on.                        *)
(***************************************************************************)
EXTENDS PeriodClose, TLAPS

\* An event closes a month after the lock date before it, or restores a lock
\* date before the month it reopens; what it found can be reopened.
EventsOK ==
    \A n \in DOMAIN closes :
        /\ closes[n].action = "CLOSE" =>
              closes[n].before < closes[n].period /\ closes[n].after = closes[n].period
        /\ Reopenable(closes[n].before)

\* What a request is about to write has the same form.
TaskOK(task) ==
    /\ task.step \in {"close", "find", "restore"} => Reopenable(task.before)
    /\ task.step \in {"reopen", "find", "restore", "close"} => task.period \in MonthEnds
    /\ task.step = "close" => task.before < task.period /\ task.after = task.period
    /\ task.step = "restore" => task.after < task.period
    /\ task.step \in {"restore", "update"} => Reopenable(task.after)

PeriodInv ==
    /\ PeriodTypeOK
    /\ EventsOK
    /\ Reopenable(lock)
    /\ \A o \in Officers : TaskOK(officer[o])

-----------------------------------------------------------------------------

LEMMA InitPeriodInv == Init => PeriodInv
  BY DatesAssumption
  DEF Init, PeriodInv, PeriodTypeOK, EventsOK, TaskOK, Reopenable, ClosesOf, NoTask, Task,
      LockDates, Event

\* A request that only changes its own task keeps the invariant if the new
\* task is as the invariant wants it.
LEMMA TaskStep ==
  ASSUME PeriodInv, NEW o \in Officers, NEW task \in Task, TaskOK(task), Becomes(o, task)
  PROVE  PeriodInv'
  <1>1. officer' = [officer EXCEPT ![o] = task] /\ UNCHANGED <<lock, closes, opening>>
    BY DEF Becomes
  <1>2. officer \in [Officers -> Task] BY DEF PeriodInv, PeriodTypeOK
  <1>3. PeriodTypeOK'
    BY <1>1, <1>2 DEF PeriodInv, PeriodTypeOK
  <1>4. EventsOK' /\ Reopenable(lock)'
    BY <1>1 DEF PeriodInv, EventsOK, Reopenable, ClosesOf
  <1>5. ASSUME NEW q \in Officers PROVE TaskOK(officer[q])'
    <2>1. TaskOK(officer'[q])
      BY <1>1, <1>2, <1>5 DEF PeriodInv
    <2> QED BY <2>1, <1>1 DEF TaskOK, Reopenable, ClosesOf
  <1> QED BY <1>3, <1>4, <1>5 DEF PeriodInv

LEMMA NoTaskOK == NoTask \in Task /\ TaskOK(NoTask)
  BY DatesAssumption DEF NoTask, Task, TaskOK, LockDates

\* Writing the event of a task keeps what was reopenable so, and makes a month
\* just closed so.
LEMMA Appended ==
  ASSUME closes \in Seq(Event), NEW event \in Event, closes' = Append(closes, event),
         opening' = opening
  PROVE  /\ \A date : Reopenable(date) => Reopenable(date)'
         /\ event.action = "CLOSE" => Reopenable(event.period)'
         /\ closes' \in Seq(Event)
         /\ DOMAIN closes' = DOMAIN closes \union {Len(closes) + 1}
         /\ \A n \in DOMAIN closes : closes'[n] = closes[n]
         /\ closes'[Len(closes) + 1] = event
  <1>1. /\ closes' \in Seq(Event)
        /\ DOMAIN closes' = DOMAIN closes \union {Len(closes) + 1}
        /\ \A n \in DOMAIN closes : closes'[n] = closes[n]
        /\ closes'[Len(closes) + 1] = event
    OBVIOUS
  <1>2. \A date : Reopenable(date) => Reopenable(date)'
    BY <1>1 DEF Reopenable, ClosesOf
  <1>3. event.action = "CLOSE" => Reopenable(event.period)'
    BY <1>1 DEF Reopenable, ClosesOf
  <1> QED BY <1>1, <1>2, <1>3

LEMMA ReadForCloseStep ==
  ASSUME PeriodInv, NEW o \in Officers, NEW p \in MonthEnds, ReadForClose(o, p)
  PROVE  PeriodInv'
  <1> DEFINE task == [step |-> "close", period |-> p, before |-> lock, after |-> p]
  <1>1. task \in Task
    BY DatesAssumption DEF PeriodInv, PeriodTypeOK, Task, LockDates
  <1>2. TaskOK(task)
    BY DEF TaskOK, PeriodInv, ReadForClose
  <1> QED BY <1>1, <1>2, TaskStep DEF ReadForClose

LEMMA ReopenSteps ==
  ASSUME PeriodInv, NEW o \in Officers
  PROVE  /\ \A p \in MonthEnds : RequestReopen(o, p) => PeriodInv'
         /\ ReadForReopen(o) => PeriodInv'
         /\ FindClose(o) => PeriodInv'
  <1>0. officer[o] \in Task /\ TaskOK(officer[o]) /\ lock \in LockDates
    BY DEF PeriodInv, PeriodTypeOK
  <1>1. ASSUME NEW p \in MonthEnds, RequestReopen(o, p) PROVE PeriodInv'
    <2> DEFINE task == [NoTask EXCEPT !.step = "reopen", !.period = p]
    <2>1. p \in LockDates
      BY DatesAssumption DEF LockDates
    <2>2. task \in Task
      BY <2>1, NoTaskOK DEF NoTask, Task
    <2>3. TaskOK(task)
      BY NoTaskOK DEF NoTask, TaskOK, Reopenable
    <2> QED BY <1>1, <2>2, <2>3, TaskStep DEF RequestReopen
  <1>2. ASSUME ReadForReopen(o) PROVE PeriodInv'
    <2> DEFINE task == [officer[o] EXCEPT !.step = "find", !.before = lock]
    <2>1. task \in Task /\ TaskOK(task)
      BY <1>0, <1>2 DEF ReadForReopen, Task, TaskOK, PeriodInv
    <2> QED BY <1>2, <2>1, TaskStep, NoTaskOK DEF ReadForReopen
  <1>3. ASSUME FindClose(o) PROVE PeriodInv'
    <2>1. CASE Becomes(o, NoTask)
      BY <2>1, NoTaskOK, TaskStep
    <2>2. ASSUME NEW n \in ClosesOf(officer[o].period),
                 Becomes(o, [officer[o] EXCEPT !.step = "restore", !.after = closes[n].before])
          PROVE  PeriodInv'
      <3> DEFINE task == [officer[o] EXCEPT !.step = "restore", !.after = closes[n].before]
      <3>1. /\ n \in DOMAIN closes /\ closes[n].action = "CLOSE"
            /\ closes[n].period = officer[o].period
        BY DEF ClosesOf
      <3>2. closes[n].before \in LockDates
        <4>1. closes \in Seq(Event)
          BY DEF PeriodInv, PeriodTypeOK
        <4>2. closes[n] \in Event
          BY <3>1, <4>1
        <4> QED BY <4>2 DEF Event
      <3>3. task \in Task
        BY <1>0, <3>2 DEF Task
      <3>4. closes[n].before < closes[n].period /\ Reopenable(closes[n].before)
        BY <3>1 DEF PeriodInv, EventsOK
      <3>5. TaskOK(task)
        BY <1>0, <1>3, <3>1, <3>4 DEF TaskOK, Task, FindClose
      <3> QED BY <2>2, <3>3, <3>5, TaskStep
    <2> QED BY <1>3, <2>1, <2>2 DEF FindClose
  <1> QED BY <1>1, <1>2, <1>3

LEMMA WritePeriodCloseStep ==
  ASSUME PeriodInv, NEW o \in Officers, WritePeriodClose(o)
  PROVE  PeriodInv'
  <1> DEFINE task == officer[o]
  <1>1. task \in Task /\ TaskOK(task) /\ task.step \in {"close", "restore"}
    BY DEF PeriodInv, PeriodTypeOK, WritePeriodClose
  <1>2. PICK event \in Event : event = EventOf(task)
    <2>1. EventOf(task) \in Event
      <3>1. task.period \in MonthEnds /\ task.before \in LockDates /\ task.after \in LockDates
        BY <1>1 DEF TaskOK, Task
      <3> HIDE DEF task
      <3> QED BY <3>1 DEF EventOf, Event
    <2> QED BY <2>1
  <1>3. /\ closes \in Seq(Event) /\ closes' = Append(closes, event)
        /\ lock' = task.after /\ opening' = opening
        /\ officer' = [officer EXCEPT ![o] = NoTask]
    BY <1>2 DEF PeriodInv, PeriodTypeOK, WritePeriodClose
  <1>4. /\ \A date : Reopenable(date) => Reopenable(date)'
        /\ event.action = "CLOSE" => Reopenable(event.period)'
        /\ closes' \in Seq(Event)
        /\ DOMAIN closes' = DOMAIN closes \union {Len(closes) + 1}
        /\ \A n \in DOMAIN closes : closes'[n] = closes[n]
        /\ closes'[Len(closes) + 1] = event
    BY <1>2, <1>3, Appended
  <1>5. PeriodTypeOK'
    BY <1>1, <1>3, <1>4, NoTaskOK DEF PeriodInv, PeriodTypeOK, Task
  <1>6. Reopenable(lock)'
    <2>1. CASE task.step = "close"
      <3>1. event.action = "CLOSE" /\ event.period = task.after
        BY <1>1, <1>2, <2>1 DEF EventOf, TaskOK
      <3> QED BY <1>3, <1>4, <3>1 DEF Reopenable, ClosesOf
    <2>2. CASE task.step = "restore"
      <3>1. Reopenable(task.after)
        BY <1>1, <2>2 DEF TaskOK
      <3> QED BY <1>3, <1>4, <3>1 DEF Reopenable, ClosesOf
    <2> QED BY <1>1, <2>1, <2>2
  <1>7. EventsOK'
    <2>1. /\ event.action = "CLOSE" =>
                event.before < event.period /\ event.after = event.period
          /\ Reopenable(event.before)
      BY <1>1, <1>2 DEF EventOf, TaskOK
    <2>2. ASSUME NEW n \in DOMAIN closes'
          PROVE  /\ closes'[n].action = "CLOSE" =>
                       closes'[n].before < closes'[n].period /\ closes'[n].after = closes'[n].period
                 /\ Reopenable(closes'[n].before)
      BY <1>4, <2>1, <2>2 DEF PeriodInv, EventsOK
    <2> QED BY <1>4, <2>2 DEF EventsOK, Reopenable, ClosesOf
  <1>8. ASSUME NEW q \in Officers PROVE TaskOK(officer[q])'
    <2>1. TaskOK(officer'[q])
      BY <1>3, <1>8, NoTaskOK DEF PeriodInv, PeriodTypeOK
    <2> QED BY <1>4, <2>1 DEF TaskOK, Reopenable, ClosesOf
  <1> QED BY <1>5, <1>6, <1>7, <1>8 DEF PeriodInv

LEMMA UpdateSteps ==
  ASSUME PeriodInv, NEW o \in Officers
  PROVE  /\ ReadForUpdate(o) => PeriodInv'
         /\ WriteUpdate(o) => PeriodInv'
         /\ FailTask(o) => PeriodInv'
  <1>0. officer[o] \in Task /\ TaskOK(officer[o]) /\ lock \in LockDates
    BY DEF PeriodInv, PeriodTypeOK
  <1>1. ASSUME ReadForUpdate(o) PROVE PeriodInv'
    <2> DEFINE task == [NoTask EXCEPT !.step = "update", !.after = lock]
    <2>1. task \in Task /\ TaskOK(task)
      BY <1>0, NoTaskOK DEF NoTask, Task, TaskOK, Reopenable, PeriodInv
    <2> QED BY <1>1, <2>1, TaskStep DEF ReadForUpdate
  <1>2. ASSUME WriteUpdate(o) PROVE PeriodInv'
    <2>1. /\ lock' = officer[o].after /\ closes' = closes /\ opening' = opening
          /\ officer' = [officer EXCEPT ![o] = NoTask]
      BY <1>2 DEF WriteUpdate
    <2>2. Reopenable(officer[o].after) /\ officer[o].after \in LockDates
      BY <1>0, <1>2 DEF WriteUpdate, TaskOK, Task
    <2>3. PeriodTypeOK'
      BY <2>1, <2>2, NoTaskOK DEF PeriodInv, PeriodTypeOK
    <2>4. EventsOK' /\ Reopenable(lock)'
      BY <2>1, <2>2 DEF PeriodInv, EventsOK, Reopenable, ClosesOf
    <2>5. ASSUME NEW q \in Officers PROVE TaskOK(officer[q])'
      <3>1. TaskOK(officer'[q])
        BY <2>1, <2>5, NoTaskOK DEF PeriodInv, PeriodTypeOK
      <3> QED BY <2>1, <3>1 DEF TaskOK, Reopenable, ClosesOf
    <2> QED BY <2>3, <2>4, <2>5 DEF PeriodInv
  <1>3. ASSUME FailTask(o) PROVE PeriodInv'
    BY <1>3, NoTaskOK, TaskStep DEF FailTask
  <1> QED BY <1>1, <1>2, <1>3

LEMMA StepPeriodInv == PeriodInv /\ [Next]_periodVars => PeriodInv'
  <1> SUFFICES ASSUME PeriodInv, [Next]_periodVars PROVE PeriodInv'
    OBVIOUS
  <1>1. CASE UNCHANGED periodVars
    BY <1>1 DEF periodVars, PeriodInv, PeriodTypeOK, EventsOK, TaskOK, Reopenable, ClosesOf
  <1>2. ASSUME NEW o \in Officers, OfficerStep(o) PROVE PeriodInv'
    BY <1>2, ReadForCloseStep, ReopenSteps, WritePeriodCloseStep, UpdateSteps DEF OfficerStep
  <1>3. ASSUME NEW o \in Officers, NEW p \in MonthEnds, RequestReopen(o, p) PROVE PeriodInv'
    BY <1>3, ReopenSteps
  <1> QED BY <1>1, <1>2, <1>3 DEF Next

-----------------------------------------------------------------------------

\* The lock dates, the events and the requests are well formed, whatever runs
\* together (tenant/period_close.go, tenant/repository_period_close_gorm.go).
THEOREM PeriodTypes == Spec => []PeriodTypeOK
  <1>1. PeriodInv => PeriodTypeOK BY DEF PeriodInv
  <1> QED BY <1>1, InitPeriodInv, StepPeriodInv, PTL DEF Spec

\* Whatever the period lock is, ReopenPeriod finds the close event it needs to
\* take it back (tenant/period_close.go:81), unless it is the lock date that the
\* tenant was created with (tenant/service.go:72).
THEOREM LockCanBeReopened == Spec => []LockReopenable
  <1>1. PeriodInv => LockReopenable BY DEF PeriodInv, LockReopenable
  <1> QED BY <1>1, InitPeriodInv, StepPeriodInv, PTL DEF Spec

\* A reopen that is written leaves the lock date before the month it names
\* (tenant/period_close.go:56), whatever happened since it was read.
THEOREM ReopeningOpens == Spec => ReopenOpens
  <1>1. ASSUME PeriodInv, NEW o \in Officers, officer[o].step = "restore", WritePeriodClose(o)
        PROVE  lock' < officer[o].period
    BY <1>1 DEF PeriodInv, TaskOK, WritePeriodClose
  <1>2. PeriodInv /\ [Next]_periodVars =>
          [\A o \in Officers :
             officer[o].step = "restore" /\ WritePeriodClose(o) => lock' < officer[o].period]_periodVars
    BY <1>1
  <1> QED BY <1>2, InitPeriodInv, StepPeriodInv, PTL DEF Spec, ReopenOpens

-----------------------------------------------------------------------------
(* Requests that do not overlap *)

OneOfficer == \A o, q \in Officers : o = q

\* The lock date a request has read is the one still in force, if no other
\* request could write one since.
UpToDate(task) ==
    /\ task.step \in {"close", "find", "restore"} => task.before = lock
    /\ task.step = "update" => task.after = lock

AuditInv == PeriodInv /\ AuditTrail /\ \A o \in Officers : UpToDate(officer[o])

\* A request that writes nothing keeps what it read up to date.
LEMMA AuditReads ==
  ASSUME AuditInv, NEW o \in Officers, NEW task, Becomes(o, task), UpToDate(task)
  PROVE  AuditTrail' /\ \A q \in Officers : UpToDate(officer[q])'
  <1>1. officer' = [officer EXCEPT ![o] = task] /\ UNCHANGED <<lock, closes, opening>>
    BY DEF Becomes
  <1>2. officer \in [Officers -> Task] /\ AuditTrail
    BY DEF AuditInv, PeriodInv, PeriodTypeOK
  <1>3. AuditTrail'
    BY <1>1, <1>2 DEF AuditTrail, LockAfter
  <1>4. ASSUME NEW q \in Officers PROVE UpToDate(officer[q])'
    <2>1. officer'[q] = IF q = o THEN task ELSE officer[q]
      BY <1>1, <1>2
    <2>2. UpToDate(officer'[q])
      BY <2>1 DEF AuditInv
    <2> QED BY <1>1, <2>2 DEF UpToDate
  <1> QED BY <1>3, <1>4

LEMMA IdleUpToDate == NoTask.step = "idle" /\ UpToDate(NoTask)
  BY DEF NoTask, UpToDate

\* The only request there is writes: it leaves none that could be out of date.
LEMMA AuditWrites ==
  ASSUME AuditInv, NEW o \in Officers, \A q \in Officers : q = o,
         WritePeriodClose(o) \/ WriteUpdate(o)
  PROVE  AuditTrail' /\ \A q \in Officers : UpToDate(officer[q])'
  <1>1. /\ officer \in [Officers -> Task] /\ closes \in Seq(Event) /\ AuditTrail
        /\ officer[o] \in Task /\ UpToDate(officer[o]) /\ TaskOK(officer[o])
    BY DEF AuditInv, PeriodInv, PeriodTypeOK
  <1>2. ASSUME NEW q \in Officers PROVE UpToDate(officer[q])'
    <2>1. officer'[q] = NoTask
      BY <1>1 DEF WritePeriodClose, WriteUpdate
    <2> QED BY <2>1, IdleUpToDate DEF UpToDate
  <1>3. CASE WriteUpdate(o)
    <2>1. lock' = lock /\ closes' = closes /\ opening' = opening
      BY <1>1, <1>3 DEF WriteUpdate, UpToDate
    <2> QED BY <1>1, <1>2, <2>1 DEF AuditTrail, LockAfter
  <1>4. CASE WritePeriodClose(o)
    <2>1. /\ lock' = officer[o].after /\ closes' = Append(closes, EventOf(officer[o]))
          /\ officer[o].before = lock /\ officer[o].step \in {"close", "restore"}
      BY <1>1, <1>4 DEF WritePeriodClose, UpToDate
    <2>8. opening' = opening
      BY <1>4 DEF WritePeriodClose
    <2>2. EventOf(officer[o]).before = lock /\ EventOf(officer[o]).after = lock'
      BY <2>1 DEF EventOf
    <2>3. EventOf(officer[o]) \in Event
      <3>1. /\ officer[o].period \in MonthEnds /\ officer[o].before \in LockDates
            /\ officer[o].after \in LockDates
        BY <1>1, <2>1 DEF TaskOK, Task
      <3> QED BY <3>1 DEF EventOf, Event
    <2>4. PICK event \in Event : event = EventOf(officer[o])
      BY <2>3
    <2>5. /\ Len(closes) \in Nat /\ Len(closes') = Len(closes) + 1
          /\ DOMAIN closes = 1..Len(closes) /\ DOMAIN closes' = 1..(Len(closes) + 1)
          /\ \A n \in DOMAIN closes : closes'[n] = closes[n]
          /\ closes'[Len(closes) + 1] = event
      BY <1>1, <2>1, <2>4
    <2>6. lock' = LockAfter(Len(closes))'
      BY <2>2, <2>4, <2>5 DEF LockAfter
    <2>7. ASSUME NEW n \in DOMAIN closes'
          PROVE  closes'[n].before = LockAfter(n - 1)'
      <3>1. CASE n = Len(closes) + 1
        <4>1. closes'[n].before = LockAfter(Len(closes))
          BY <1>1, <2>2, <2>4, <2>5, <3>1 DEF AuditTrail
        <4>2. LockAfter(Len(closes))
                = IF n - 1 = 0 THEN opening' ELSE closes'[n - 1].after
          BY <2>5, <2>8, <3>1 DEF LockAfter
        <4> QED BY <4>1, <4>2 DEF LockAfter
      <3>2. CASE n \in DOMAIN closes
        <4>1. closes'[n].before = LockAfter(n - 1)
          BY <1>1, <2>5, <3>2 DEF AuditTrail
        <4>2. LockAfter(n - 1) = IF n - 1 = 0 THEN opening' ELSE closes'[n - 1].after
          BY <2>5, <2>8, <3>2 DEF LockAfter
        <4> QED BY <4>1, <4>2 DEF LockAfter
      <3> QED BY <2>5, <3>1, <3>2
    <2> QED BY <1>2, <2>6, <2>7 DEF AuditTrail
  <1> QED BY <1>3, <1>4

LEMMA AuditStep ==
  ASSUME OneOfficer, AuditInv, [Next]_periodVars
  PROVE  AuditInv'
  <1>1. PeriodInv'
    BY StepPeriodInv DEF AuditInv
  <1>2. CASE UNCHANGED periodVars
    BY <1>1, <1>2 DEF periodVars, AuditInv, AuditTrail, LockAfter, UpToDate
  <1>3. ASSUME NEW o \in Officers, NEW task, Becomes(o, task), UpToDate(task)
        PROVE  AuditInv'
    BY <1>1, <1>3, AuditReads DEF AuditInv
  <1>4. ASSUME NEW o \in Officers, OfficerStep(o) PROVE AuditInv'
    <2>0. UpToDate(officer[o])
      BY DEF AuditInv
    <2>1. ASSUME NEW p \in MonthEnds, ReadForClose(o, p) PROVE AuditInv'
      <3>1. UpToDate([step |-> "close", period |-> p, before |-> lock, after |-> p])
        BY DEF UpToDate
      <3> QED BY <1>3, <2>1, <3>1 DEF ReadForClose
    <2>2. CASE ReadForReopen(o)
      <3>1. UpToDate([officer[o] EXCEPT !.step = "find", !.before = lock])
        <4>1. officer[o] \in Task
          BY DEF AuditInv, PeriodInv, PeriodTypeOK
        <4> QED BY <4>1 DEF UpToDate, Task
      <3> QED BY <1>3, <2>2, <3>1, IdleUpToDate DEF ReadForReopen
    <2>3. CASE FindClose(o)
      <3>1. ASSUME NEW date PROVE UpToDate([officer[o] EXCEPT !.step = "restore", !.after = date])
        <4>1. officer[o] \in Task /\ officer[o].before = lock
          BY <2>0, <2>3 DEF AuditInv, PeriodInv, PeriodTypeOK, FindClose, UpToDate
        <4> QED BY <4>1 DEF UpToDate, Task
      <3>2. CASE Becomes(o, NoTask)
        BY <1>3, <3>2, IdleUpToDate
      <3>3. ASSUME NEW n \in ClosesOf(officer[o].period),
                   Becomes(o, [officer[o] EXCEPT !.step = "restore", !.after = closes[n].before])
            PROVE  AuditInv'
        BY <1>3, <3>1, <3>3
      <3> QED BY <2>3, <3>2, <3>3 DEF FindClose
    <2>4. CASE ReadForUpdate(o)
      <3>1. UpToDate([NoTask EXCEPT !.step = "update", !.after = lock])
        BY DEF UpToDate, NoTask
      <3> QED BY <1>3, <2>4, <3>1 DEF ReadForUpdate
    <2>5. CASE FailTask(o)
      BY <1>3, <2>5, IdleUpToDate DEF FailTask
    <2>6. CASE WritePeriodClose(o) \/ WriteUpdate(o)
      BY <1>1, <2>6, AuditWrites DEF AuditInv, OneOfficer
    <2> QED BY <1>4, <2>1, <2>2, <2>3, <2>4, <2>5, <2>6 DEF OfficerStep
  <1>5. ASSUME NEW o \in Officers, NEW p \in MonthEnds, RequestReopen(o, p) PROVE AuditInv'
    <2>1. UpToDate([NoTask EXCEPT !.step = "reopen", !.period = p])
      BY DEF UpToDate, NoTask
    <2> QED BY <1>3, <1>5, <2>1 DEF RequestReopen
  <1> QED BY <1>2, <1>4, <1>5 DEF Next

LEMMA AuditStarts == Init => AuditInv
  BY InitPeriodInv DEF Init, AuditInv, AuditTrail, LockAfter, UpToDate, NoTask

\* When no two requests overlap, the close and reopen events tell the whole
\* history of the lock date, settings updates and failures between them
\* (tenant/repository_period_close_gorm.go: settings and event in one
\* transaction).
THEOREM EventsAreTheAuditTrail ==
  ASSUME OneOfficer
  PROVE  Spec => []AuditTrail
  <1>1. AuditInv => AuditTrail BY DEF AuditInv
  <1>2. AuditInv /\ [Next]_periodVars => AuditInv'
    BY AuditStep
  <1> QED BY <1>1, <1>2, AuditStarts, PTL DEF Spec

\* When no two requests overlap, a close moves the lock date on, as the error
\* "period already closed through" says (tenant/period_close.go:23).
THEOREM ClosesMoveOn ==
  ASSUME OneOfficer
  PROVE  Spec => ClosesAdvance
  <1>1. ASSUME AuditInv, NEW o \in Officers, officer[o].step = "close", WritePeriodClose(o)
        PROVE  lock' > lock
    <2>1. /\ lock' = officer[o].after /\ officer[o].before = lock
          /\ officer[o].before < officer[o].period /\ officer[o].after = officer[o].period
      BY <1>1 DEF AuditInv, UpToDate, PeriodInv, TaskOK, WritePeriodClose
    <2>2. officer[o].before \in Int /\ officer[o].after \in Int
      BY <1>1 DEF AuditInv, PeriodInv, PeriodTypeOK, Task, LockDates
    <2> QED BY <2>1, <2>2
  <1>2. AuditInv /\ [Next]_periodVars =>
          [\A o \in Officers :
             officer[o].step = "close" /\ WritePeriodClose(o) => lock' > lock]_periodVars
    BY <1>1
  <1>3. AuditInv /\ [Next]_periodVars => AuditInv'
    BY AuditStep
  <1> QED BY <1>2, <1>3, AuditStarts, PTL DEF Spec, ClosesAdvance
=============================================================================
