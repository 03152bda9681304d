--------------------------- MODULE GenerationProofs ---------------------------
(***************************************************************************)
(* For any templates, any number of jobs, requests and failures, any clock *)
(* and any calendar: types, that no day of a schedule is passed over, that *)
(* one request at a time generates a date once, and that counts are those  *)
(* of documents.                                                           *)
(*                                                                         *)
(* GenInv adds to the types that a generator holds templates it serves,    *)
(* and that jobs have created nothing.  CoverInv adds to NoPeriodSkipped   *)
(* the days before the date a generator is at: it will set the next date   *)
(* after it, whatever others set since.                                    *)
(***************************************************************************)
EXTENDS Generation, SumTheorems

Held(g) ==
    /\ gen[g].due \subseteq Serves[g] /\ gen[g].template \in Serves[g] \union {None}
    /\ gen[g].step \in {"created", "moved"} => g \notin Jobs

GenInv == GenTypeOK /\ \A g \in Generators : Held(g)

-----------------------------------------------------------------------------
(* Requests *)

LEMMA RequestTypes ==
    /\ NoRequest \in Request /\ NoRequest.step = "idle" /\ NoRequest.due = {}
    /\ NoRequest.template = None /\ NoRequest.asked = NoDate
BY DatesAssumption DEF NoRequest, Request, Dates, NoDate

LEMMA ListedType ==
    ASSUME lock \in Int, NEW due \in SUBSET Templates
    PROVE  /\ Listed(due) \in Request /\ Listed(due).step = "listed" /\ Listed(due).due = due
           /\ Listed(due).template = None /\ Listed(due).asked = NoDate
BY DatesAssumption DEF Listed, NoRequest, Request, Dates, NoDate

LEMMA RestType ==
    ASSUME NEW request \in Request
    PROVE  /\ Rest(request) \in Request /\ Rest(request).step \in {"idle", "listed"}
           /\ Rest(request).due \subseteq request.due
           /\ Rest(request).template = None /\ Rest(request).asked = NoDate
<1>1. CASE request.due = {}
  BY <1>1, RequestTypes DEF Rest
<1>2. CASE request.due # {}
  <2>1. Rest(request) = [NoRequest EXCEPT !.step = "listed", !.due = request.due, !.lock = request.lock]
    BY <1>2 DEF Rest
  <2>2. request.due \in SUBSET Templates /\ request.lock \in Int
    BY DEF Request
  <2> QED
    BY <2>1, <2>2, DatesAssumption DEF NoRequest, Request, Dates, NoDate
<1> QED
  BY <1>1, <1>2

\* A generator's own step.
LEMMA RequestKeeps ==
    ASSUME GenInv, NEW g \in Generators, NEW request \in Request,
           gen' = [gen EXCEPT ![g] = request],
           request.step \in {"read", "created", "moved"} <=> request.template # None,
           request.template # None => request.date \in Dates /\ request.freq \in Frequencies,
           request.due \subseteq Serves[g], request.template \in Serves[g] \union {None},
           request.step \in {"created", "moved"} => g \notin Jobs
    PROVE  /\ gen' \in [Generators -> Request] /\ gen'[g] = request
           /\ \A h \in Generators \ {g} : gen'[h] = gen[h]
           /\ \A h \in Generators :
                 /\ gen'[h].step \in {"read", "created", "moved"} <=> gen'[h].template # None
                 /\ gen'[h].template # None => gen'[h].date \in Dates /\ gen'[h].freq \in Frequencies
                 /\ Held(h)'
<1>1. gen \in [Generators -> Request]
  BY DEF GenInv, GenTypeOK
<1>2. gen' \in [Generators -> Request] /\ gen'[g] = request /\ \A h \in Generators \ {g} : gen'[h] = gen[h]
  BY <1>1
<1>3. ASSUME NEW h \in Generators
      PROVE  /\ gen'[h].step \in {"read", "created", "moved"} <=> gen'[h].template # None
             /\ gen'[h].template # None => gen'[h].date \in Dates /\ gen'[h].freq \in Frequencies
             /\ Held(h)'
  <2>1. CASE h = g
    BY <1>2, <2>1 DEF Held
  <2>2. CASE h # g
    BY <1>2, <2>2 DEF Held, GenInv, GenTypeOK
  <2> QED
    BY <2>1, <2>2
<1> QED
  BY <1>2, <1>3

\* What starts has a list of templates, and has read none of them.
LEMMA StartsListed ==
    ASSUME GenInv, NEW g \in Generators, GenerateDue(g) \/ Asked(g)
    PROVE  /\ \E request \in Request :
                 /\ gen' = [gen EXCEPT ![g] = request] /\ request.step = "listed"
                 /\ request.due \subseteq Serves[g] /\ request.template = None
           /\ gen[g].step = "idle" /\ UNCHANGED <<today, lock, tmpl, docs, history, failures>>
<1>0. lock \in Int /\ gen \in [Generators -> Request] /\ Serves[g] \subseteq Templates
  BY ServesAssumption DEF GenInv, GenTypeOK
<1>1. PICK due \in SUBSET Templates, asked \in Dates \union {NoDate} :
         Starts(g, [Listed(due) EXCEPT !.asked = asked])
  <2>1. ASSUME NEW due \in SUBSET Templates
        PROVE  Listed(due) = [Listed(due) EXCEPT !.asked = NoDate]
    BY <1>0, ListedType DEF Request
  <2>2. CASE GenerateDue(g)
    <3> DEFINE due == Serves[g] \intersect (DueInvoices \union DueJournals(today))
    <3>1. due \in SUBSET Templates /\ Starts(g, Listed(due))
      BY <1>0, <2>2 DEF GenerateDue
    <3> HIDE DEF due
    <3>2. Starts(g, [Listed(due) EXCEPT !.asked = NoDate])
      BY <2>1, <3>1
    <3> QED
      BY <3>1, <3>2
  <2>3. ASSUME NEW asOf \in Dates, GenerateDueBy(g, asOf) PROVE \E due \in SUBSET Templates : Starts(g, Listed(due))
    BY <1>0, <2>3 DEF GenerateDueBy
  <2>4. ASSUME NEW t \in Templates, GenerateOne(g, t) PROVE \E due \in SUBSET Templates : Starts(g, Listed(due))
    BY <2>4 DEF GenerateOne
  <2>5. ASSUME NEW t \in Templates, NEW d \in Dates, GenerateOneFor(g, t, d)
        PROVE  \E due \in SUBSET Templates : Starts(g, [Listed(due) EXCEPT !.asked = d])
    <3>1. {t} \in SUBSET Templates /\ Starts(g, [Listed({t}) EXCEPT !.asked = d])
      BY <2>5 DEF GenerateOneFor
    <3> QED
      BY <3>1
  <2>6. (\E due \in SUBSET Templates : Starts(g, Listed(due)))
           => \E due \in SUBSET Templates : Starts(g, [Listed(due) EXCEPT !.asked = NoDate])
    <3> SUFFICES ASSUME NEW due \in SUBSET Templates, Starts(g, Listed(due))
                 PROVE  Starts(g, [Listed(due) EXCEPT !.asked = NoDate])
      OBVIOUS
    <3> QED
      BY <2>1
  <2> QED
    BY <1>0, <2>2, <2>3, <2>4, <2>5, <2>6 DEF Asked
<1>2. PICK request \in Request :
         /\ request = [Listed(due) EXCEPT !.asked = asked]
         /\ request.step = "listed" /\ request.due = due /\ request.template = None
  BY <1>0, <1>1, ListedType DEF Request
<1> QED
  BY <1>1, <1>2 DEF Starts

LEMMA StartsKeep ==
    ASSUME GenInv, NEW g \in Generators, GenerateDue(g) \/ Asked(g)
    PROVE  GenInv'
<1>1. PICK request \in Request :
         /\ gen' = [gen EXCEPT ![g] = request] /\ request.step = "listed"
         /\ request.due \subseteq Serves[g] /\ request.template = None
  BY StartsListed
<1>2. UNCHANGED <<today, lock, tmpl, docs, history, failures>>
  BY StartsListed
<1>3. byHand' \in 0..MaxByHand
  <2>1. byHand' = byHand \/ ByHand
    BY DEF GenerateDue, Asked, GenerateDueBy, GenerateOne, GenerateOneFor
  <2> QED
    BY <2>1, BoundsAssumption DEF ByHand, GenInv, GenTypeOK
<1>4. /\ gen' \in [Generators -> Request]
      /\ \A h \in Generators :
            /\ gen'[h].step \in {"read", "created", "moved"} <=> gen'[h].template # None
            /\ gen'[h].template # None => gen'[h].date \in Dates /\ gen'[h].freq \in Frequencies
            /\ Held(h)'
  BY <1>1, RequestKeeps
<1> QED
  BY <1>2, <1>3, <1>4 DEF GenInv, GenTypeOK, history, There

-----------------------------------------------------------------------------
(* Steps of a generator *)

\* What reading the template, or passing it over, does to the request.
LEMMA ReadingKeeps ==
    ASSUME GenInv, NEW g \in Generators, NEW t \in Templates,
           ReadTemplate(g, t) \/ PassOver(g, t)
    PROVE  GenInv'
<1>0. /\ gen \in [Generators -> Request] /\ gen[g] \in Request /\ Held(g)
      /\ There(t) => tmpl[t].freq \in Frequencies
      /\ UNCHANGED <<today, lock, tmpl, docs, history, bounds>>
  BY DEF GenInv, GenTypeOK, ReadTemplate, PassOver
<1>1. PICK request \in Request :
         /\ gen' = [gen EXCEPT ![g] = request]
         /\ request.step \in {"read", "created", "moved"} <=> request.template # None
         /\ request.template # None => request.date \in Dates /\ request.freq \in Frequencies
         /\ request.due \subseteq Serves[g] /\ request.template \in Serves[g] \union {None}
         /\ request.step \in {"created", "moved"} => g \notin Jobs
  <2>1. CASE ReadTemplate(g, t)
    <3> DEFINE request == [gen[g] EXCEPT !.step = "read", !.due = @ \ {t}, !.template = t,
                                         !.date = EntryDate(g, t), !.freq = tmpl[t].freq]
    <3>1. /\ gen' = [gen EXCEPT ![g] = request] /\ t \in gen[g].due
          /\ EntryDate(g, t) \in Dates /\ tmpl[t].freq \in Frequencies
      BY <1>0, <2>1 DEF ReadTemplate, MayGenerate
    <3>2. /\ request \in Request /\ request.step = "read" /\ request.template = t
          /\ request.date \in Dates /\ request.due \subseteq gen[g].due
          /\ request.freq \in Frequencies
      BY <1>0, <3>1 DEF Request
    <3>3. t # None /\ t \in Serves[g] /\ request.due \subseteq Serves[g]
      BY <1>0, <3>1, <3>2, KindsAssumption DEF Held
    <3> HIDE DEF request
    <3> QED
      BY <3>1, <3>2, <3>3
  <2>2. CASE PassOver(g, t)
    <3> DEFINE read == [gen[g] EXCEPT !.due = @ \ {t}]
    <3>1. gen' = [gen EXCEPT ![g] = Rest(read)]
      BY <1>0, <2>2 DEF PassOver, AfterError
    <3>2. read \in Request /\ read.due \subseteq gen[g].due
      BY <1>0 DEF Request
    <3> HIDE DEF read
    <3>3. /\ Rest(read) \in Request /\ Rest(read).step \in {"idle", "listed"}
          /\ Rest(read).due \subseteq Serves[g] /\ Rest(read).template = None
      BY <1>0, <3>2, RestType DEF Held
    <3> QED
      BY <3>1, <3>3
  <2> QED
    BY <2>1, <2>2
<1> QED
  BY <1>0, <1>1, RequestKeeps DEF GenInv, GenTypeOK, history, bounds, There

\* A generator with a template: its template and date have their types.
LEMMA AtWork ==
    ASSUME GenInv, NEW g \in Generators, gen[g].step \in {"read", "created", "moved"}
    PROVE  /\ gen[g] \in Request /\ gen[g].template \in Templates /\ gen[g].date \in Dates
           /\ gen[g].freq \in Frequencies /\ gen[g].template \in Serves[g]
BY ServesAssumption DEF GenInv, GenTypeOK, Request, Held

LEMMA StepKeeps ==
    ASSUME GenInv, NEW g \in Generators, gen[g].step \in {"read", "created", "moved"},
           \/ g \notin Jobs /\ \E step \in {"created", "moved"} : gen' = [gen EXCEPT ![g].step = step]
           \/ gen' = [gen EXCEPT ![g] = Rest(gen[g])]
           \/ gen' = [gen EXCEPT ![g] = NoRequest]
    PROVE  /\ gen' \in [Generators -> Request]
           /\ \A h \in Generators \ {g} : gen'[h] = gen[h]
           /\ \A h \in Generators :
                 /\ gen'[h].step \in {"read", "created", "moved"} <=> gen'[h].template # None
                 /\ gen'[h].template # None => gen'[h].date \in Dates /\ gen'[h].freq \in Frequencies
                 /\ Held(h)'
<1>0. gen \in [Generators -> Request] /\ gen[g] \in Request /\ Held(g)
      /\ gen[g].template \in Templates /\ gen[g].date \in Dates /\ gen[g].freq \in Frequencies
  BY AtWork DEF GenInv, GenTypeOK
<1>1. ASSUME NEW step \in {"created", "moved"}, gen' = [gen EXCEPT ![g].step = step]
      PROVE  \E request \in Request :
                /\ gen' = [gen EXCEPT ![g] = request]
                /\ request.step = step /\ request.template = gen[g].template
                /\ request.date = gen[g].date /\ request.freq = gen[g].freq
                /\ request.due = gen[g].due
  <2>1. [gen[g] EXCEPT !.step = step] \in Request
    BY <1>0 DEF Request
  <2>2. gen' = [gen EXCEPT ![g] = [gen[g] EXCEPT !.step = step]]
    BY <1>0, <1>1
  <2> QED
    BY <1>0, <2>1, <2>2 DEF Request
<1>2. PICK request \in Request :
         /\ gen' = [gen EXCEPT ![g] = request]
         /\ request.step \in {"read", "created", "moved"} <=> request.template # None
         /\ request.template # None => request.date \in Dates /\ request.freq \in Frequencies
         /\ request.due \subseteq Serves[g] /\ request.template \in Serves[g] \union {None}
         /\ request.step \in {"created", "moved"} => g \notin Jobs
  <2>1. CASE g \notin Jobs /\ \E step \in {"created", "moved"} : gen' = [gen EXCEPT ![g].step = step]
    BY <1>0, <1>1, <2>1, KindsAssumption DEF Held
  <2>2. CASE gen' = [gen EXCEPT ![g] = Rest(gen[g])]
    BY <1>0, <2>2, RestType DEF Held
  <2>3. CASE gen' = [gen EXCEPT ![g] = NoRequest]
    BY <2>3, RequestTypes
  <2> QED
    BY <2>1, <2>2, <2>3
<1> QED
  BY <1>2, RequestKeeps

LEMMA RefusedKeeps ==
    ASSUME GenInv, NEW g \in Generators, InsertRefused(g)
    PROVE  GenInv'
<1>1. /\ gen[g].step = "read" /\ gen' = [gen EXCEPT ![g] = Rest(gen[g])]
      /\ UNCHANGED <<today, lock, tmpl, docs, history, bounds>>
  BY DEF InsertRefused, AfterError
<1> QED
  BY <1>1, StepKeeps DEF GenInv, GenTypeOK, history, bounds, There

LEMMA CreateKeeps ==
    ASSUME GenInv, NEW g \in Generators, CreateDocument(g)
    PROVE  GenInv'
<1> DEFINE t == gen[g].template
           d == gen[g].date
           f == gen[g].freq
<1>1. /\ gen[g].step = "read" /\ g \notin Jobs /\ docs' = [docs EXCEPT ![t][d] = @ + 1]
      /\ periods' = [periods EXCEPT ![t] = @ \union {<<d, f>>}]
      /\ named' = IF gen[g].asked = NoDate THEN named ELSE [named EXCEPT ![t] = @ \union {d}]
      /\ gen' = [gen EXCEPT ![g].step = "created"]
      /\ UNCHANGED <<today, lock, tmpl, halfway, uncounted>> /\ UNCHANGED bounds
  BY DEF CreateDocument
<1>2. t \in Templates /\ d \in Dates /\ f \in Frequencies
  BY <1>1, AtWork
<1>3. /\ docs \in [Templates -> [Dates -> Nat]] /\ named \in [Templates -> SUBSET Dates]
      /\ periods \in [Templates -> SUBSET (Dates \X Frequencies)]
  BY DEF GenInv, GenTypeOK
<1> HIDE DEF t, d, f
<1>4. docs' \in [Templates -> [Dates -> Nat]] /\ named' \in [Templates -> SUBSET Dates]
  BY <1>1, <1>2, <1>3
<1>5. periods' \in [Templates -> SUBSET (Dates \X Frequencies)]
  BY <1>1, <1>2, <1>3
<1>6. gen' \in [Generators -> Request]
      /\ \A h \in Generators :
            /\ gen'[h].step \in {"read", "created", "moved"} <=> gen'[h].template # None
            /\ gen'[h].template # None => gen'[h].date \in Dates /\ gen'[h].freq \in Frequencies
            /\ Held(h)'
  BY <1>1, StepKeeps
<1> QED
  BY <1>1, <1>4, <1>5, <1>6 DEF GenInv, GenTypeOK, bounds, There

\* The next date is later, on any calendar whose months have days.
LEMMA NextIsLater ==
    ASSUME NEW f \in Frequencies, NEW d \in Dates
    PROVE  CalculateNextDate(f, d) \in Int /\ CalculateNextDate(f, d) > d
<1>1. d \in Int
  BY DatesAssumption DEF Dates
<1>2. CASE f \in DOMAIN DaysOf
  <2>1. DaysOf[f] \in Nat \ {0}
    BY <1>2, CalendarAssumption DEF DaysOf
  <2> QED
    BY <1>1, <1>2, <2>1 DEF CalculateNextDate
<1>3. CASE f \notin DOMAIN DaysOf
  <2>1. CalculateNextDate(f, d) = AddMonths(d, MonthsOf[f])
    BY <1>3 DEF CalculateNextDate
  <2>2. MonthsOf[f] \in 1..12
    <3>1. f \in {"MONTHLY", "QUARTERLY", "YEARLY"}
      BY <1>3, CalendarAssumption DEF DaysOf
    <3> QED
      BY <3>1 DEF MonthsOf
  <2>3. PICK n \in 1..12 : n = MonthsOf[f]
    BY <2>2
  <2>4. PICK m \in 1..LastMonth : m = MonthOf(d)
    BY CalendarAssumption DEF MonthOf
  <2>5. /\ m \in 1..LastMonth + 12 /\ m + n \in 1..LastMonth + 12 /\ m < m + n
    BY CalendarAssumption
  <2>6. FirstDay[m] \in Int /\ FirstDay[m + n] \in Int /\ FirstDay[m] < FirstDay[m + n]
    BY <2>5, CalendarAssumption
  <2>7. CalculateNextDate(f, d) = FirstDay[m + n] + (d - FirstDay[m])
    BY <2>1, <2>3, <2>4 DEF AddMonths
  <2> QED
    BY <1>1, <2>6, <2>7
<1> QED
  BY <1>2, <1>3

\* What moving on, and counting, does to the rows.
LEMMA MoveWrites ==
    ASSUME GenInv, NEW g \in Generators, MoveOn(g) \/ CountInvoice(g),
           NEW t \in Templates, t = gen[g].template
    PROVE  /\ tmpl' \in [Templates -> Template] /\ \A u \in Templates \ {t} : tmpl'[u] = tmpl[u]
           /\ tmpl'[t].row = tmpl[t].row /\ tmpl'[t].first = tmpl[t].first
           /\ tmpl'[t].freq = tmpl[t].freq
           /\ tmpl'[t].next = IF MoveOn(g) /\ There(t) THEN NextAfter(gen[g]) ELSE tmpl[t].next
           /\ tmpl'[t].count = IF There(t) /\ (t \in Journals \/ CountInvoice(g)) THEN tmpl[t].count + 1
                               ELSE tmpl[t].count
<1>1. tmpl \in [Templates -> Template] /\ tmpl[t] \in Template
  BY DEF GenInv, GenTypeOK
<1>2. /\ Counted(t) \in [Templates -> Template] /\ \A u \in Templates \ {t} : Counted(t)[u] = tmpl[u]
      /\ Counted(t)[t].row = tmpl[t].row /\ Counted(t)[t].first = tmpl[t].first
      /\ Counted(t)[t].freq = tmpl[t].freq /\ Counted(t)[t].next = tmpl[t].next
      /\ Counted(t)[t].count = tmpl[t].count + 1
  <2> DEFINE counted == [tmpl[t] EXCEPT !.count = @ + 1]
  <2>1. /\ counted \in Template /\ counted.row = tmpl[t].row /\ counted.first = tmpl[t].first
        /\ counted.freq = tmpl[t].freq /\ counted.next = tmpl[t].next
        /\ counted.count = tmpl[t].count + 1
    BY <1>1 DEF Template
  <2>2. Counted(t) = [tmpl EXCEPT ![t] = counted]
    BY <1>1 DEF Counted
  <2> HIDE DEF counted
  <2> QED
    BY <1>1, <2>1, <2>2
<1>3. CASE CountInvoice(g)
  <2>1. ~MoveOn(g) /\ tmpl' = IF There(t) THEN Counted(t) ELSE tmpl
    BY <1>3 DEF MoveOn, CountInvoice
  <2> QED
    BY <1>1, <1>2, <1>3, <2>1
<1>4. CASE MoveOn(g)
  <2>1. gen[g].step = "created" /\ ~CountInvoice(g)
    BY <1>4 DEF MoveOn, CountInvoice
  <2>2. PICK d \in Int : d = NextAfter(gen[g])
    BY <2>1, AtWork, NextIsLater DEF NextAfter
  <2>3. tmpl' = IF ~There(t) THEN tmpl
                ELSE [(IF t \in Journals THEN Counted(t) ELSE tmpl) EXCEPT ![t].next = d]
    BY <1>4, <2>2 DEF MoveOn
  <2>4. ASSUME NEW rows \in [Templates -> Template], tmpl' = [rows EXCEPT ![t].next = d]
        PROVE  /\ tmpl' \in [Templates -> Template] /\ \A u \in Templates \ {t} : tmpl'[u] = rows[u]
               /\ tmpl'[t].row = rows[t].row /\ tmpl'[t].first = rows[t].first
               /\ tmpl'[t].freq = rows[t].freq /\ tmpl'[t].count = rows[t].count
               /\ tmpl'[t].next = d
    <3> DEFINE row == [rows[t] EXCEPT !.next = d]
    <3>1. /\ row \in Template /\ row.row = rows[t].row /\ row.first = rows[t].first
          /\ row.freq = rows[t].freq /\ row.count = rows[t].count /\ row.next = d
      BY DEF Template
    <3>2. [rows EXCEPT ![t].next = d] = [rows EXCEPT ![t] = row]
      OBVIOUS
    <3> HIDE DEF row
    <3>3. tmpl' = [rows EXCEPT ![t] = row]
      BY <2>4, <3>2
    <3> QED
      BY <3>1, <3>3
  <2>5. CASE ~There(t)
    BY <1>1, <2>3, <2>5
  <2>6. CASE There(t) /\ t \in Journals
    <3>1. tmpl' = [Counted(t) EXCEPT ![t].next = d]
      BY <2>3, <2>6
    <3>2. /\ tmpl' \in [Templates -> Template] /\ \A u \in Templates \ {t} : tmpl'[u] = Counted(t)[u]
          /\ tmpl'[t].row = Counted(t)[t].row /\ tmpl'[t].first = Counted(t)[t].first
          /\ tmpl'[t].freq = Counted(t)[t].freq /\ tmpl'[t].count = Counted(t)[t].count
          /\ tmpl'[t].next = d
      BY <1>2, <2>4, <3>1
    <3> QED
      BY <1>2, <1>4, <2>2, <2>6, <3>2
  <2>7. CASE There(t) /\ t \notin Journals
    <3>1. tmpl' = [tmpl EXCEPT ![t].next = d]
      BY <2>3, <2>7
    <3> QED
      BY <1>1, <1>4, <2>1, <2>2, <2>4, <2>7, <3>1
  <2> QED
    BY <2>5, <2>6, <2>7
<1> QED
  BY <1>3, <1>4

\* What it leaves of the request: the document is to be counted, or nothing.
LEMMA MoveLeaves ==
    ASSUME GenInv, NEW g \in Generators, MoveOn(g) \/ CountInvoice(g),
           NEW t \in Templates, t = gen[g].template
    PROVE  /\ gen[g].step \in {"created", "moved"} /\ g \notin Jobs
           /\ UNCHANGED <<today, lock, docs, history, bounds>>
           /\ \/ /\ MoveOn(g) /\ t \notin Journals
                 /\ gen' = [gen EXCEPT ![g].step = "moved"]
              \/ /\ CountInvoice(g) \/ t \in Journals
                 /\ gen' = [gen EXCEPT ![g] = Rest(gen[g])]
<1>1. gen \in [Generators -> Request] /\ Held(g)
  BY DEF GenInv, GenTypeOK
<1>2. [gen EXCEPT ![g] = [gen[g] EXCEPT !.step = "moved"]] = [gen EXCEPT ![g].step = "moved"]
  BY <1>1
<1>3. CASE MoveOn(g)
  BY <1>1, <1>2, <1>3 DEF MoveOn, Held
<1>4. CASE CountInvoice(g)
  BY <1>1, <1>4 DEF CountInvoice, Held
<1> QED
  BY <1>3, <1>4

LEMMA MoveKeeps ==
    ASSUME GenInv, NEW g \in Generators, MoveOn(g) \/ CountInvoice(g)
    PROVE  GenInv'
<1>1. PICK t \in Templates : t = gen[g].template
  BY AtWork DEF MoveOn, CountInvoice
<1>2. /\ gen[g].step \in {"created", "moved"} /\ g \notin Jobs
      /\ UNCHANGED <<today, lock, docs, history, bounds>>
      /\ \/ gen' = [gen EXCEPT ![g].step = "moved"]
         \/ gen' = [gen EXCEPT ![g] = Rest(gen[g])]
  BY <1>1, MoveLeaves
<1>3. /\ tmpl' \in [Templates -> Template]
      /\ \A u \in Templates : tmpl'[u].row = tmpl[u].row /\ tmpl'[u].freq = tmpl[u].freq
  BY <1>1, MoveWrites
<1>4. \A u \in Templates : There(u)' => tmpl'[u].freq \in Frequencies
  BY <1>3 DEF There, GenInv, GenTypeOK
<1>5. gen' \in [Generators -> Request]
      /\ \A h \in Generators :
            /\ gen'[h].step \in {"read", "created", "moved"} <=> gen'[h].template # None
            /\ gen'[h].template # None => gen'[h].date \in Dates /\ gen'[h].freq \in Frequencies
            /\ Held(h)'
  BY <1>2, StepKeeps
<1> QED
  BY <1>2, <1>3, <1>4, <1>5 DEF GenInv, GenTypeOK, history, bounds

LEMMA FailKeeps ==
    ASSUME GenInv, NEW g \in Generators, Fail(g)
    PROVE  GenInv'
<1>1. /\ gen[g].step \in {"read", "created", "moved"}
      /\ UNCHANGED <<today, lock, tmpl, docs, periods, named, byHand>>
      /\ failures < MaxFailures /\ failures' = failures + 1
      /\ gen' = [gen EXCEPT ![g] = Rest(gen[g])] \/ gen' = [gen EXCEPT ![g] = NoRequest]
  BY DEF Fail
<1>2. PICK t \in Templates, d \in Dates : t = gen[g].template /\ d = gen[g].date
  BY <1>1, AtWork
<1>3. /\ halfway \in [Templates -> [Dates -> Nat]] /\ uncounted \in [Templates -> Nat]
      /\ failures \in 0..MaxFailures
  BY DEF GenInv, GenTypeOK
<1>4. /\ halfway' = IF gen[g].step = "created" THEN [halfway EXCEPT ![t][d] = @ + 1] ELSE halfway
      /\ uncounted' = IF gen[g].step # "read" THEN [uncounted EXCEPT ![t] = @ + 1] ELSE uncounted
  BY <1>2 DEF Fail
<1>5. /\ halfway' \in [Templates -> [Dates -> Nat]] /\ uncounted' \in [Templates -> Nat]
      /\ failures' \in 0..MaxFailures
  BY <1>1, <1>3, <1>4, BoundsAssumption
<1> QED
  BY <1>1, <1>5, StepKeeps DEF GenInv, GenTypeOK, There

-----------------------------------------------------------------------------
(* Users, the clock, and the invariant *)

LEMMA NewTemplateType ==
    ASSUME NEW first \in Firsts, NEW f \in Frequencies, NEW e \in Ends
    PROVE  LET row == NewTemplate(first, f, e)
           IN  /\ row \in Template /\ row.row = "there" /\ row.freq = f /\ row.count = 0
               /\ row.first = first /\ row.next = first
<1>1. first \in Dates /\ first \in Int /\ e \in Dates \union {NoEnd}
  BY EndsAssumption, DatesAssumption DEF Dates
<1> QED
  BY <1>1 DEF Template, NewTemplate

\* A user's step writes one row.
LEMMA UserWrites ==
    ASSUME GenInv, UserStep
    PROVE  \E t \in Templates, row \in Template :
              /\ tmpl' = [tmpl EXCEPT ![t] = row] /\ row.row # "absent"
              /\ row.freq \in Frequencies
              /\ \/ /\ row.first = tmpl[t].first /\ row.next = tmpl[t].next
                    /\ row.count = tmpl[t].count
                    /\ There(t) /\ row.row \in {"there", "deleted"}
                 \/ /\ row.first = row.next /\ row.count = 0
                    /\ tmpl[t].row = "absent" /\ row.row = "there"
<1>1. tmpl \in [Templates -> Template] /\ \A t \in Templates : There(t) => tmpl[t].freq \in Frequencies
  BY DEF GenInv, GenTypeOK
<1> DEFINE Writes(t, row) ==
              /\ tmpl' = [tmpl EXCEPT ![t] = row] /\ row.row # "absent"
              /\ row.freq \in Frequencies
              /\ \/ /\ row.first = tmpl[t].first /\ row.next = tmpl[t].next
                    /\ row.count = tmpl[t].count
                    /\ There(t) /\ row.row \in {"there", "deleted"}
                 \/ /\ row.first = row.next /\ row.count = 0
                    /\ tmpl[t].row = "absent" /\ row.row = "there"
<1>2. ASSUME NEW t \in Templates, NEW active \in BOOLEAN, SetActive(t, active)
      PROVE  \E row \in Template : Writes(t, row)
  <2> DEFINE row == [tmpl[t] EXCEPT !.active = active]
  <2>1. tmpl' = [tmpl EXCEPT ![t] = row] /\ There(t)
    BY <1>1, <1>2 DEF SetActive
  <2>2. /\ row \in Template /\ row.row = tmpl[t].row /\ row.freq = tmpl[t].freq
        /\ row.first = tmpl[t].first /\ row.next = tmpl[t].next /\ row.count = tmpl[t].count
    BY <1>1, <1>2 DEF Template
  <2> HIDE DEF row
  <2> QED
    BY <1>1, <1>2, <2>1, <2>2 DEF There
<1>3. ASSUME NEW t \in Templates, Delete(t)
      PROVE  \E row \in Template : Writes(t, row)
  <2> DEFINE row == [tmpl[t] EXCEPT !.row = "deleted"]
  <2>1. tmpl' = [tmpl EXCEPT ![t] = row] /\ There(t)
    BY <1>1, <1>3 DEF Delete
  <2>2. /\ row \in Template /\ row.row = "deleted" /\ row.freq = tmpl[t].freq
        /\ row.first = tmpl[t].first /\ row.next = tmpl[t].next /\ row.count = tmpl[t].count
    BY <1>1, <1>3 DEF Template
  <2> HIDE DEF row
  <2> QED
    BY <1>1, <1>3, <2>1, <2>2
<1>4. ASSUME NEW t \in Templates, NEW f \in Frequencies, NEW e \in Ends, Update(t, f, e)
      PROVE  \E row \in Template : Writes(t, row)
  <2> DEFINE row == [tmpl[t] EXCEPT !.freq = f, !.end = e]
  <2>1. tmpl' = [tmpl EXCEPT ![t] = row] /\ There(t)
    BY <1>1, <1>4 DEF Update
  <2>2. /\ row \in Template /\ row.row = tmpl[t].row /\ row.freq = f
        /\ row.first = tmpl[t].first /\ row.next = tmpl[t].next /\ row.count = tmpl[t].count
    <3>1. tmpl[t] \in Template /\ e \in Dates \union {NoEnd} /\ f \in Frequencies
      BY <1>1, <1>4, EndsAssumption
    <3> QED
      BY <3>1 DEF Template
  <2> HIDE DEF row
  <2> QED
    BY <1>4, <2>1, <2>2 DEF There
<1>5. ASSUME NEW t \in Templates, NEW first \in Firsts, NEW f \in Frequencies, NEW e \in Ends,
             CreateTemplate(t, first, f, e)
      PROVE  \E row \in Template : Writes(t, row)
  <2>1. PICK row : row = NewTemplate(first, f, e)
    OBVIOUS
  <2>2. tmpl' = [tmpl EXCEPT ![t] = row] /\ tmpl[t].row = "absent"
    BY <1>5, <2>1 DEF CreateTemplate
  <2>3. row \in Template /\ row.row = "there" /\ row.freq = f /\ row.count = 0 /\ row.first = row.next
    <3>1. /\ NewTemplate(first, f, e) \in Template /\ NewTemplate(first, f, e).row = "there"
          /\ NewTemplate(first, f, e).freq = f /\ NewTemplate(first, f, e).count = 0
          /\ NewTemplate(first, f, e).first = first /\ NewTemplate(first, f, e).next = first
      BY ONLY <1>5, NewTemplateType
    <3> QED
      BY ONLY <2>1, <3>1
  <2> QED
    BY <1>5, <2>2, <2>3
<1> HIDE DEF Writes
<1>6. PICK t \in Templates : \E row \in Template : Writes(t, row)
  BY <1>2, <1>3, <1>4, <1>5 DEF UserStep
<1> QED
  BY <1>6 DEF Writes

LEMMA OutsideKeeps ==
    ASSUME GenInv, UserStep \/ (\E l \in Locks : MoveLock(l)) \/ Tick \/ UNCHANGED vars
    PROVE  GenInv' /\ UNCHANGED <<gen, docs, history>>
<1>1. /\ UNCHANGED <<gen, docs, history>> /\ UNCHANGED failures
      /\ byHand' = byHand \/ ByHand
  BY DEF UserStep, SetActive, CreateTemplate, Update, Delete, MoveLock, Tick, vars, bounds
<1>2. /\ tmpl \in [Templates -> Template] /\ today \in Dates /\ lock \in Int
      /\ byHand \in 0..MaxByHand /\ \A t \in Templates : There(t) => tmpl[t].freq \in Frequencies
  BY DEF GenInv, GenTypeOK
<1>3. /\ tmpl' \in [Templates -> Template]
      /\ \A t \in Templates : There(t)' => tmpl'[t].freq \in Frequencies
  <2>1. CASE UserStep
    BY <1>2, <2>1, UserWrites DEF There
  <2>2. CASE ~UserStep
    BY <1>2, <2>2 DEF MoveLock, Tick, vars, There
  <2> QED
    BY <2>1, <2>2
<1>4. today' \in Dates /\ lock' \in Int
  <2>1. CASE UserStep \/ UNCHANGED vars
    BY <1>2, <2>1 DEF UserStep, SetActive, CreateTemplate, Update, Delete, vars
  <2> QED
    BY <1>2, <2>1, DatesAssumption, EndsAssumption DEF MoveLock, Tick, Dates
<1>5. byHand' \in 0..MaxByHand
  BY <1>1, <1>2, BoundsAssumption DEF ByHand
<1> QED
  BY <1>1, <1>3, <1>4, <1>5 DEF GenInv, GenTypeOK, Held, history

LEMMA GenStarts == Init => GenInv
<1> SUFFICES ASSUME Init PROVE GenInv
  OBVIOUS
<1>1. NoTemplate \in Template
  <2>1. Start \in Dates /\ Start \in Int
    BY DatesAssumption DEF Dates
  <2> QED
    BY <2>1 DEF NoTemplate, Template
<1>2. 0 \in 0..MaxByHand /\ 0 \in 0..MaxFailures /\ Start \in Dates /\ NoDate \in Int
  BY BoundsAssumption, DatesAssumption DEF Dates, NoDate
<1>3. /\ tmpl \in [Templates -> Template] /\ docs \in [Templates -> [Dates -> Nat]]
      /\ gen \in [Generators -> Request]
  BY <1>1, RequestTypes DEF Init
<1> QED
  BY <1>2, <1>3, RequestTypes DEF Init, GenInv, GenTypeOK, Held, There, NoTemplate

LEMMA GenKeeps == GenInv /\ [Next]_vars => GenInv'
<1> SUFFICES ASSUME GenInv, [Next]_vars PROVE GenInv'
  OBVIOUS
<1>1. ASSUME NEW g \in Generators, GenerateDue(g) \/ Asked(g) \/ Work(g) \/ Fail(g)
      PROVE  GenInv'
  BY <1>1, StartsKeep, ReadingKeeps, RefusedKeeps, CreateKeeps, MoveKeeps, FailKeeps DEF Work
<1> QED
  BY <1>1, OutsideKeeps DEF Next

LEMMA GenInvariant == Spec => []GenInv
BY GenStarts, GenKeeps, PTL DEF Spec

\* Rows, documents and requests keep their types, and a generator at work has a
\* template: for any templates and any number of generators.
THEOREM GenTypes == Spec => []GenTypeOK
<1>1. GenInv => GenTypeOK
  BY DEF GenInv
<1> QED
  BY <1>1, GenInvariant, PTL

-----------------------------------------------------------------------------
(* Rows and requests again *)

\* What passes over, is refused or fails lets its template go.
LEMMA LetGo ==
    ASSUME GenInv, NEW g \in Generators,
           (\E t \in Templates : PassOver(g, t)) \/ InsertRefused(g) \/ Fail(g)
    PROVE  /\ \E request \in Request :
                 /\ gen' = [gen EXCEPT ![g] = request] /\ request.step \in {"idle", "listed"}
                 /\ request.template = None
           /\ UNCHANGED <<tmpl, docs, periods, named>>
<1>1. gen[g] \in Request
  BY DEF GenInv, GenTypeOK
<1>2. \E request \in Request : gen' = [gen EXCEPT ![g] = Rest(request)] \/ gen' = [gen EXCEPT ![g] = NoRequest]
  <2>1. ASSUME NEW t \in Templates, PassOver(g, t)
        PROVE  \E request \in Request : gen' = [gen EXCEPT ![g] = Rest(request)]
    <3>1. [gen[g] EXCEPT !.due = @ \ {t}] \in Request
      BY <1>1 DEF Request
    <3> QED
      BY <2>1, <3>1 DEF PassOver, AfterError
  <2>2. CASE InsertRefused(g)
    BY <1>1, <2>2 DEF InsertRefused, AfterError
  <2>3. CASE Fail(g)
    BY <1>1, <2>3 DEF Fail
  <2> QED
    BY <2>1, <2>2, <2>3
<1>3. UNCHANGED <<tmpl, docs, periods, named>>
  BY DEF PassOver, InsertRefused, Fail, history
<1> QED
  BY <1>2, <1>3, RestType, RequestTypes

\* What reading leaves of the request.
LEMMA ReadLeaves ==
    ASSUME GenInv, NEW g \in Generators, NEW t \in Templates, ReadTemplate(g, t)
    PROVE  /\ \E request \in Request :
                 /\ gen' = [gen EXCEPT ![g] = request] /\ request.step = "read"
                 /\ request.template = t /\ request.asked = gen[g].asked
                 /\ request.date = EntryDate(g, t)
           /\ gen[g].step = "listed" /\ There(t) /\ t \in Serves[g]
           /\ UNCHANGED <<tmpl, docs, history>>
<1>1. gen \in [Generators -> Request] /\ gen[g] \in Request /\ tmpl[t] \in Template /\ Held(g)
  BY DEF GenInv, GenTypeOK
<1> DEFINE request == [gen[g] EXCEPT !.step = "read", !.due = @ \ {t}, !.template = t,
                                     !.date = EntryDate(g, t), !.freq = tmpl[t].freq]
<1>2. /\ gen' = [gen EXCEPT ![g] = request] /\ EntryDate(g, t) \in Dates /\ There(t)
      /\ gen[g].step = "listed" /\ t \in gen[g].due /\ UNCHANGED <<tmpl, docs, history>>
  BY DEF ReadTemplate, MayGenerate
<1>3. /\ request \in Request /\ request.step = "read" /\ request.template = t
      /\ request.asked = gen[g].asked /\ request.date = EntryDate(g, t)
  BY <1>1, <1>2 DEF Request, Template
<1> HIDE DEF request
<1> QED
  BY <1>1, <1>2, <1>3 DEF Held

LEMMA CreateLeaves ==
    ASSUME GenInv, NEW g \in Generators, CreateDocument(g)
    PROVE  \E request \in Request :
              /\ gen' = [gen EXCEPT ![g] = request] /\ request.step = "created"
              /\ request.template = gen[g].template /\ request.date = gen[g].date
              /\ request.freq = gen[g].freq /\ request.asked = gen[g].asked
<1>1. gen \in [Generators -> Request] /\ gen[g] \in Request
  BY DEF GenInv, GenTypeOK
<1> DEFINE request == [gen[g] EXCEPT !.step = "created"]
<1>2. gen' = [gen EXCEPT ![g] = request]
  BY <1>1 DEF CreateDocument
<1>3. /\ request \in Request /\ request.step = "created" /\ request.template = gen[g].template
      /\ request.date = gen[g].date /\ request.freq = gen[g].freq /\ request.asked = gen[g].asked
  BY <1>1 DEF Request
<1> HIDE DEF request
<1> QED
  BY <1>2, <1>3

\* A row that is there stays, or is deleted; its schedule begins where it began.
LEMMA RowsStay ==
    ASSUME GenInv, [Next]_vars, NEW t \in Templates, tmpl[t].row # "absent"
    PROVE  tmpl'[t].row # "absent" /\ tmpl'[t].first = tmpl[t].first
<1>1. ASSUME NEW g \in Generators, MoveOn(g) \/ CountInvoice(g)
      PROVE  tmpl'[t].row = tmpl[t].row /\ tmpl'[t].first = tmpl[t].first
  <2>1. PICK u \in Templates : u = gen[g].template
    BY <1>1, AtWork DEF MoveOn, CountInvoice
  <2> QED
    BY <1>1, <2>1, MoveWrites
<1>2. CASE UserStep
  <2>1. tmpl \in [Templates -> Template]
    BY DEF GenInv, GenTypeOK
  <2> QED
    BY <1>2, <2>1, UserWrites
<1>3. CASE UNCHANGED tmpl
  BY <1>3
<1>4. ASSUME NEW g \in Generators, GenerateDue(g) \/ Asked(g) \/ Work(g) \/ Fail(g),
             ~(MoveOn(g) \/ CountInvoice(g))
      PROVE  UNCHANGED tmpl
  BY <1>4, StartsListed DEF Work, ReadTemplate, PassOver, InsertRefused, CreateDocument, Fail
<1> QED
  BY <1>1, <1>2, <1>3, <1>4 DEF Next, MoveLock, Tick, vars

\* Nobody works on a template that is not there yet.
Present == \A g \in Generators : gen[g].template # None => tmpl[gen[g].template].row # "absent"

LEMMA PresentKeeps == GenInv /\ Present /\ [Next]_vars => Present'
<1> SUFFICES ASSUME GenInv, Present, [Next]_vars PROVE Present'
  OBVIOUS
<1>0. gen \in [Generators -> Request] /\ \A g \in Generators : gen[g].template # None => gen[g].template \in Templates
  BY DEF GenInv, GenTypeOK, Request
<1>1. ASSUME NEW g \in Generators, NEW request, gen' = [gen EXCEPT ![g] = request],
             \/ request.template = None \/ request.template = gen[g].template
             \/ request.template \in Templates /\ There(request.template)
      PROVE  Present'
  <2>1. gen'[g] = request /\ \A h \in Generators \ {g} : gen'[h] = gen[h]
    BY <1>0, <1>1
  <2>2. ASSUME NEW h \in Generators, gen'[h].template # None
        PROVE  gen'[h].template \in Templates /\ tmpl[gen'[h].template].row # "absent"
    BY <1>0, <1>1, <2>1, <2>2 DEF Present, There
  <2> QED
    BY <2>2, RowsStay DEF Present
<1>2. CASE UNCHANGED gen
  BY <1>0, <1>2, RowsStay DEF Present
<1>3. ASSUME NEW g \in Generators, GenerateDue(g) \/ Asked(g)
      PROVE  Present'
  BY <1>1, <1>3, StartsListed
<1>4. ASSUME NEW g \in Generators, NEW t \in Templates, ReadTemplate(g, t)
      PROVE  Present'
  BY <1>1, <1>4, ReadLeaves
<1>5. ASSUME NEW g \in Generators, (\E t \in Templates : PassOver(g, t)) \/ InsertRefused(g) \/ Fail(g)
      PROVE  Present'
  BY <1>1, <1>5, LetGo
<1>6. ASSUME NEW g \in Generators, CreateDocument(g)
      PROVE  Present'
  BY <1>1, <1>6, CreateLeaves
<1>7. ASSUME NEW g \in Generators, MoveOn(g) \/ CountInvoice(g)
      PROVE  Present'
  <2>1. PICK t \in Templates : t = gen[g].template
    BY <1>7, AtWork DEF MoveOn, CountInvoice
  <2>2. CASE gen' = [gen EXCEPT ![g] = Rest(gen[g])]
    BY <1>0, <1>1, <2>2, RestType
  <2>3. CASE gen' = [gen EXCEPT ![g].step = "moved"]
    <3>1. [gen[g] EXCEPT !.step = "moved"].template = gen[g].template
      BY <1>0 DEF Request
    <3>2. gen' = [gen EXCEPT ![g] = [gen[g] EXCEPT !.step = "moved"]]
      BY <1>0, <2>3
    <3> QED
      BY <1>1, <3>1, <3>2
  <2> QED
    BY <1>7, <2>1, <2>2, <2>3, MoveLeaves
<1>8. CASE UserStep \/ (\E l \in Locks : MoveLock(l)) \/ Tick \/ UNCHANGED vars
  BY <1>2, <1>8, OutsideKeeps
<1> QED
  BY <1>3, <1>4, <1>5, <1>6, <1>7, <1>8 DEF Next, Work

LEMMA PresentInvariant == Spec => []Present
<1>1. Init => Present
  BY RequestTypes DEF Init, Present
<1> QED
  BY <1>1, PresentKeeps, GenInvariant, PTL DEF Spec

-----------------------------------------------------------------------------
(* No day is passed over *)

Passed(t, d) == Covered(t, d) \/ \E r \in named[t] : r > d

PassedUpTo(t, last) == \A d \in tmpl[t].first..last - 1 : Passed(t, d)

\* What a generator will move its template to leaves no day behind.
Safe(g) ==
    /\ gen[g].step = "read" /\ gen[g].asked = NoDate => PassedUpTo(gen[g].template, gen[g].date)
    /\ gen[g].step = "created" => PassedUpTo(gen[g].template, NextAfter(gen[g]))

CoverInv == (\A t \in Templates : PassedUpTo(t, tmpl[t].next)) /\ \A g \in Generators : Safe(g)

\* Documents and requests are not taken back.
LEMMA PassedStays ==
    ASSUME GenInv, [Next]_vars, NEW t \in Templates, NEW d, Passed(t, d)
    PROVE  Passed(t, d)'
<1>1. ASSUME NEW g \in Generators, CreateDocument(g)
      PROVE  Passed(t, d)'
  <2>1. PICK u \in Templates, e \in Dates, f \in Frequencies :
           u = gen[g].template /\ e = gen[g].date /\ f = gen[g].freq
    BY <1>1, AtWork DEF CreateDocument
  <2>2. /\ periods' = [periods EXCEPT ![u] = @ \union {<<e, f>>}]
        /\ named' = IF gen[g].asked = NoDate THEN named ELSE [named EXCEPT ![u] = @ \union {e}]
        /\ periods \in [Templates -> SUBSET (Dates \X Frequencies)]
        /\ named \in [Templates -> SUBSET Dates]
    BY <1>1, <2>1 DEF CreateDocument, GenInv, GenTypeOK
  <2>3. periods[t] \subseteq periods'[t] /\ named[t] \subseteq named'[t]
    BY <2>2
  <2> QED
    BY <2>3 DEF Passed, Covered
<1>2. CASE UNCHANGED <<periods, named>>
  BY <1>2 DEF Passed, Covered
<1>3. ASSUME NEW g \in Generators, GenerateDue(g) \/ Asked(g)
      PROVE  UNCHANGED <<periods, named>>
  BY <1>3, StartsListed DEF history
<1>4. ASSUME NEW g \in Generators, Work(g) \/ Fail(g), ~CreateDocument(g)
      PROVE  UNCHANGED <<periods, named>>
  BY <1>4 DEF Work, ReadTemplate, PassOver, InsertRefused, MoveOn, CountInvoice, Fail, history
<1>5. CASE UserStep \/ (\E l \in Locks : MoveLock(l)) \/ Tick \/ UNCHANGED vars
  BY <1>2, <1>5, OutsideKeeps DEF history
<1> QED
  BY <1>1, <1>2, <1>3, <1>4, <1>5 DEF Next

LEMMA PassedUpToStays ==
    ASSUME GenInv, [Next]_vars, NEW t \in Templates, NEW last, PassedUpTo(t, last),
           tmpl'[t].first = tmpl[t].first
    PROVE  PassedUpTo(t, last)'
BY PassedStays DEF PassedUpTo

\* What a step leaves alone stays covered.
LEMMA CoverStays ==
    ASSUME GenInv, Present, CoverInv, [Next]_vars,
           \A t \in Templates :
              \/ tmpl'[t].first = tmpl[t].first /\ tmpl'[t].next = tmpl[t].next
              \/ PassedUpTo(t, tmpl[t].next)',
           \A g \in Generators : gen'[g] = gen[g] \/ Safe(g)'
    PROVE  CoverInv'
<1>1. ASSUME NEW t \in Templates, tmpl'[t].first = tmpl[t].first, tmpl'[t].next = tmpl[t].next
      PROVE  PassedUpTo(t, tmpl[t].next)'
  <2>1. PICK last : last = tmpl[t].next
    OBVIOUS
  <2>2. PassedUpTo(t, last)'
    BY <1>1, <2>1, PassedUpToStays DEF CoverInv
  <2> QED
    BY <1>1, <2>1, <2>2
<1>2. ASSUME NEW g \in Generators, gen'[g] = gen[g]
      PROVE  Safe(g)'
  <2>1. ASSUME gen[g].step \in {"read", "created"}, NEW last, PassedUpTo(gen[g].template, last)
        PROVE  PassedUpTo(gen[g].template, last)'
    <3>1. PICK t \in Templates : t = gen[g].template /\ t # None
      BY <2>1, AtWork, KindsAssumption
    <3>2. tmpl'[t].first = tmpl[t].first
      BY <3>1, RowsStay DEF Present
    <3>3. PassedUpTo(t, last)'
      BY <2>1, <3>1, <3>2, PassedUpToStays
    <3> QED
      BY <1>2, <3>1, <3>3
  <2>2. Safe(g)
    BY DEF CoverInv
  <2>3. ASSUME gen[g].step = "read", gen[g].asked = NoDate
        PROVE  PassedUpTo(gen[g].template, gen[g].date)'
    <3>1. PICK last : last = gen[g].date
      OBVIOUS
    <3>2. PassedUpTo(gen[g].template, last)'
      BY <2>1, <2>2, <2>3, <3>1 DEF Safe
    <3> QED
      BY <1>2, <3>1, <3>2
  <2>4. ASSUME gen[g].step = "created"
        PROVE  PassedUpTo(gen[g].template, NextAfter(gen[g]))'
    <3>1. PICK last : last = NextAfter(gen[g])
      OBVIOUS
    <3>2. PassedUpTo(gen[g].template, last)'
      BY <2>1, <2>2, <2>4, <3>1 DEF Safe
    <3>3. NextAfter(gen'[g]) = last
      BY <1>2, <3>1
    <3> QED
      BY <3>2, <3>3
  <2> QED
    BY <1>2, <2>3, <2>4 DEF Safe
<1> QED
  BY <1>1, <1>2 DEF CoverInv

LEMMA CoverRead ==
    ASSUME GenInv, Present, CoverInv, NEW g \in Generators, NEW t \in Templates, ReadTemplate(g, t)
    PROVE  CoverInv'
<1>1. /\ gen'[g].step = "read" /\ gen'[g].template = t /\ gen'[g].asked = gen[g].asked
      /\ gen'[g].date = EntryDate(g, t) /\ UNCHANGED <<tmpl, docs, history>>
      /\ \A h \in Generators \ {g} : gen'[h] = gen[h]
  BY ReadLeaves DEF GenInv, GenTypeOK
<1>2. [Next]_vars
  BY DEF Next, Work
<1>3. gen'[g].asked = NoDate => PassedUpTo(t, gen[g].date)'
  <2> SUFFICES ASSUME gen'[g].asked = NoDate PROVE PassedUpTo(t, gen[g].date)'
    OBVIOUS
  <2>1. PICK last : last = tmpl[t].next
    OBVIOUS
  <2>2. PassedUpTo(t, last)'
    BY <1>1, <1>2, <2>1, PassedUpToStays DEF CoverInv
  <2>3. gen'[g].date = last
    BY <1>1, <2>1 DEF EntryDate
  <2> QED
    BY <2>2, <2>3
<1>4. Safe(g)'
  BY <1>1, <1>3 DEF Safe
<1> QED
  BY <1>1, <1>2, <1>4, CoverStays

LEMMA CoverCreate ==
    ASSUME GenInv, Present, CoverInv, NEW g \in Generators, CreateDocument(g)
    PROVE  CoverInv'
<1>1. PICK t \in Templates, e \in Dates, f \in Frequencies :
         t = gen[g].template /\ e = gen[g].date /\ f = gen[g].freq
  BY AtWork DEF CreateDocument
<1>2. /\ gen[g].step = "read" /\ periods' = [periods EXCEPT ![t] = @ \union {<<e, f>>}]
      /\ named' = IF gen[g].asked = NoDate THEN named ELSE [named EXCEPT ![t] = @ \union {e}]
      /\ tmpl' = tmpl
      /\ periods \in [Templates -> SUBSET (Dates \X Frequencies)] /\ named \in [Templates -> SUBSET Dates]
  BY <1>1 DEF CreateDocument, GenInv, GenTypeOK
<1>3. /\ gen'[g].step = "created" /\ gen'[g].template = t /\ NextAfter(gen'[g]) = CalculateNextDate(f, e)
      /\ \A h \in Generators \ {g} : gen'[h] = gen[h]
  BY <1>1, CreateLeaves DEF GenInv, GenTypeOK, NextAfter
<1>4. [Next]_vars
  BY DEF Next, Work
<1>5. PICK last \in Int : last = CalculateNextDate(f, e) /\ last > e
  BY NextIsLater
<1>6. tmpl[t].first \in Int /\ e \in Int
  BY DatesAssumption DEF GenInv, GenTypeOK, Template, Dates
<1>7. ASSUME NEW d \in tmpl[t].first..last - 1
      PROVE  Passed(t, d)'
  <2>1. CASE d >= e
    <3>1. <<e, f>> \in periods'[t]
      BY <1>2
    <3>2. d \in e..CalculateNextDate(f, e) - 1
      BY <1>5, <1>6, <1>7, <2>1
    <3>3. <<e, f>>[1] = e /\ <<e, f>>[2] = f
      OBVIOUS
    <3> QED
      BY <3>1, <3>2, <3>3 DEF Passed, Covered
  <2>2. CASE d < e /\ gen[g].asked # NoDate
    <3>1. e \in named'[t] /\ e > d
      BY <1>2, <1>6, <1>7, <2>2
    <3> QED
      BY <3>1 DEF Passed
  <2>3. CASE d < e /\ gen[g].asked = NoDate
    <3>1. d \in tmpl[t].first..e - 1
      BY <1>6, <1>7, <2>3
    <3>2. Passed(t, d)
      BY <1>1, <1>2, <2>3, <3>1 DEF CoverInv, Safe, PassedUpTo
    <3> QED
      BY <1>4, <3>2, PassedStays
  <2> QED
    BY <1>6, <1>7, <2>1, <2>2, <2>3
<1>8. PassedUpTo(t, last)'
  BY <1>2, <1>7 DEF PassedUpTo
<1>9. PassedUpTo(gen[g].template, NextAfter(gen[g]))'
  BY <1>3, <1>5, <1>8
<1>10. Safe(g)'
  BY <1>3, <1>9 DEF Safe
<1> QED
  BY <1>2, <1>3, <1>4, <1>10, CoverStays

LEMMA CoverMove ==
    ASSUME GenInv, Present, CoverInv, NEW g \in Generators, MoveOn(g) \/ CountInvoice(g)
    PROVE  CoverInv'
<1>1. PICK t \in Templates : t = gen[g].template
  BY AtWork DEF MoveOn, CountInvoice
<1>2. gen \in [Generators -> Request] /\ gen[g] \in Request
  BY DEF GenInv, GenTypeOK
<1>3. [Next]_vars
  BY DEF Next, Work
<1>4. gen'[g].step \notin {"read", "created"} /\ \A h \in Generators \ {g} : gen'[h] = gen[h]
  <2>1. \/ gen' = [gen EXCEPT ![g].step = "moved"]
        \/ gen' = [gen EXCEPT ![g] = Rest(gen[g])]
    BY <1>1, MoveLeaves
  <2>2. Rest(gen[g]).step \in {"idle", "listed"}
    BY <1>2, RestType
  <2> QED
    BY <1>2, <2>1, <2>2 DEF Request
<1>5. /\ \A u \in Templates \ {t} : tmpl'[u] = tmpl[u]
      /\ tmpl'[t].first = tmpl[t].first
      /\ tmpl'[t].next = IF MoveOn(g) /\ There(t) THEN NextAfter(gen[g]) ELSE tmpl[t].next
  BY <1>1, MoveWrites
<1>6. CASE MoveOn(g) /\ There(t)
  <2>1. PICK last : last = NextAfter(gen[g])
    OBVIOUS
  <2>2. PassedUpTo(t, last)
    BY <1>1, <1>6, <2>1 DEF MoveOn, CoverInv, Safe
  <2>3. PassedUpTo(t, last)'
    BY <1>3, <1>5, <2>2, PassedUpToStays
  <2>4. PassedUpTo(t, tmpl[t].next)'
    BY <1>5, <1>6, <2>1, <2>3
  <2> QED
    BY <1>3, <1>4, <1>5, <2>4, CoverStays DEF Safe
<1>7. CASE ~(MoveOn(g) /\ There(t))
  BY <1>3, <1>4, <1>5, <1>7, CoverStays DEF Safe
<1> QED
  BY <1>6, <1>7

LEMMA CoverKeeps == GenInv /\ Present /\ CoverInv /\ [Next]_vars => CoverInv'
<1> SUFFICES ASSUME GenInv, Present, CoverInv, [Next]_vars PROVE CoverInv'
  OBVIOUS
<1>0. gen \in [Generators -> Request] /\ tmpl \in [Templates -> Template]
  BY DEF GenInv, GenTypeOK
<1>1. ASSUME NEW g \in Generators, UNCHANGED tmpl, NEW request \in Request,
             gen' = [gen EXCEPT ![g] = request], request.step \in {"idle", "listed"}
      PROVE  CoverInv'
  <2>1. gen'[g] = request /\ \A h \in Generators \ {g} : gen'[h] = gen[h]
    BY <1>0, <1>1
  <2> QED
    BY <1>1, <2>1, CoverStays DEF Safe
<1>2. ASSUME NEW g \in Generators, GenerateDue(g) \/ Asked(g)
      PROVE  CoverInv'
  BY <1>1, <1>2, StartsListed
<1>3. ASSUME NEW g \in Generators, (\E t \in Templates : PassOver(g, t)) \/ InsertRefused(g) \/ Fail(g)
      PROVE  CoverInv'
  BY <1>1, <1>3, LetGo
<1>4. CASE UserStep
  <2>1. UNCHANGED gen
    BY <1>4, OutsideKeeps
  <2>2. PICK u \in Templates, row \in Template :
           /\ tmpl' = [tmpl EXCEPT ![u] = row]
           /\ \/ row.first = tmpl[u].first /\ row.next = tmpl[u].next
              \/ row.first = row.next
    BY <1>4, UserWrites
  <2>3. ASSUME row.first = row.next PROVE PassedUpTo(u, tmpl[u].next)'
    <3>1. row.first \in Int
      BY DatesAssumption DEF Template, Dates
    <3>2. tmpl'[u] = row
      BY <1>0, <2>2
    <3> QED
      BY <2>3, <3>1, <3>2 DEF PassedUpTo
  <2> QED
    BY <1>0, <2>1, <2>2, <2>3, CoverStays
<1>5. CASE (\E l \in Locks : MoveLock(l)) \/ Tick \/ UNCHANGED vars
  <2>1. UNCHANGED <<gen, tmpl>>
    BY <1>5 DEF MoveLock, Tick, vars
  <2> QED
    BY <2>1, CoverStays
<1> QED
  BY <1>2, <1>3, <1>4, <1>5, CoverRead, CoverCreate, CoverMove DEF Next, Work

\* However many jobs and requests run at once, wherever they stop, however the
\* frequency changes, and whatever the months: the schedule of a template passes
\* over no day without a document for it or a request for a later date
\* (recurring/service.go:437, recurring/types.go:115, accounting/service.go:526).
THEOREM NoPeriodIsSkipped == Spec => []NoPeriodSkipped
<1>1. Init => CoverInv
  <2> SUFFICES ASSUME Init PROVE CoverInv
    OBVIOUS
  <2>1. \A g \in Generators : gen[g].step = "idle"
    BY RequestTypes DEF Init
  <2>2. \A t \in Templates : tmpl[t].first = Start /\ tmpl[t].next = Start
    BY DEF Init, NoTemplate
  <2> QED
    BY <2>1, <2>2, DatesAssumption DEF CoverInv, Safe, PassedUpTo
<1>2. CoverInv => NoPeriodSkipped
  BY DEF CoverInv, PassedUpTo, Passed, NoPeriodSkipped
<1> QED
  BY <1>1, <1>2, CoverKeeps, GenInvariant, PresentInvariant, PTL DEF Spec

-----------------------------------------------------------------------------
(* One request at a time *)

AtWorkOn(g, t) == g \notin Jobs /\ gen[g].step \in {"read", "created"} /\ gen[g].template = t

InHand(t, d) == \E g \in Generators : AtWorkOn(g, t) /\ gen[g].step = "created" /\ gen[g].date = d

\* From the next date on there are only the documents that a request has in hand
\* or left half-way.  This ends when a deleted template is let go.
Once(t) ==
    /\ tmpl[t].row = "absent" => \A d \in Dates : docs[t][d] <= halfway[t][d]
    /\ \A d \in Dates : docs[t][d] <= 1 + halfway[t][d]
    /\ tmpl[t].row # "deleted" \/ (\E g \in Generators : AtWorkOn(g, t)) =>
          \A d \in Dates : d >= tmpl[t].next =>
              docs[t][d] <= halfway[t][d] \/ (InHand(t, d) /\ docs[t][d] <= 1 + halfway[t][d])
    /\ \A g \in Generators :
          AtWorkOn(g, t) /\ (gen[g].step = "created" \/ gen[g].asked = NoDate) =>
              gen[g].date = tmpl[t].next

OnceInv == \A t \in Templates : Alone(t) /\ named[t] = {} => Once(t)

\* A step that is not about the document in hand.
LEMMA OnceStays ==
    ASSUME Present, NEW t \in Templates, Once(t),
           tmpl'[t].next = tmpl[t].next \/ tmpl[t].row = "absent",
           tmpl'[t].row = "absent" => tmpl[t].row = "absent",
           tmpl[t].row = "deleted" => tmpl'[t].row = "deleted",
           docs'[t] = docs[t], halfway'[t] = halfway[t],
           \A g \in Generators : gen'[g] = gen[g] \/ (~AtWorkOn(g, t) /\ ~AtWorkOn(g, t)')
    PROVE  Once(t)'
<1>1. ASSUME NEW g \in Generators, AtWorkOn(g, t)' PROVE gen'[g] = gen[g] /\ AtWorkOn(g, t)
  BY <1>1 DEF AtWorkOn
<1>2. ASSUME NEW g \in Generators, AtWorkOn(g, t) PROVE gen'[g] = gen[g] /\ AtWorkOn(g, t)'
  BY <1>2 DEF AtWorkOn
<1>3. \A d : InHand(t, d) => InHand(t, d)'
  BY <1>2 DEF InHand
<1>4. (\E g \in Generators : AtWorkOn(g, t)') => \E g \in Generators : AtWorkOn(g, t)
  BY <1>1
<1>5. \A d \in Dates : docs'[t][d] <= 1 + halfway'[t][d]
  BY DEF Once
<1>6. ASSUME tmpl'[t].row # "deleted" \/ (\E g \in Generators : AtWorkOn(g, t)'),
             NEW d \in Dates, d >= tmpl'[t].next
      PROVE  docs'[t][d] <= halfway'[t][d] \/ (InHand(t, d)' /\ docs'[t][d] <= 1 + halfway'[t][d])
  <2>1. CASE tmpl[t].row = "absent"
    BY <1>6, <2>1 DEF Once
  <2>2. CASE tmpl'[t].next = tmpl[t].next
    BY <1>3, <1>4, <1>6, <2>2 DEF Once
  <2> QED
    BY <2>1, <2>2
<1>7. ASSUME NEW g \in Generators, AtWorkOn(g, t)', gen'[g].step = "created" \/ gen'[g].asked = NoDate
      PROVE  gen'[g].date = tmpl'[t].next
  <2>1. AtWorkOn(g, t) /\ gen'[g] = gen[g]
    BY <1>1, <1>7
  <2>2. tmpl[t].row # "absent"
    BY <2>1, KindsAssumption DEF AtWorkOn, Present
  <2> QED
    BY <1>7, <2>1, <2>2 DEF Once
<1>8. tmpl'[t].row = "absent" => \A d \in Dates : docs'[t][d] <= halfway'[t][d]
  BY DEF Once
<1> QED
  BY <1>5, <1>6, <1>7, <1>8 DEF Once

LEMMA OnlyOne ==
    ASSUME GenInv, NEW t \in Templates, Alone(t), NEW g \in Generators, AtWorkOn(g, t)
    PROVE  /\ \A h \in Generators \ {g} : ~AtWorkOn(h, t)
           /\ gen[g].template = t /\ t # None /\ gen[g].date \in Dates
<1>1. \A h \in Generators : AtWorkOn(h, t) => t \in Serves[h]
  BY KindsAssumption DEF AtWorkOn, GenInv, Held
<1> QED
  BY <1>1, AtWork, KindsAssumption DEF Alone, AtWorkOn

LEMMA NamedStays ==
    ASSUME GenInv, NEW t \in Templates, NEW g \in Generators, CreateDocument(g), named'[t] = {}
    PROVE  named[t] = {} /\ (gen[g].template = t => gen[g].asked = NoDate)
<1>1. PICK u \in Templates, d \in Dates : u = gen[g].template /\ d = gen[g].date
  BY AtWork DEF CreateDocument
<1>2. /\ named' = IF gen[g].asked = NoDate THEN named ELSE [named EXCEPT ![u] = @ \union {d}]
      /\ named \in [Templates -> SUBSET Dates]
  BY <1>1 DEF CreateDocument, GenInv, GenTypeOK
<1> QED
  BY <1>1, <1>2

LEMMA OnceRead ==
    ASSUME GenInv, Present, NEW t \in Templates, Alone(t), Once(t),
           NEW g \in Generators, NEW u \in Templates, ReadTemplate(g, u)
    PROVE  Once(t)'
<1>1. /\ UNCHANGED <<tmpl, docs, halfway>> /\ gen[g].step = "listed" /\ There(u) /\ u \in Serves[g]
  BY ReadLeaves DEF history
<1>2. /\ gen'[g].step = "read" /\ gen'[g].template = u /\ gen'[g].asked = gen[g].asked
      /\ gen'[g].date = EntryDate(g, u)
      /\ \A h \in Generators \ {g} : gen'[h] = gen[h]
  BY ReadLeaves DEF GenInv, GenTypeOK
<1>3. CASE u # t \/ g \in Jobs
  <2>1. ~AtWorkOn(g, t) /\ ~AtWorkOn(g, t)'
    BY <1>1, <1>2, <1>3 DEF AtWorkOn
  <2> QED
    BY <1>1, <1>2, <2>1, OnceStays
<1>4. CASE u = t /\ g \notin Jobs
  <2>1. \A h \in Generators : ~AtWorkOn(h, t)
    <3>1. \A h \in Generators : AtWorkOn(h, t) => t \in Serves[h]
      BY KindsAssumption DEF AtWorkOn, GenInv, Held
    <3> QED
      BY <1>1, <1>4, <3>1 DEF Alone, AtWorkOn
  <2>2. ASSUME NEW d \in Dates, d >= tmpl[t].next PROVE docs[t][d] <= halfway[t][d]
    BY <1>1, <1>4, <2>1, <2>2 DEF Once, There, InHand
  <2>3. ASSUME NEW h \in Generators, AtWorkOn(h, t)', gen'[h].step = "created" \/ gen'[h].asked = NoDate
        PROVE  gen'[h].date = tmpl[t].next
    <3>1. h = g
      BY <1>2, <2>1, <2>3 DEF AtWorkOn
    <3> QED
      BY <1>2, <1>4, <2>3, <3>1 DEF EntryDate
  <2> QED
    BY <1>1, <1>4, <2>2, <2>3 DEF Once, There
<1> QED
  BY <1>3, <1>4

LEMMA OnceCreate ==
    ASSUME GenInv, Present, NEW t \in Templates, Alone(t), Once(t),
           NEW g \in Generators, CreateDocument(g), named'[t] = {}
    PROVE  Once(t)'
<1>1. PICK u \in Templates, e \in Dates : u = gen[g].template /\ e = gen[g].date
  BY AtWork DEF CreateDocument
<1>2. /\ gen[g].step = "read" /\ docs' = [docs EXCEPT ![u][e] = @ + 1]
      /\ g \notin Jobs /\ tmpl' = tmpl /\ halfway' = halfway
      /\ docs \in [Templates -> [Dates -> Nat]] /\ halfway \in [Templates -> [Dates -> Nat]]
  BY <1>1 DEF CreateDocument, GenInv, GenTypeOK
<1>3. /\ gen'[g].step = "created" /\ gen'[g].template = u /\ gen'[g].date = e
      /\ \A h \in Generators \ {g} : gen'[h] = gen[h]
  BY <1>1, CreateLeaves DEF GenInv, GenTypeOK
<1>4. CASE u # t
  <2>1. docs'[t] = docs[t] /\ ~AtWorkOn(g, t) /\ ~AtWorkOn(g, t)'
    BY <1>1, <1>2, <1>3, <1>4 DEF AtWorkOn
  <2> QED
    BY <1>2, <1>3, <2>1, OnceStays
<1>5. CASE u = t
  <2>1. AtWorkOn(g, t) /\ \A h \in Generators \ {g} : ~AtWorkOn(h, t)
    <3>1. AtWorkOn(g, t)
      BY <1>1, <1>2, <1>5 DEF AtWorkOn
    <3> QED
      BY <3>1, OnlyOne
  <2>2. gen[g].asked = NoDate /\ e = tmpl[t].next
    BY <1>1, <1>5, <2>1, NamedStays DEF Once
  <2>3. ASSUME NEW d \in Dates, d >= tmpl[t].next PROVE docs[t][d] <= halfway[t][d]
    <3>1. ~InHand(t, d)
      BY <1>2, <2>1 DEF InHand
    <3> QED
      BY <2>1, <2>3, <3>1 DEF Once
  <2>4. InHand(t, e)'
    BY <1>2, <1>3, <1>5 DEF InHand, AtWorkOn
  <2>5. /\ docs'[t][e] = docs[t][e] + 1 /\ \A d \in Dates \ {e} : docs'[t][d] = docs[t][d]
        /\ docs[t][e] \in Nat /\ halfway[t][e] \in Nat
    BY <1>2, <1>5
  <2>6. docs[t][e] <= halfway[t][e] /\ docs'[t][e] <= 1 + halfway[t][e]
    <3>1. e \in Int
      BY DatesAssumption DEF Dates
    <3>2. docs[t][e] <= halfway[t][e]
      BY <2>2, <2>3, <3>1
    <3> QED
      BY <2>5, <3>2
  <2>7. \A d \in Dates : docs'[t][d] <= 1 + halfway'[t][d]
    BY <1>2, <2>5, <2>6 DEF Once
  <2>8. ASSUME NEW d \in Dates, d >= tmpl[t].next
        PROVE  docs'[t][d] <= halfway'[t][d] \/ (InHand(t, d)' /\ docs'[t][d] <= 1 + halfway'[t][d])
    <3>1. CASE d = e
      BY <1>2, <2>4, <2>6, <3>1
    <3>2. CASE d # e
      BY <1>2, <2>3, <2>5, <2>8, <3>2
    <3> QED
      BY <3>1, <3>2
  <2>9. ASSUME NEW h \in Generators, AtWorkOn(h, t)' PROVE gen'[h].date = tmpl[t].next
    <3>1. h = g
      BY <1>3, <2>1, <2>9 DEF AtWorkOn
    <3> QED
      BY <1>3, <2>2, <3>1
  <2>10. tmpl[t].row # "absent"
    BY <2>1, KindsAssumption DEF AtWorkOn, Present
  <2> QED
    BY <1>2, <2>7, <2>8, <2>9, <2>10 DEF Once
<1> QED
  BY <1>4, <1>5

LEMMA OnceMove ==
    ASSUME GenInv, Present, NEW t \in Templates, Alone(t), Once(t), NEW g \in Generators, MoveOn(g)
    PROVE  Once(t)'
<1>1. PICK u \in Templates, e \in Dates, f \in Frequencies :
         u = gen[g].template /\ e = gen[g].date /\ f = gen[g].freq
  BY AtWork DEF MoveOn
<1>2. /\ gen[g].step = "created" /\ docs' = docs /\ halfway' = halfway /\ g \notin Jobs
      /\ gen \in [Generators -> Request] /\ gen[g] \in Request
      /\ tmpl \in [Templates -> Template]
      /\ docs \in [Templates -> [Dates -> Nat]] /\ halfway \in [Templates -> [Dates -> Nat]]
  BY DEF MoveOn, GenInv, GenTypeOK, Held, history
<1>3. /\ gen'[g].step \notin {"read", "created"} /\ \A h \in Generators \ {g} : gen'[h] = gen[h]
  <2>1. \/ gen' = [gen EXCEPT ![g] = Rest(gen[g])]
        \/ gen' = [gen EXCEPT ![g].step = "moved"]
    BY <1>1, MoveLeaves
  <2>2. Rest(gen[g]).step \in {"idle", "listed"}
    BY <1>2, RestType
  <2> QED
    BY <1>2, <2>1, <2>2 DEF Request
<1>4. ~AtWorkOn(g, t)'
  BY <1>3 DEF AtWorkOn
<1>5. PICK later \in Int : later = NextAfter(gen[g]) /\ later > e
  BY <1>1, NextIsLater DEF NextAfter
<1>6. /\ \A v \in Templates : tmpl'[v].row = tmpl[v].row
      /\ \A v \in Templates \ {u} : tmpl'[v].next = tmpl[v].next
      /\ tmpl'[u].next = IF There(u) THEN later ELSE tmpl[u].next
  BY <1>1, <1>5, MoveWrites
<1>7. CASE u # t
  <2>1. ~AtWorkOn(g, t)
    BY <1>1, <1>7 DEF AtWorkOn
  <2> QED
    BY <1>2, <1>3, <1>4, <1>6, <1>7, <2>1, OnceStays
<1>8. CASE u = t
  <2>1. AtWorkOn(g, t) /\ \A h \in Generators \ {g} : ~AtWorkOn(h, t)
    <3>1. AtWorkOn(g, t)
      BY <1>1, <1>2, <1>8 DEF AtWorkOn
    <3> QED
      BY <3>1, OnlyOne
  <2>2. e = tmpl[t].next /\ tmpl[t].row # "absent"
    BY <1>1, <1>2, <1>8, <2>1, KindsAssumption DEF Once, Present
  <2>3. \A h \in Generators : ~AtWorkOn(h, t)'
    BY <1>3, <1>4, <2>1 DEF AtWorkOn
  <2>4. ASSUME NEW d \in Dates, d >= tmpl'[t].next, There(t)
        PROVE  docs[t][d] <= halfway[t][d]
    <3>1. e \in Int /\ d \in Int /\ tmpl'[t].next > e
      BY <1>5, <1>6, <1>8, <2>4, DatesAssumption DEF Dates
    <3>2. d >= tmpl[t].next /\ d # e
      BY <1>5, <1>6, <1>8, <2>2, <2>4, <3>1
    <3>3. ~InHand(t, d)
      BY <1>1, <2>1, <3>2 DEF InHand
    <3> QED
      BY <2>1, <3>2, <3>3 DEF Once
  <2>5. There(t) \/ tmpl'[t].row = "deleted"
    BY <1>2, <1>6, <2>2 DEF Template, There
  <2>6. \A d \in Dates : docs[t][d] <= 1 + halfway[t][d]
    BY DEF Once
  <2> QED
    BY <1>2, <1>6, <2>2, <2>3, <2>4, <2>5, <2>6 DEF Once
<1> QED
  BY <1>7, <1>8

LEMMA OnceFail ==
    ASSUME GenInv, Present, NEW t \in Templates, Alone(t), Once(t), NEW g \in Generators, Fail(g)
    PROVE  Once(t)'
<1>1. PICK u \in Templates, e \in Dates : u = gen[g].template /\ e = gen[g].date
  BY AtWork DEF Fail
<1>2. /\ tmpl' = tmpl /\ docs' = docs /\ gen \in [Generators -> Request] /\ gen[g] \in Request
      /\ halfway' = IF gen[g].step = "created" THEN [halfway EXCEPT ![u][e] = @ + 1] ELSE halfway
      /\ gen[g].step = "created" => g \notin Jobs
      /\ docs \in [Templates -> [Dates -> Nat]] /\ halfway \in [Templates -> [Dates -> Nat]]
  BY <1>1 DEF Fail, GenInv, GenTypeOK, Held
<1>3. ~AtWorkOn(g, t)' /\ \A h \in Generators \ {g} : gen'[h] = gen[h]
  <2>1. PICK request \in Request :
           gen' = [gen EXCEPT ![g] = request] /\ request.step \in {"idle", "listed"}
    <3>1. gen' = [gen EXCEPT ![g] = Rest(gen[g])] \/ gen' = [gen EXCEPT ![g] = NoRequest]
      BY DEF Fail
    <3> QED
      BY <1>2, <3>1, RestType, RequestTypes
  <2> QED
    BY <1>2, <2>1 DEF AtWorkOn
<1>4. CASE ~AtWorkOn(g, t)
  <2>1. halfway'[t] = halfway[t]
    BY <1>1, <1>2, <1>4 DEF AtWorkOn
  <2> QED
    BY <1>2, <1>3, <1>4, <2>1, OnceStays
<1>5. CASE AtWorkOn(g, t)
  <2>1. u = t /\ \A h \in Generators \ {g} : ~AtWorkOn(h, t)
    BY <1>1, <1>5, OnlyOne DEF AtWorkOn
  <2>2. \A h \in Generators : ~AtWorkOn(h, t)'
    BY <1>3, <2>1 DEF AtWorkOn
  <2>3. ASSUME NEW d \in Dates
        PROVE  /\ halfway[t][d] <= halfway'[t][d]
               /\ InHand(t, d) => halfway'[t][d] = 1 + halfway[t][d]
    <3>1. InHand(t, d) => gen[g].step = "created" /\ d = e
      BY <1>1, <2>1 DEF InHand
    <3> QED
      BY <1>2, <2>1, <3>1
  <2>4. \A d \in Dates : docs[t][d] <= 1 + halfway'[t][d]
    <3> SUFFICES ASSUME NEW d \in Dates PROVE docs[t][d] <= 1 + halfway'[t][d]
      OBVIOUS
    <3>1. docs[t][d] <= 1 + halfway[t][d]
      BY DEF Once
    <3>2. docs[t][d] \in Nat /\ halfway[t][d] \in Nat /\ halfway'[t][d] \in Nat
      BY <1>2
    <3> QED
      BY <2>3, <3>1, <3>2
  <2>5. ASSUME NEW d \in Dates, d >= tmpl[t].next PROVE docs[t][d] <= halfway'[t][d]
    <3>1. docs[t][d] <= halfway[t][d] \/ (InHand(t, d) /\ docs[t][d] <= 1 + halfway[t][d])
      BY <1>5, <2>5 DEF Once
    <3>2. docs[t][d] \in Nat /\ halfway[t][d] \in Nat /\ halfway'[t][d] \in Nat
      BY <1>2
    <3> QED
      BY <2>3, <3>1, <3>2
  <2>6. tmpl[t].row # "absent"
    BY <1>5, KindsAssumption DEF AtWorkOn, Present
  <2> QED
    BY <1>2, <2>2, <2>4, <2>5, <2>6 DEF Once
<1> QED
  BY <1>4, <1>5

\* What starts, passes over, or only counts.
LEMMA OnceAside ==
    ASSUME GenInv, Present, NEW t \in Templates, Once(t), NEW g \in Generators,
           \/ GenerateDue(g) \/ Asked(g) \/ CountInvoice(g) \/ InsertRefused(g)
           \/ \E u \in Templates : PassOver(g, u)
    PROVE  Once(t)'
<1>1. docs' = docs /\ halfway' = halfway /\ gen \in [Generators -> Request]
  BY StartsListed DEF CountInvoice, InsertRefused, PassOver, history, GenInv, GenTypeOK
<1>2. ~AtWorkOn(g, t)
  BY StartsListed DEF CountInvoice, InsertRefused, PassOver, AtWorkOn
<1>3. PICK request : gen' = [gen EXCEPT ![g] = request] /\ request.step \in {"idle", "listed"}
  <2>1. CASE CountInvoice(g)
    BY <2>1, RestType DEF CountInvoice, GenInv, GenTypeOK
  <2>2. CASE GenerateDue(g) \/ Asked(g)
    BY <2>2, StartsListed
  <2> QED
    BY <2>1, <2>2, LetGo
<1>4. ~AtWorkOn(g, t)' /\ \A h \in Generators \ {g} : gen'[h] = gen[h]
  BY <1>1, <1>3 DEF AtWorkOn
<1>5. tmpl'[t].next = tmpl[t].next /\ tmpl'[t].row = tmpl[t].row
  <2>1. CASE CountInvoice(g)
    <3>1. PICK u \in Templates : u = gen[g].template
      BY <2>1, AtWork DEF CountInvoice
    <3>2. ~MoveOn(g)
      BY <2>1 DEF CountInvoice, MoveOn
    <3> QED
      BY <2>1, <3>1, <3>2, MoveWrites
  <2>2. CASE ~CountInvoice(g)
    BY <2>2, StartsListed DEF InsertRefused, PassOver
  <2> QED
    BY <2>1, <2>2
<1> QED
  BY <1>1, <1>2, <1>4, <1>5, OnceStays

LEMMA OnceOutside ==
    ASSUME GenInv, Present, NEW t \in Templates, Once(t),
           UserStep \/ (\E l \in Locks : MoveLock(l)) \/ Tick \/ UNCHANGED vars
    PROVE  Once(t)'
<1>1. UNCHANGED <<gen, docs, halfway>> /\ tmpl \in [Templates -> Template]
  BY OutsideKeeps DEF history, GenInv, GenTypeOK
<1>2. /\ tmpl'[t].next = tmpl[t].next \/ tmpl[t].row = "absent"
      /\ tmpl'[t].row = "absent" => tmpl[t].row = "absent"
      /\ tmpl[t].row = "deleted" => tmpl'[t].row = "deleted"
  <2>1. CASE UserStep
    <3>1. PICK u \in Templates, row \in Template :
             /\ tmpl' = [tmpl EXCEPT ![u] = row] /\ row.row # "absent"
             /\ \/ row.next = tmpl[u].next /\ There(u)
                \/ tmpl[u].row = "absent"
      BY <2>1, UserWrites
    <3> QED
      BY <1>1, <3>1 DEF There
  <2>2. CASE UNCHANGED tmpl
    BY <2>2
  <2> QED
    BY <2>1, <2>2 DEF MoveLock, Tick, vars
<1> QED
  BY <1>1, <1>2, OnceStays

LEMMA OnceKeeps == GenInv /\ Present /\ OnceInv /\ [Next]_vars => OnceInv'
<1> SUFFICES ASSUME GenInv, Present, OnceInv, [Next]_vars, NEW t \in Templates, Alone(t), named'[t] = {}
             PROVE  Once(t)'
  BY DEF OnceInv, Alone
<1>1. CASE \E g \in Generators : CreateDocument(g)
  BY <1>1, NamedStays, OnceCreate DEF OnceInv
<1>2. CASE ~\E g \in Generators : CreateDocument(g)
  <2>1. named' = named
    <3>1. ASSUME NEW g \in Generators, GenerateDue(g) \/ Asked(g) \/ Fail(g)
          PROVE  named' = named
      BY <3>1, StartsListed DEF Fail, history
    <3>2. ASSUME NEW g \in Generators, Work(g) PROVE named' = named
      BY <1>2, <3>2 DEF Work, ReadTemplate, PassOver, InsertRefused, MoveOn, CountInvoice, history
    <3>3. CASE UserStep \/ (\E l \in Locks : MoveLock(l)) \/ Tick \/ UNCHANGED vars
      BY <3>3, OutsideKeeps DEF history
    <3> QED
      BY <3>1, <3>2, <3>3 DEF Next
  <2>2. Once(t)
    BY <2>1 DEF OnceInv
  <2> QED
    BY <1>2, <2>2, OnceRead, OnceMove, OnceFail, OnceAside, OnceOutside DEF Next, Work
<1> QED
  BY <1>1, <1>2

\* With one request at a time a date is generated once, and again only after a
\* request stopped between the document and the schedule; it needs no lock and no
\* key of the date on the document (accounting/service.go:526-568). Jobs beside
\* it create nothing.
THEOREM OneGeneratorGeneratesOnce == Spec => []GeneratedOnce
<1>1. Init => OnceInv
  <2> SUFFICES ASSUME Init PROVE OnceInv
    OBVIOUS
  <2>1. \A g \in Generators : gen[g].step = "idle"
    BY RequestTypes DEF Init
  <2>2. \A t \in Templates : \A d \in Dates : docs[t][d] = 0 /\ halfway[t][d] = 0
    BY DEF Init
  <2> QED
    BY <2>1, <2>2 DEF OnceInv, Once, AtWorkOn
<1>2. OnceInv => GeneratedOnce
  BY DEF OnceInv, Once, GeneratedOnce
<1> QED
  BY <1>1, <1>2, OnceKeeps, GenInvariant, PresentInvariant, PTL DEF Spec

-----------------------------------------------------------------------------
(* The count of a template *)

\* A deleted template is counted no more.
Tallied(t) ==
    tmpl[t].row # "deleted" =>
        SumFunctionOnSet(docs[t], Dates) = tmpl[t].count + uncounted[t] + Cardinality(Underway(t))

\* A template that is created starts to count at 0.
TallyInv ==
    \A t \in Templates :
        /\ IsFiniteSet(Underway(t)) /\ Tallied(t)
        /\ tmpl[t].row = "absent" => tmpl[t].count = 0

LEMMA DatesFinite == IsFiniteSet(Dates)
BY DatesAssumption, FS_Interval DEF Dates

LEMMA DocumentsTyped ==
    ASSUME GenInv, NEW t \in Templates
    PROVE  /\ \A d \in Dates : docs[t][d] \in Nat
           /\ SumFunctionOnSet(docs[t], Dates) \in Int
           /\ tmpl[t].count \in Nat /\ uncounted[t] \in Nat
<1>1. \A d \in Dates : docs[t][d] \in Nat
  BY DEF GenInv, GenTypeOK
<1>2. SumFunctionOnSet(docs[t], Dates) \in Int
  BY <1>1, DatesFinite, SumTyped
<1>3. tmpl[t].count \in Nat /\ uncounted[t] \in Nat
  BY DEF GenInv, GenTypeOK, Template
<1> QED
  BY <1>1, <1>2, <1>3

\* A generator is under way with the template of its request, or with none.
LEMMA UnderwayAfter ==
    ASSUME GenInv, NEW g \in Generators, NEW r, gen' = [gen EXCEPT ![g] = r], NEW t
    PROVE  Underway(t)' = IF r.step \in {"created", "moved"} /\ r.template = t
                          THEN Underway(t) \union {g} ELSE Underway(t) \ {g}
<1>1. gen \in [Generators -> Request]
  BY DEF GenInv, GenTypeOK
<1>2. gen'[g] = r /\ \A h \in Generators \ {g} : gen'[h] = gen[h]
  BY <1>1
<1> QED
  BY <1>2 DEF Underway

LEMMA TallySame ==
    ASSUME NEW t \in Templates, Tallied(t), Underway(t)' = Underway(t), UNCHANGED <<docs[t], uncounted[t]>>,
           tmpl'[t].count = tmpl[t].count, tmpl'[t].row = tmpl[t].row \/ tmpl'[t].row = "deleted"
    PROVE  Tallied(t)'
BY DEF Tallied

\* A template that the step leaves alone.
LEMMA TallyAside ==
    ASSUME GenInv, TallyInv, NEW g \in Generators, NEW r, gen' = [gen EXCEPT ![g] = r],
           NEW t \in Templates, gen[g].template # t, r.template # t,
           UNCHANGED <<docs[t], uncounted[t], tmpl[t]>>
    PROVE  IsFiniteSet(Underway(t))' /\ Tallied(t)' /\ (tmpl'[t].row = "absent" => tmpl'[t].count = 0)
<1>1. gen \in [Generators -> Request]
  BY DEF GenInv, GenTypeOK
<1>2. gen'[g].template # t /\ \A h \in Generators \ {g} : gen'[h] = gen[h]
  BY <1>1
<1>3. Underway(t)' = Underway(t)
  BY <1>2 DEF Underway
<1> QED
  BY <1>3, TallySame DEF TallyInv

\* A step that starts, reads, passes over or is refused: no document comes or goes.
LEMMA TallyRead ==
    ASSUME GenInv, TallyInv, NEW g \in Generators,
           \/ GenerateDue(g) \/ Asked(g) \/ InsertRefused(g)
           \/ \E t \in Templates : ReadTemplate(g, t) \/ PassOver(g, t)
    PROVE  TallyInv'
<1>1. UNCHANGED <<tmpl, docs, uncounted>>
  BY StartsListed DEF InsertRefused, ReadTemplate, PassOver, history
<1>2. gen[g].step \in {"idle", "listed", "read"}
  BY StartsListed DEF InsertRefused, ReadTemplate, PassOver
<1>3. PICK request : gen' = [gen EXCEPT ![g] = request] /\ request.step \in {"idle", "listed", "read"}
  <2>1. CASE GenerateDue(g) \/ Asked(g)
    BY <2>1, StartsListed
  <2>2. ASSUME NEW t \in Templates, ReadTemplate(g, t)
        PROVE  \E request : gen' = [gen EXCEPT ![g] = request] /\ request.step = "read"
    BY <2>2, ReadLeaves
  <2>3. CASE InsertRefused(g) \/ \E t \in Templates : PassOver(g, t)
    BY <2>3, LetGo
  <2> QED
    BY <2>1, <2>2, <2>3
<1>4. \A t \in Templates : Underway(t)' = Underway(t)
  BY <1>2, <1>3, UnderwayAfter DEF Underway
<1> QED
  BY <1>1, <1>4, TallySame DEF TallyInv

\* A document is created, and its generator is under way.
LEMMA TallyCreate ==
    ASSUME GenInv, TallyInv, NEW g \in Generators, CreateDocument(g)
    PROVE  TallyInv'
<1>1. PICK t \in Templates, d \in Dates : t = gen[g].template /\ d = gen[g].date
  BY AtWork DEF CreateDocument
<1>2. /\ gen[g].step = "read" /\ docs' = [docs EXCEPT ![t][d] = @ + 1]
      /\ gen' = [gen EXCEPT ![g].step = "created"]
      /\ UNCHANGED <<tmpl, uncounted>>
  BY <1>1 DEF CreateDocument
<1>3. docs \in [Templates -> [Dates -> Nat]] /\ gen \in [Generators -> Request] /\ gen[g] \in Request
  BY DEF GenInv, GenTypeOK
<1>4. PICK r : gen' = [gen EXCEPT ![g] = r] /\ r.step = "created" /\ r.template = t
  <2> DEFINE r == [gen[g] EXCEPT !.step = "created"]
  <2>1. r.step = "created" /\ r.template = t
    BY <1>1, <1>3 DEF Request
  <2>2. gen' = [gen EXCEPT ![g] = r]
    BY <1>2, <1>3
  <2> HIDE DEF r
  <2> QED
    BY <2>1, <2>2
<1>5. IsFiniteSet(Underway(t)) /\ g \notin Underway(t)
  BY <1>2 DEF TallyInv, Underway
<1>6. Underway(t)' = Underway(t) \union {g}
  BY <1>4, UnderwayAfter
<1>7. /\ IsFiniteSet(Underway(t))' /\ Cardinality(Underway(t)') = Cardinality(Underway(t)) + 1
      /\ Cardinality(Underway(t)) \in Nat
  BY <1>5, <1>6, FS_AddElement, FS_CardinalityType
<1>8. SumFunctionOnSet(docs'[t], Dates) = SumFunctionOnSet(docs[t], Dates) + 1
  <2>1. PICK f, h : f = docs[t] /\ h = docs'[t]
    OBVIOUS
  <2>2. \A y \in Dates : f[y] \in Int /\ h[y] \in Int
    BY <1>2, <1>3, <2>1
  <2>3. \A y \in Dates \ {d} : h[y] = f[y]
    BY <1>2, <1>3, <2>1
  <2>4. h[d] = f[d] + 1
    BY <1>2, <1>3, <2>1
  <2>5. SumFunctionOnSet(h, Dates) = SumFunctionOnSet(f, Dates) - f[d] + h[d]
    BY <2>2, <2>3, DatesFinite, SumChange
  <2>6. SumFunctionOnSet(f, Dates) \in Int
    BY <2>2, DatesFinite, SumTyped
  <2>7. SumFunctionOnSet(h, Dates) = SumFunctionOnSet(f, Dates) + 1
    BY <2>2, <2>4, <2>5, <2>6
  <2> QED
    BY <2>1, <2>7
<1>9. Tallied(t)'
  BY <1>2, <1>7, <1>8, DocumentsTyped DEF Tallied, TallyInv
<1>10. ASSUME NEW u \in Templates, u # t
       PROVE  IsFiniteSet(Underway(u))' /\ Tallied(u)' /\ (tmpl'[u].row = "absent" => tmpl'[u].count = 0)
  <2>1. UNCHANGED <<docs[u], uncounted[u], tmpl[u]>>
    BY <1>2, <1>3, <1>10
  <2> QED
    BY <1>1, <1>4, <1>10, <2>1, TallyAside
<1> QED
  BY <1>2, <1>7, <1>9, <1>10 DEF TallyInv

\* A generator that is no more under way has been counted, or is known not to
\* have been.
LEMMA TallyDone ==
    ASSUME GenInv, TallyInv, NEW g \in Generators, NEW t \in Templates, t = gen[g].template,
           gen[g].step \in {"created", "moved"},
           NEW r, gen' = [gen EXCEPT ![g] = r], r.template = None, docs' = docs,
           tmpl'[t].row = tmpl[t].row,
           \/ tmpl[t].row = "deleted"
           \/ tmpl'[t].count + uncounted'[t] = tmpl[t].count + uncounted[t] + 1,
           tmpl'[t].count \in Nat, uncounted'[t] \in Nat
    PROVE  IsFiniteSet(Underway(t))' /\ Tallied(t)'
<1>1. g \in Underway(t) /\ IsFiniteSet(Underway(t))
  BY DEF Underway, TallyInv
<1>2. Underway(t)' = Underway(t) \ {g}
  BY UnderwayAfter, KindsAssumption
<1>3. /\ IsFiniteSet(Underway(t))' /\ Cardinality(Underway(t)') = Cardinality(Underway(t)) - 1
      /\ Cardinality(Underway(t)) \in Nat
  BY <1>1, <1>2, FS_RemoveElement, FS_CardinalityType
<1>4. CASE tmpl[t].row = "deleted"
  BY <1>3, <1>4 DEF Tallied
<1>5. CASE tmpl[t].row # "deleted" /\ tmpl'[t].count + uncounted'[t] = tmpl[t].count + uncounted[t] + 1
  <2>1. SumFunctionOnSet(docs[t], Dates) = tmpl[t].count + uncounted[t] + Cardinality(Underway(t))
    BY <1>5 DEF TallyInv, Tallied
  <2> DEFINE sum == SumFunctionOnSet(docs[t], Dates)
             before == Cardinality(Underway(t))
             after == Cardinality(Underway(t)')
             count == tmpl[t].count
             was == uncounted[t]
             counted == tmpl'[t].count
             is == uncounted'[t]
  <2>2. /\ sum = count + was + before /\ after = before - 1 /\ before \in Nat
        /\ count \in Nat /\ was \in Nat /\ counted \in Nat /\ is \in Nat
        /\ counted + is = count + was + 1
    BY <1>3, <1>5, <2>1, DocumentsTyped
  <2> HIDE DEF sum, before, after, count, was, counted, is
  <2>3. sum = counted + is + after
    BY <2>2
  <2> USE DEF sum, after, counted, is
  <2>4. Tallied(t)'
    BY <2>3 DEF Tallied
  <2> QED
    BY <1>3, <2>4
<1> QED
  BY <1>4, <1>5

\* The template is moved on: a journal's is counted with it, an invoice's next.
LEMMA TallyMove ==
    ASSUME GenInv, GenInv', Present, TallyInv, NEW g \in Generators, MoveOn(g) \/ CountInvoice(g)
    PROVE  TallyInv'
<1>1. PICK t \in Templates : t = gen[g].template
  BY AtWork DEF MoveOn, CountInvoice
<1>2. gen[g].step \in {"created", "moved"} /\ UNCHANGED <<docs, uncounted>>
  BY <1>1, MoveLeaves DEF history
<1>3. /\ gen \in [Generators -> Request] /\ gen[g] \in Request
      /\ tmpl \in [Templates -> Template] /\ tmpl[t] \in Template /\ tmpl' \in [Templates -> Template]
  BY DEF GenInv, GenTypeOK
\* What becomes of the rows.
<1>4. /\ tmpl'[t].row = tmpl[t].row
      /\ \A u \in Templates \ {t} : tmpl'[u] = tmpl[u]
      /\ tmpl'[t].count = IF There(t) /\ (t \in Journals \/ CountInvoice(g)) THEN tmpl[t].count + 1
                          ELSE tmpl[t].count
  BY <1>1, MoveWrites
<1>5. tmpl[t].row # "absent"
  BY <1>1, KindsAssumption DEF Present
\* The request that is left: another one, or the same to be counted.
<1>6. CASE MoveOn(g) /\ t \notin Journals
  <2>1. PICK r : gen' = [gen EXCEPT ![g] = r] /\ r.step = "moved" /\ r.template = t
    <3> DEFINE r == [gen[g] EXCEPT !.step = "moved"]
    <3>1. r.step = "moved" /\ r.template = t
      BY <1>1, <1>3 DEF Request
    <3>2. gen' = [gen EXCEPT ![g] = r]
      BY <1>1, <1>6 DEF MoveOn
    <3> HIDE DEF r
    <3> QED
      BY <3>1, <3>2
  <2>2. g \in Underway(t)
    BY <1>1, <1>2 DEF Underway
  <2>3. Underway(t)' = Underway(t) \union {g}
    BY <2>1, UnderwayAfter
  <2>4. Underway(t)' = Underway(t)
    BY <2>2, <2>3
  <2>5. tmpl'[t].count = tmpl[t].count
    BY <1>4, <1>6 DEF MoveOn, CountInvoice
  <2>6. IsFiniteSet(Underway(t))' /\ Tallied(t)'
    BY <1>2, <1>4, <2>4, <2>5, TallySame DEF TallyInv
  <2>7. ASSUME NEW u \in Templates, u # t
        PROVE  IsFiniteSet(Underway(u))' /\ Tallied(u)' /\ (tmpl'[u].row = "absent" => tmpl'[u].count = 0)
    BY <1>1, <1>2, <1>4, <2>1, <2>7, TallyAside
  <2> QED
    BY <1>4, <1>5, <2>6, <2>7 DEF TallyInv
<1>7. CASE CountInvoice(g) \/ (MoveOn(g) /\ t \in Journals)
  <2>1. PICK r : gen' = [gen EXCEPT ![g] = r] /\ r.template = None
    BY <1>1, <1>3, <1>7, RestType DEF MoveOn, CountInvoice
  <2>2. There(t) => tmpl'[t].count = tmpl[t].count + 1
    BY <1>4, <1>7
  <2>3. tmpl'[t].count \in Nat /\ uncounted'[t] \in Nat /\ tmpl[t].count \in Nat /\ uncounted[t] \in Nat
    BY <1>2, <1>3, DocumentsTyped DEF Template
  <2>4. tmpl[t].row = "deleted" \/ There(t)
    BY <1>3, <1>5 DEF There, Template
  <2>5. tmpl[t].row = "deleted" \/ tmpl'[t].count + uncounted'[t] = tmpl[t].count + uncounted[t] + 1
    BY <1>2, <2>2, <2>3, <2>4
  <2>6. IsFiniteSet(Underway(t))' /\ Tallied(t)'
    BY <1>1, <1>2, <1>4, <2>1, <2>3, <2>5, TallyDone
  <2>7. ASSUME NEW u \in Templates, u # t
        PROVE  IsFiniteSet(Underway(u))' /\ Tallied(u)' /\ (tmpl'[u].row = "absent" => tmpl'[u].count = 0)
    BY <1>1, <1>2, <1>4, <2>1, <2>7, KindsAssumption, TallyAside
  <2> QED
    BY <1>4, <1>5, <2>6, <2>7 DEF TallyInv
<1> QED
  BY <1>6, <1>7

\* What a failure leaves uncounted is known to be.
LEMMA TallyFail ==
    ASSUME GenInv, GenInv', TallyInv, NEW g \in Generators, Fail(g)
    PROVE  TallyInv'
<1>1. PICK t \in Templates : t = gen[g].template
  BY AtWork DEF Fail
<1>2. /\ gen[g].step \in {"read", "created", "moved"} /\ UNCHANGED <<tmpl, docs>>
      /\ uncounted' = IF gen[g].step # "read" THEN [uncounted EXCEPT ![t] = @ + 1] ELSE uncounted
  BY <1>1 DEF Fail
<1>3. gen[g] \in Request /\ uncounted \in [Templates -> Nat] /\ uncounted' \in [Templates -> Nat]
  BY DEF GenInv, GenTypeOK
<1>4. PICK r : gen' = [gen EXCEPT ![g] = r] /\ r.template = None
  BY LetGo
<1>5. \A u \in Templates \ {t} : uncounted'[u] = uncounted[u]
  BY <1>2, <1>3
<1>6. IsFiniteSet(Underway(t))' /\ Tallied(t)'
  <2>1. CASE gen[g].step = "read"
    <3>1. g \notin Underway(t)
      BY <2>1 DEF Underway
    <3>2. Underway(t)' = Underway(t) \ {g}
      BY <1>4, UnderwayAfter, KindsAssumption
    <3>3. Underway(t)' = Underway(t)
      BY <3>1, <3>2
    <3> QED
      BY <1>2, <2>1, <3>3, TallySame DEF TallyInv
  <2>2. CASE gen[g].step \in {"created", "moved"}
    <3>1. uncounted'[t] = uncounted[t] + 1
      BY <1>2, <1>3, <2>2
    <3>2. tmpl'[t].count \in Nat /\ tmpl[t].count \in Nat /\ uncounted'[t] \in Nat /\ uncounted[t] \in Nat
      BY <1>2, <1>3, DocumentsTyped
    <3>3. tmpl'[t].count + uncounted'[t] = tmpl[t].count + uncounted[t] + 1
      BY <1>2, <3>1, <3>2
    <3> QED
      BY <1>1, <1>2, <1>4, <2>2, <3>2, <3>3, TallyDone
  <2> QED
    BY <1>2, <2>1, <2>2
<1>7. ASSUME NEW u \in Templates, u # t
      PROVE  IsFiniteSet(Underway(u))' /\ Tallied(u)' /\ (tmpl'[u].row = "absent" => tmpl'[u].count = 0)
  BY <1>1, <1>2, <1>4, <1>5, <1>7, KindsAssumption, TallyAside
<1> QED
  BY <1>2, <1>6, <1>7 DEF TallyInv

\* Users and the clock: a template appears with the count 0, or disappears.
LEMMA TallyOutside ==
    ASSUME GenInv, TallyInv, UserStep \/ (\E l \in Locks : MoveLock(l)) \/ Tick \/ UNCHANGED vars
    PROVE  TallyInv'
<1>1. UNCHANGED <<gen, docs, uncounted>> /\ tmpl \in [Templates -> Template]
  BY OutsideKeeps DEF history, GenInv, GenTypeOK
<1>2. ASSUME NEW t \in Templates
      PROVE  /\ tmpl'[t].row = "absent" => tmpl[t].row = "absent"
             /\ tmpl'[t].count = tmpl[t].count
             /\ tmpl'[t].row = tmpl[t].row \/ tmpl'[t].row = "deleted" \/ tmpl[t].row = "absent"
  <2>1. CASE UNCHANGED tmpl
    BY <2>1
  <2>2. CASE UserStep
    <3>1. PICK u \in Templates, row \in Template :
             /\ tmpl' = [tmpl EXCEPT ![u] = row] /\ row.row # "absent"
             /\ \/ row.count = tmpl[u].count /\ There(u) /\ row.row \in {"there", "deleted"}
                \/ row.count = 0 /\ tmpl[u].row = "absent"
      BY <2>2, UserWrites
    <3> QED
      BY <1>1, <3>1 DEF There, TallyInv
  <2> QED
    BY <2>1, <2>2 DEF MoveLock, Tick, vars
<1>3. \A t : Underway(t)' = Underway(t)
  BY <1>1 DEF Underway
<1> QED
  BY <1>1, <1>2, <1>3 DEF TallyInv, Tallied

LEMMA TallyKeeps == GenInv /\ GenInv' /\ Present /\ TallyInv /\ [Next]_vars => TallyInv'
<1> SUFFICES ASSUME GenInv, GenInv', Present, TallyInv, [Next]_vars PROVE TallyInv'
  OBVIOUS
<1>1. ASSUME NEW g \in Generators, GenerateDue(g) \/ Asked(g) \/ Work(g) \/ Fail(g)
      PROVE  TallyInv'
  BY <1>1, TallyRead, TallyCreate, TallyMove, TallyFail DEF Work
<1> QED
  BY <1>1, TallyOutside DEF Next

\* However many generators run at once, and wherever they stop, no count is lost
\* and none is counted twice: the documents of a template are those it counts,
\* those under way, and those that a failure left uncounted
\* (recurring/repository_gorm.go:283, accounting/repository_gorm.go).
THEOREM DocumentsCounted == Spec => []CountsDocuments
<1>1. Init => TallyInv
  <2> SUFFICES ASSUME Init PROVE TallyInv
    OBVIOUS
  <2>1. \A g \in Generators : gen[g].template = None /\ gen[g].step = "idle"
    BY RequestTypes DEF Init
  <2>2. ASSUME NEW t \in Templates
        PROVE  /\ IsFiniteSet(Underway(t)) /\ Tallied(t)
               /\ tmpl[t].row = "absent" => tmpl[t].count = 0
    <3>1. Underway(t) = {}
      BY <2>1 DEF Underway
    <3>2. tmpl[t].count = 0 /\ uncounted[t] = 0 /\ \A d \in Dates : docs[t][d] = 0
      BY DEF Init, NoTemplate
    <3>3. SumFunctionOnSet(docs[t], Dates) = 0
      BY <3>2, DatesFinite, SumOfZeros
    <3> QED
      BY <3>1, <3>2, <3>3, FS_EmptySet DEF Tallied
  <2> QED
    BY <2>1, <2>2 DEF TallyInv
<1>2. TallyInv => CountsDocuments
  BY DEF TallyInv, Tallied, CountsDocuments, There
<1> QED
  BY <1>1, <1>2, TallyKeeps, GenInvariant, PresentInvariant, PTL DEF Spec
=============================================================================
