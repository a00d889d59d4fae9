------------------------------ MODULE Parking ------------------------------
(***************************************************************************)
(* The parking of one site: the spots, the benefit of each employee, the   *)
(* bookings people make from the phone, and the weekly run that books the  *)
(* managers' fixed spots.                                                  *)
(*                                                                         *)
(* Each HTTP request is a process and stops where its handler awaits a     *)
(* query whose answer it uses later.  The weekly run is started by the     *)
(* cron, under the database lock, and by the console, without it.  The two *)
(* unique indexes of parking_bookings refuse an INSERT; nothing else ties  *)
(* the tables together.                                                    *)
(*                                                                         *)
(* A booking remembers in "by" who inserted it: that tells its row from a  *)
(* later one with the same spot, person and day.                           *)
(*                                                                         *)
(* A definition under a "Bug:" comment is not part of the specification:   *)
(* it is the definition that follows with a plausible mistake in it, which *)
(* the properties must notice.                                             *)
(***************************************************************************)
EXTENDS Integers, FiniteSets, Sequences

CONSTANTS
  Requests,           \* request processes, each runs once
  People,             \* employees
  Spots,              \* spots, numbered in the order of their codes
  None,
  Operations,         \* the operations that may be requested
  WeekLength,         \* days of a week, and how many of them are worked
  WorkingDaysInWeek,
  OpensOn,            \* OPENS_ON
  MaxActive,          \* MAX_ACTIVE
  MaxDay,             \* bound on the calendar
  MaxCrashes          \* bound on the processes that die

Job == "parking-weekly"
Runs == Requests \cup {Job}
AllOperations == {"book", "many", "cancel", "benefit", "apps", "update", "delete", "weekly", "leave"}
Roles == {"NONE", "USER", "MANAGER"}
Mondays == 0..(MaxDay + WeekLength)
Dates == 0..(MaxDay + 2 * WeekLength)

ASSUME ParkingAssumption ==
  /\ None \notin Requests \cup People \cup AllOperations
  /\ None \notin Spots
  /\ Job \notin Requests
  /\ Spots \subseteq Nat /\ IsFiniteSet(Spots) /\ IsFiniteSet(Requests)
  /\ Operations \subseteq AllOperations
  /\ {WeekLength, WorkingDaysInWeek, OpensOn, MaxActive} \subseteq Nat \ {0}
  /\ WorkingDaysInWeek <= WeekLength
  /\ {MaxDay, MaxCrashes} \subseteq Nat

VARIABLES
  today,      \* the local date at the site; day 0 is a Monday
  employee,   \* table employees: the benefit of each person
  spot,       \* table parking_spots
  booking,    \* table parking_bookings
  weeks,      \* table parking_weeks: the Mondays handed out
  made,       \* every booking ever inserted (history)
  req,        \* the requests
  run,        \* the weekly runs, of the cron and of the console
  crashes

vars == <<today, employee, spot, booking, weeks, made, req, run, crashes>>

-----------------------------------------------------------------------------
(* Types and initial state *)

EmployeeRow == [role : Roles, spot : Spots \cup {None}, off : BOOLEAN, hired : BOOLEAN]

BookingRow ==
  [spot : Spots, person : People, date : Dates, source : {"AUTO", "MANUAL"}, by : Runs]

Labels ==
  {"idle", "day", "insert", "benefit", "changed", "drop", "days", "managers", "assign",
   "update", "off", "delete", "done", "dead"}

SpotLists == Seq(Spots)

RequestState ==
  [op : AllOperations \cup {None}, pc : Labels, person : People \cup {None}, role : Roles,
   spot : Spots \cup {None}, dates : SUBSET Dates, order : SpotLists,
   found : SUBSET BookingRow, flag : BOOLEAN, since : Dates]

RunState ==
  [pc : {"idle", "week", "managers", "done"}, monday : Mondays, spots : SUBSET Spots,
   managers : SUBSET (People \X Spots)]

\* The two unique indexes of parking_bookings.
Unique(B) ==
  \A b, c \in B : b.date = c.date /\ (b.spot = c.spot \/ b.person = c.person) => b = c

\* Every variable has its type, and the bookings respect their indexes.
TypeOK ==
  /\ today \in 0..MaxDay
  /\ employee \in [People -> EmployeeRow]
  /\ spot \in [Spots -> {"ON", "OFF", "DELETED"}]
  /\ booking \in SUBSET BookingRow /\ Unique(booking)
  /\ weeks \in SUBSET Mondays
  /\ made \in SUBSET BookingRow
  /\ req \in [Requests -> RequestState]
  /\ run \in [Runs -> RunState]
  /\ crashes \in Nat

\* A request that has just read its parameters and what the first queries answer.
Loaded(op, pc, person, role, s, dates, flag) ==
  [op |-> op, pc |-> pc, person |-> person, role |-> role, spot |-> s, dates |-> dates,
   order |-> << >>, found |-> {}, flag |-> flag, since |-> today]

\* The console has given out the benefits, one manager per spot; nothing is booked yet.
Init ==
  /\ today = 0
  /\ employee \in [People -> {e \in EmployeeRow :
                                /\ e.hired /\ ~e.off
                                /\ e.spot # None <=> e.role = "MANAGER"}]
  /\ \A p, q \in People : employee[p].spot = employee[q].spot => p = q \/ employee[p].spot = None
  /\ spot = [s \in Spots |-> "ON"]
  /\ booking = {}
  /\ weeks = {}
  /\ made = {}
  /\ req = [r \in Requests |-> Loaded(None, "idle", None, "NONE", None, {}, FALSE)]
  /\ run = [q \in Runs |-> [pc |-> "idle", monday |-> 0, spots |-> {}, managers |-> {}]]
  /\ crashes = 0

-----------------------------------------------------------------------------
(* The calendar: parking-rules *)

Weekday(d) == (d % WeekLength) + 1
MondayOf(d) == d - (d % WeekLength)
WorkingDays(monday) == monday..(monday + WorkingDaysInWeek - 1)
NextMonday == MondayOf(today) + WeekLength

BookableDays ==
  {d \in WorkingDays(MondayOf(today)) : d >= today}
    \cup (IF Weekday(today) >= OpensOn THEN WorkingDays(NextMonday) ELSE {})

-----------------------------------------------------------------------------
(* Tables *)

Entitled(p) == employee[p].hired /\ employee[p].role # "NONE" /\ ~employee[p].off
ActiveBookings(p) == {b \in booking : b.person = p /\ b.date >= today}
FreeOn(d) == {s \in Spots : spot[s] = "ON" /\ \A b \in booking : ~(b.spot = s /\ b.date = d)}
FixedSpotsOfOthers(p) ==
  {employee[q].spot : q \in {q \in People \ {p} : employee[q].hired /\ employee[q].role = "MANAGER"}}

\* s is tried before t for person p: other managers' fixed spots last, the person's own first of
\* the rest, then by code.
Earlier(p, s, t) ==
  LET last(u) == u \in FixedSpotsOfOthers(p)
      own(u) == u = employee[p].spot
  IN IF last(s) # last(t) THEN last(t)
     ELSE IF own(s) # own(t) THEN own(s)
     ELSE s < t

\* The spots of S in that order (one sequence).
Orders(p, S) ==
  {o \in [1..Cardinality(S) -> S] :
     \A i, j \in 1..Cardinality(S) : i < j => Earlier(p, o[i], o[j])}

\* What a weekly or benefit transaction inserts of the rows C, skipping duplicates: as many
\* as the indexes allow, whichever came first.
Inserted(C) ==
  {X \in SUBSET C : /\ Unique(booking \cup X)
                    /\ \A c \in C \ X : ~Unique(booking \cup X \cup {c})}
AutoRows(managers, days, by) ==
  {[spot |-> m[2], person |-> m[1], date |-> d, source |-> "AUTO", by |-> by] :
     m \in managers, d \in days}

CanBegin(r, op) == req[r].pc = "idle" /\ run[r].pc = "idle" /\ op \in Operations
Quiet == UNCHANGED <<today, employee, spot, booking, weeks, made, run, crashes>>

-----------------------------------------------------------------------------
(* Booking from the phone *)

\* The day a request is at: the first of those left to settle.
First(D) == CHOOSE d \in D : \A e \in D : d <= e
Day(r) == First(req[r].dates)

\* The day is settled, booked or not; the next one, if any, is tried.
NextDay(r) ==
  LET left == req[r].dates \ {Day(r)}
  IN req' = [req EXCEPT ![r].dates = left, ![r].order = << >>,
                        ![r].pc = IF left = {} THEN "done" ELSE "day"]

Book(r, p, d, s) ==
  /\ CanBegin(r, "book")
  /\ employee[p].hired
  /\ req' = [req EXCEPT ![r] = Loaded("book", "day", p, "NONE", s, {d}, FALSE)]
  /\ Quiet

\* bookMany: the limit is checked for the whole request first.
BookMany(r, p, D, s) ==
  /\ CanBegin(r, "many")
  /\ Entitled(p)
  /\ employee[p].role = "USER" => Cardinality(ActiveBookings(p)) + Cardinality(D) <= MaxActive
  /\ req' = [req EXCEPT ![r] = Loaded("many", "day", p, "NONE", s, D, FALSE)]
  /\ Quiet

\* The spots to try for the request's day.
Candidates(r) ==
  IF req[r].spot = None THEN FreeOn(Day(r)) ELSE FreeOn(Day(r)) \cap {req[r].spot}

\* book, up to the loop: every check passes.
DayOpen(r) ==
  LET p == req[r].person
  IN /\ Entitled(p)
     /\ Day(r) \in BookableDays
     /\ \A b \in booking : ~(b.person = p /\ b.date = Day(r))
     /\ employee[p].role = "USER" => Cardinality(ActiveBookings(p)) < MaxActive
     /\ Candidates(r) # {}

DayLoad(r) ==
  /\ req[r].pc = "day"
  /\ DayOpen(r)
  /\ \E o \in Orders(req[r].person, Candidates(r)) :
       req' = [req EXCEPT ![r].pc = "insert", ![r].order = o]
  /\ Quiet

DayRefused(r) ==
  /\ req[r].pc = "day"
  /\ ~DayOpen(r)
  /\ NextDay(r)
  /\ Quiet

Row(r) == [spot |-> Head(req[r].order), person |-> req[r].person, date |-> Day(r),
           source |-> "MANUAL", by |-> r]

Insert(r) ==
  /\ req[r].pc = "insert"
  /\ Unique(booking \cup {Row(r)})
  /\ booking' = booking \cup {Row(r)}
  /\ made' = made \cup {Row(r)}
  /\ NextDay(r)
  /\ UNCHANGED <<today, employee, spot, weeks, run, crashes>>

\* Bug: a spot taken meanwhile is replaced by any other.
DuplicateSwaps(r) ==
  /\ req[r].pc = "insert"
  /\ ~Unique(booking \cup {Row(r)})
  /\ IF \/ \E b \in booking : b.person = req[r].person /\ b.date = Day(r)
        \/ FreeOn(Day(r)) = {}
       THEN NextDay(r)
       ELSE \E o \in Orders(req[r].person, FreeOn(Day(r))) : req' = [req EXCEPT ![r].order = o]
  /\ Quiet

\* ER_DUP_ENTRY: the day is given up if the person has one already or had chosen the spot,
\* otherwise the next spot in the order is tried.
Duplicate(r) ==
  /\ req[r].pc = "insert"
  /\ ~Unique(booking \cup {Row(r)})
  /\ IF \/ \E b \in booking : b.person = req[r].person /\ b.date = Day(r)
        \/ req[r].spot # None
        \/ Len(req[r].order) = 1
       THEN NextDay(r)
       ELSE req' = [req EXCEPT ![r].order = Tail(@)]
  /\ Quiet

\* cancel, by the person or from the console.
Cancel(b) ==
  /\ "cancel" \in Operations
  /\ b.date >= today
  /\ booking' = booking \ {b}
  /\ UNCHANGED <<today, employee, spot, weeks, made, req, run, crashes>>

-----------------------------------------------------------------------------
(* The benefit, the applications of a person and their departure *)

\* employeeParking, up to the UPDATE: one manager per spot is checked here.
BenefitLoad(r, p, role, s) ==
  /\ CanBegin(r, "benefit")
  /\ employee[p].hired
  /\ s # None <=> role = "MANAGER"
  /\ s # None => /\ spot[s] = "ON"
                 /\ \A q \in People \ {p} : ~(employee[q].role = "MANAGER" /\ employee[q].spot = s)
  /\ LET changes == employee[p].role # role \/ employee[p].spot # s
     IN req' = [req EXCEPT ![r] = Loaded("benefit", "benefit", p, role, s, {}, changes)]
  /\ Quiet

BenefitUpdate(r) ==
  /\ req[r].pc = "benefit"
  /\ employee' = [employee EXCEPT ![req[r].person].role = req[r].role,
                                  ![req[r].person].spot = req[r].spot]
  /\ req' = [req EXCEPT ![r].pc = IF req[r].flag THEN "changed" ELSE "done"]
  /\ UNCHANGED <<today, spot, booking, weeks, made, run, crashes>>

\* Bug: the weekly bookings of the past are dropped too.
BenefitFindAll(r) ==
  LET p == req[r].person
  IN /\ req[r].pc = "changed"
     /\ req' = [req EXCEPT
          ![r].pc = IF employee[p].hired THEN "drop" ELSE "done",
          ![r].role = employee[p].role, ![r].spot = employee[p].spot,
          ![r].found = {b \in booking : b.person = p /\ b.source = "AUTO"}]
     /\ Quiet

\* benefitChanged reads the person again, and the weekly bookings still to come.
BenefitFind(r) ==
  LET p == req[r].person
  IN /\ req[r].pc = "changed"
     /\ req' = [req EXCEPT
          ![r].pc = IF employee[p].hired THEN "drop" ELSE "done",
          ![r].role = employee[p].role, ![r].spot = employee[p].spot,
          ![r].found = {b \in booking : b.person = p /\ b.source = "AUTO" /\ b.date >= today}]
     /\ Quiet

BenefitDrop(r) ==
  /\ req[r].pc = "drop"
  /\ booking' = booking \ req[r].found
  /\ req' = [req EXCEPT ![r].pc = IF req[r].role = "MANAGER" /\ req[r].spot # None
                                     THEN "days" ELSE "done"]
  /\ UNCHANGED <<today, employee, spot, weeks, made, run, crashes>>

\* The spot must still be on; its days are those left of this week and of the weeks handed out.
BenefitDays(r) ==
  /\ req[r].pc = "days"
  /\ req' = [req EXCEPT
       ![r].pc = IF spot[req[r].spot] = "ON" THEN "managers" ELSE "done",
       ![r].dates = {d \in UNION {WorkingDays(m) : m \in {MondayOf(today)} \cup
                                    {w \in weeks : w >= MondayOf(today)}} : d >= today}]
  /\ Quiet

ManagersOf(S) ==
  {<<p, employee[p].spot>> : p \in {p \in People :
     Entitled(p) /\ employee[p].role = "MANAGER" /\ employee[p].spot \in S}}

\* bookManagers for this person only, who must still be the manager of that spot.
BenefitManagers(r) ==
  /\ req[r].pc = "managers"
  /\ req' = [req EXCEPT
       ![r].pc = IF <<req[r].person, req[r].spot>> \in ManagersOf({req[r].spot})
                    THEN "assign" ELSE "done"]
  /\ Quiet

BenefitAssign(r) ==
  /\ req[r].pc = "assign"
  /\ \E X \in Inserted(AutoRows({<<req[r].person, req[r].spot>>}, req[r].dates, r)) :
       /\ booking' = booking \cup X
       /\ made' = made \cup X
  /\ req' = [req EXCEPT ![r].pc = "done"]
  /\ UNCHANGED <<today, employee, spot, weeks, run, crashes>>

\* employeeApps: the parking application of a person is turned on or off.
AppsChange(p) ==
  /\ "apps" \in Operations
  /\ employee[p].hired
  /\ employee' = [employee EXCEPT ![p].off = ~@]
  /\ UNCHANGED <<today, spot, booking, weeks, made, req, run, crashes>>

\* deleteEmployee: one transaction.
Leave(p) ==
  /\ "leave" \in Operations
  /\ employee[p].hired
  /\ employee' = [employee EXCEPT ![p] =
                    [role |-> "NONE", spot |-> None, off |-> FALSE, hired |-> FALSE]]
  /\ booking' = {b \in booking : b.person # p}
  /\ UNCHANGED <<today, spot, weeks, made, req, run, crashes>>

-----------------------------------------------------------------------------
(* The spots, from the console *)

\* The new state of the spot travels in role: USER for on, NONE for off.
UpdateSpotLoad(r, s, on) ==
  /\ CanBegin(r, "update")
  /\ spot[s] # "DELETED"
  /\ LET turnsOff == ~on /\ spot[s] = "ON"
         role == IF on THEN "USER" ELSE "NONE"
     IN req' = [req EXCEPT ![r] = Loaded("update", "update", None, role, s, {}, turnsOff)]
  /\ Quiet

UpdateSpotWrite(r) ==
  /\ req[r].pc = "update"
  /\ spot' = [spot EXCEPT ![req[r].spot] =
                IF @ = "DELETED" THEN @ ELSE IF req[r].role = "USER" THEN "ON" ELSE "OFF"]
  /\ req' = [req EXCEPT ![r].pc = IF req[r].flag THEN "off" ELSE "done"]
  /\ UNCHANGED <<today, employee, booking, weeks, made, run, crashes>>

SpotOff(r) ==
  /\ req[r].pc = "off"
  /\ booking' = {b \in booking : ~(b.spot = req[r].spot /\ b.date >= today)}
  /\ req' = [req EXCEPT ![r].pc = "done"]
  /\ UNCHANGED <<today, employee, spot, weeks, made, run, crashes>>

DeleteSpotLoad(r, s) ==
  /\ CanBegin(r, "delete")
  /\ spot[s] # "DELETED"
  /\ \A b \in booking : b.spot # s
  /\ \A p \in People : employee[p].spot # s
  /\ req' = [req EXCEPT ![r] = Loaded("delete", "delete", None, "NONE", s, {}, FALSE)]
  /\ Quiet

DeleteSpot(r) ==
  /\ req[r].pc = "delete"
  /\ spot' = [spot EXCEPT ![req[r].spot] = "DELETED"]
  /\ req' = [req EXCEPT ![r].pc = "done"]
  /\ UNCHANGED <<today, employee, booking, weeks, made, run, crashes>>

-----------------------------------------------------------------------------
(* The weekly run *)

\* The active spots are read before the transaction.
WeeklyLoad(q) ==
  /\ run[q].pc = "idle"
  /\ q \in Requests => CanBegin(q, "weekly")
  /\ \E s \in Spots : spot[s] = "ON"
  /\ run' = [run EXCEPT ![q].pc = "week", ![q].monday = NextMonday,
                        ![q].spots = {s \in Spots : spot[s] = "ON"}]
  /\ UNCHANGED <<today, employee, spot, booking, weeks, made, req, crashes>>

\* The end of a run: the cron starts another ten minutes later, a request is answered.
RunOver(q) == IF q = Job THEN "idle" ELSE "done"

\* The week is recorded already.
WeeklyKnown(q) ==
  /\ run[q].pc = "week"
  /\ run[q].monday \in weeks
  /\ run' = [run EXCEPT ![q].pc = RunOver(q)]
  /\ UNCHANGED <<today, employee, spot, booking, weeks, made, req, crashes>>

\* Bug: the week is recorded on its own, before the transaction.
WeeklyManagersAlone(q) ==
  /\ run[q].pc = "week"
  /\ run[q].monday \notin weeks
  /\ weeks' = weeks \cup {run[q].monday}
  /\ run' = [run EXCEPT ![q].pc = "managers", ![q].managers = ManagersOf(run[q].spots)]
  /\ UNCHANGED <<today, employee, spot, booking, made, req, crashes>>

\* Bug: the week is not recorded first, and nothing makes a second run wait.
WeeklyManagersUnordered(q) ==
  /\ run[q].pc = "week"
  /\ run' = [run EXCEPT ![q].pc = "managers", ![q].managers = ManagersOf(run[q].spots)]
  /\ UNCHANGED <<today, employee, spot, booking, weeks, made, req, crashes>>

\* The week is inserted (another run that inserts the same one waits for this transaction)
\* and the managers are read.
WeeklyManagers(q) ==
  /\ run[q].pc = "week"
  /\ run[q].monday \notin weeks
  /\ \A o \in Runs \ {q} : ~(run[o].pc = "managers" /\ run[o].monday = run[q].monday)
  /\ run' = [run EXCEPT ![q].pc = "managers", ![q].managers = ManagersOf(run[q].spots)]
  /\ UNCHANGED <<today, employee, spot, booking, weeks, made, req, crashes>>

\* Bookings and week are committed together.
WeeklyCommit(q) ==
  /\ run[q].pc = "managers"
  /\ \E X \in Inserted(AutoRows(run[q].managers, WorkingDays(run[q].monday), Job)) :
       /\ booking' = booking \cup X
       /\ made' = made \cup X
  /\ weeks' = weeks \cup {run[q].monday}
  /\ run' = [run EXCEPT ![q].pc = RunOver(q)]
  /\ UNCHANGED <<today, employee, spot, req, crashes>>

-----------------------------------------------------------------------------
(* Time and failure *)

InFlight(r) == req[r].pc \notin {"idle", "done", "dead"}

\* Midnight at the site, also in the middle of a request.
Tick ==
  /\ today < MaxDay
  /\ today' = today + 1
  /\ UNCHANGED <<employee, spot, booking, weeks, made, req, run, crashes>>

RequestFails(r) ==
  /\ InFlight(r)
  /\ crashes < MaxCrashes
  /\ req' = [req EXCEPT ![r].pc = "dead"]
  /\ crashes' = crashes + 1
  /\ UNCHANGED <<today, employee, spot, booking, weeks, made, run>>

\* Bug: the lock of a dead process is never released.
RunFailsLocked(q) ==
  /\ run[q].pc \in {"week", "managers"}
  /\ crashes < MaxCrashes
  /\ run' = [run EXCEPT ![q].pc = "done"]
  /\ crashes' = crashes + 1
  /\ UNCHANGED <<today, employee, spot, booking, weeks, made, req>>

\* The transaction of a run that dies rolls back; its lock goes with the connection.
RunFails(q) ==
  /\ run[q].pc \in {"week", "managers"}
  /\ crashes < MaxCrashes
  /\ run' = [run EXCEPT ![q].pc = RunOver(q)]
  /\ crashes' = crashes + 1
  /\ UNCHANGED <<today, employee, spot, booking, weeks, made, req>>

-----------------------------------------------------------------------------
Arrive(r) ==
  \/ \E p \in People, s \in Spots \cup {None} :
       \/ \E d \in BookableDays : Book(r, p, d, s)
       \/ \E D \in SUBSET BookableDays : D # {} /\ BookMany(r, p, D, s)
       \/ \E role \in Roles : BenefitLoad(r, p, role, s)
  \/ \E s \in Spots : DeleteSpotLoad(r, s) \/ \E on \in BOOLEAN : UpdateSpotLoad(r, s, on)

RequestStep(r) ==
  \/ DayLoad(r) \/ DayRefused(r) \/ Insert(r) \/ Duplicate(r)
  \/ BenefitUpdate(r) \/ BenefitFind(r) \/ BenefitDrop(r) \/ BenefitDays(r)
  \/ BenefitManagers(r) \/ BenefitAssign(r)
  \/ UpdateSpotWrite(r) \/ SpotOff(r) \/ DeleteSpot(r)

RunStep(q) == WeeklyLoad(q) \/ WeeklyKnown(q) \/ WeeklyManagers(q) \/ WeeklyCommit(q)

Next ==
  \/ \E r \in Requests : Arrive(r) \/ RequestStep(r) \/ RequestFails(r)
  \/ \E q \in Runs : RunStep(q) \/ RunFails(q)
  \/ \E b \in booking : Cancel(b)
  \/ \E p \in People : AppsChange(p) \/ Leave(p)
  \/ Tick

Spec == Init /\ [][Next]_vars

\* The cron starts the weekly run every ten minutes and the event loop goes on with it; a
\* transaction of the console ends too.
FairSpec == Spec /\ WF_vars(RunStep(Job)) /\ \A r \in Requests : WF_vars(WeeklyCommit(r))

-----------------------------------------------------------------------------
(* Safety *)

NoBenefitChange ==
  \A r \in Requests : req[r].op # "benefit"

\* Requests that race for one standard user exceed the limit of active bookings by at most one
\* each but the last: book checks the limit once per day, just before the spot.
OverbookingBounded ==
  NoBenefitChange =>
    \A p \in People : employee[p].role = "USER" =>
      Cardinality(ActiveBookings(p)) <= MaxActive + Cardinality(Requests) - 1

\* A spot the person chose is never swapped for another (book), nor taken twice by two people.
ChosenSpotOrNone ==
  \A b \in booking :
    b.source = "MANUAL" /\ req[b.by].spot # None => b.spot = req[b.by].spot

\* Whatever races for the spots of a day, the insert is what decides: it keeps the choice of the
\* person and lets through only what was checked before it.
SpotsAsOffered == ChosenSpotOrNone /\ OverbookingBounded

\* While benefits, applications and spots are left alone, a week recorded as handed out really
\* was: on each of its days a manager has or had the spot, or somebody had booked the spot, or the
\* manager another one (weekly: the week and its bookings are one transaction).
StaticSite == Operations \cap {"benefit", "apps", "update", "delete"} = {}
RecordedWeekIsBooked ==
  StaticSite =>
    \A m \in weeks, p \in People : employee[p].role = "MANAGER" =>
      \A d \in WorkingDays(m) :
        \E b \in made : b.date = d /\ (b.person = p \/ b.spot = employee[p].spot)

\* "A day a manager gives back is not booked again" by a weekly run, of the cron or the console
\* (parking_weeks).
GivenBackStaysFree == [][\A b \in made \ booking : b.by = Job => b \notin booking']_vars

\* "The past bookings stay readable": while the person is there, no request that began today
\* removes a booking of an earlier day, whatever it turns off, cancels or changes.
PastBookingsStay ==
  [][\A b \in booking \ booking' :
       \/ b.date >= today
       \/ ~employee'[b.person].hired
       \/ \E r \in Requests : req'[r] # req[r] /\ req[r].since <= b.date]_vars

-----------------------------------------------------------------------------
(* Liveness, of FairSpec *)

\* While a spot is on, the week after gets handed out, whoever died before.
WeekIsHandedOut ==
  \A m \in Dates :
    (NextMonday = m) ~> (m \in weeks \/ NextMonday # m \/ \A s \in Spots : spot[s] # "ON")

=============================================================================
