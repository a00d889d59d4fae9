--------------------------- MODULE ParkingProofs ---------------------------
(***************************************************************************)
(* Theorems about the parking, for any number of requests, people, spots   *)
(* and days: the types with the two unique indexes, and that no weekly run *)
(* takes back a day a manager has given up.                                *)
(***************************************************************************)
EXTENDS Parking, FiniteSetTheorems, TLAPS

-----------------------------------------------------------------------------
(* The calendar *)

IsMonday(m) == \E k \in Int : m = WeekLength * k

LEMMA CalendarTypes ==
  ASSUME today \in 0..MaxDay
  PROVE  /\ MondayOf(today) \in Mondays /\ IsMonday(MondayOf(today))
         /\ NextMonday \in Mondays /\ IsMonday(NextMonday)
<1> DEFINE W == WeekLength
           q == today \div W
           d == today % W
<1>1. W \in Nat \ {0} /\ MaxDay \in Nat
  BY ParkingAssumption
<1>2. q \in Int /\ d \in 0..(W - 1) /\ today = W * q + d
  BY <1>1
<1> HIDE DEF q, d
<1>3. MondayOf(today) = today - d
  BY DEF MondayOf, d
<1>4. W * q \in Int
  BY <1>1, <1>2
<1>5. W * q = today - d
  BY <1>1, <1>2, <1>4
<1>6. q >= 0
  <2> SUFFICES ASSUME q < 0 PROVE FALSE
    BY <1>2
  <2>1. q <= -1
    BY <1>2
  <2>2. W * q <= W * (-1)
    BY <2>1, <1>1, <1>2
  <2> QED BY <2>2, <1>1, <1>2, <1>4, <1>5
<1>7. W * q >= 0
  BY <1>6, <1>1, <1>2
<1>8. today - d \in 0..MaxDay
  BY <1>7, <1>5, <1>2, <1>1
<1>9. IsMonday(today - d)
  BY <1>5, <1>2 DEF IsMonday
<1>10. IsMonday(today - d + W)
  <2>1. W * (q + 1) = W * q + W /\ q + 1 \in Int
    BY <1>1, <1>2
  <2> QED BY <2>1, <1>5 DEF IsMonday
<1> QED BY <1>1, <1>3, <1>8, <1>9, <1>10 DEF NextMonday, Mondays

LEMMA WorkingDaysAreDates ==
  ASSUME NEW m \in Mondays PROVE WorkingDays(m) \subseteq Dates
  BY ParkingAssumption DEF Mondays, WorkingDays, Dates

LEMMA BookableDaysAreDates ==
  ASSUME today \in 0..MaxDay PROVE BookableDays \subseteq Dates
  BY CalendarTypes, WorkingDaysAreDates DEF BookableDays

(* The working days of two weeks have no day in common. *)
LEMMA WeeksAreDisjoint ==
  ASSUME NEW m \in Int, NEW n \in Int, IsMonday(m), IsMonday(n), m # n
  PROVE  WorkingDays(m) \cap WorkingDays(n) = {}
<1> DEFINE W == WeekLength
<1>1. W \in Nat \ {0} /\ WorkingDaysInWeek \in Nat /\ WorkingDaysInWeek <= W
  BY ParkingAssumption
<1>2. PICK j \in Int : m = W * j
  BY DEF IsMonday
<1>3. PICK k \in Int : n = W * k
  BY DEF IsMonday
<1>4. \A a, b \in Int : a < b => W * a + W <= W * b
  <2> SUFFICES ASSUME NEW a \in Int, NEW b \in Int, a < b PROVE W * a + W <= W * b
    OBVIOUS
  <2>1. b - a >= 1 /\ b - a \in Int
    OBVIOUS
  <2>2. W * (b - a) >= W
    BY <2>1, <1>1
  <2>3. W * (b - a) = W * b - W * a
    BY <1>1
  <2> QED BY <2>2, <2>3, <1>1
<1>5. CASE j < k
  <2>1. m + W <= n
    BY <1>4, <1>5, <1>2, <1>3
  <2> QED BY <2>1, <1>1 DEF WorkingDays
<1>6. CASE k < j
  <2>1. n + W <= m
    BY <1>4, <1>6, <1>2, <1>3
  <2> QED BY <2>1, <1>1 DEF WorkingDays
<1> QED BY <1>5, <1>6, <1>2, <1>3

-----------------------------------------------------------------------------
(* The inductive invariant *)

(* What a handler has loaded at each point: the person, the spot, and for an   *)
(* INSERT the day and at least one spot to try.                               *)
Prepared(r) ==
  /\ req[r].pc \in {"day", "insert", "benefit", "changed", "drop", "days", "managers", "assign"}
       => req[r].person # None
  /\ req[r].pc \in {"days", "managers", "assign", "update", "off", "delete"} => req[r].spot # None
  /\ req[r].pc = "insert" => Day(r) \in Dates /\ req[r].order # << >>

RequestsOK == \A r \in Requests : Prepared(r)

(* The weeks handed out are whole ones, a week on its way is not recorded and  *)
(* has one run, and whatever a weekly run has made is of a recorded week.      *)
WeeksOK ==
  /\ \A m \in weeks : IsMonday(m)
  /\ \A q \in Runs : run[q].pc \in {"week", "managers"} => IsMonday(run[q].monday)
  /\ \A q \in Runs : run[q].pc = "managers" => run[q].monday \notin weeks
  /\ \A q, o \in Runs :
       run[q].pc = "managers" /\ run[o].pc = "managers" /\ run[q].monday = run[o].monday => q = o
  /\ \A b \in made : b.by = Job => \E m \in weeks : b.date \in WorkingDays(m)

IInv == TypeOK /\ RequestsOK /\ WeeksOK

-----------------------------------------------------------------------------
(* Lemmas about the operators *)

(* Moving a request to another point of its handler keeps its type. *)
LEMMA MoveType ==
  ASSUME req \in [Requests -> RequestState], NEW r \in Requests, NEW l \in Labels
  PROVE  [req EXCEPT ![r].pc = l] \in [Requests -> RequestState]
  BY DEF RequestState

LEMMA LoadedType ==
  ASSUME req \in [Requests -> RequestState], today \in 0..MaxDay, NEW r \in Requests,
         NEW op \in AllOperations \cup {None}, NEW pc \in Labels, NEW person \in People \cup {None},
         NEW role \in Roles, NEW s \in Spots \cup {None}, NEW D \in SUBSET Dates, NEW flag \in BOOLEAN
  PROVE  [req EXCEPT ![r] = Loaded(op, pc, person, role, s, D, flag)] \in [Requests -> RequestState]
<1>1. today \in Dates
  BY ParkingAssumption DEF Dates
<1>2. << >> \in SpotLists
  BY DEF SpotLists
<1>3. Loaded(op, pc, person, role, s, D, flag) \in RequestState
  BY <1>1, <1>2 DEF Loaded, RequestState
<1> QED BY <1>3

LEMMA OrderType ==
  ASSUME req \in [Requests -> RequestState], NEW r \in Requests, NEW l \in Labels, NEW o \in SpotLists
  PROVE  [req EXCEPT ![r].pc = l, ![r].order = o] \in [Requests -> RequestState]
<1> DEFINE q == [req[r] EXCEPT !.pc = l, !.order = o]
<1>1. q \in RequestState
  BY DEF RequestState
<1>2. [req EXCEPT ![r].pc = l, ![r].order = o] = [req EXCEPT ![r] = q]
  OBVIOUS
<1> HIDE DEF q
<1> QED BY <1>1, <1>2

LEMMA TailType ==
  ASSUME req \in [Requests -> RequestState], NEW r \in Requests, NEW o \in SpotLists
  PROVE  [req EXCEPT ![r].order = o] \in [Requests -> RequestState]
  BY DEF RequestState

LEMMA DatesType ==
  ASSUME req \in [Requests -> RequestState], NEW r \in Requests, NEW l \in Labels,
         NEW D \in SUBSET Dates
  PROVE  [req EXCEPT ![r].pc = l, ![r].dates = D] \in [Requests -> RequestState]
<1> DEFINE q == [req[r] EXCEPT !.pc = l, !.dates = D]
<1>1. q \in RequestState
  BY DEF RequestState
<1>2. [req EXCEPT ![r].pc = l, ![r].dates = D] = [req EXCEPT ![r] = q]
  OBVIOUS
<1> HIDE DEF q
<1> QED BY <1>1, <1>2

LEMMA SettledType ==
  ASSUME req \in [Requests -> RequestState], NEW r \in Requests, NEW l \in Labels,
         NEW D \in SUBSET Dates, NEW o \in SpotLists
  PROVE  [req EXCEPT ![r].dates = D, ![r].order = o, ![r].pc = l] \in [Requests -> RequestState]
<1> DEFINE q == [req[r] EXCEPT !.dates = D, !.order = o, !.pc = l]
<1>1. q \in RequestState
  BY DEF RequestState
<1>2. [req EXCEPT ![r].dates = D, ![r].order = o, ![r].pc = l] = [req EXCEPT ![r] = q]
  OBVIOUS
<1> HIDE DEF q
<1> QED BY <1>1, <1>2

LEMMA FoundType ==
  ASSUME req \in [Requests -> RequestState], NEW r \in Requests, NEW l \in Labels,
         NEW role \in Roles, NEW s \in Spots \cup {None}, NEW F \in SUBSET BookingRow
  PROVE  [req EXCEPT ![r].pc = l, ![r].role = role, ![r].spot = s, ![r].found = F]
           \in [Requests -> RequestState]
<1> DEFINE q == [req[r] EXCEPT !.pc = l, !.role = role, !.spot = s, !.found = F]
<1>1. q \in RequestState
  BY DEF RequestState
<1>2. [req EXCEPT ![r].pc = l, ![r].role = role, ![r].spot = s, ![r].found = F] = [req EXCEPT ![r] = q]
  OBVIOUS
<1> HIDE DEF q
<1> QED BY <1>1, <1>2

LEMMA NextDayType ==
  ASSUME req \in [Requests -> RequestState], NEW r \in Requests, NextDay(r)
  PROVE  /\ req' \in [Requests -> RequestState]
         /\ \A q \in Requests \ {r} : req'[q] = req[q]
         /\ req'[r].pc \in {"day", "done"}
         /\ req'[r].person = req[r].person
<1> DEFINE left == req[r].dates \ {Day(r)}
           l == IF left = {} THEN "done" ELSE "day"
<1>1. req' = [req EXCEPT ![r].dates = left, ![r].order = << >>, ![r].pc = l]
  BY DEF NextDay
<1>2. left \in SUBSET Dates /\ l \in Labels /\ l \in {"day", "done"}
  BY DEF RequestState, Labels
<1>3. << >> \in SpotLists
  BY DEF SpotLists
<1> HIDE DEF left, l
<1>4. req' \in [Requests -> RequestState]
  BY <1>1, <1>2, <1>3, SettledType
<1> QED BY <1>1, <1>2, <1>4 DEF RequestState

(* An order of spots lists every spot: there is one to try if there is any. *)
LEMMA OrdersType ==
  ASSUME NEW p, NEW S \in SUBSET Spots, NEW o \in Orders(p, S)
  PROVE  o \in SpotLists /\ (S # {} => o # << >>)
<1>1. IsFiniteSet(S)
  BY FS_Subset, ParkingAssumption
<1>2. Cardinality(S) \in Nat /\ (Cardinality(S) = 0 <=> S = {})
  BY <1>1, FS_CardinalityType, FS_EmptySet
<1>3. o \in [1..Cardinality(S) -> Spots]
  BY DEF Orders
<1>4. o \in Seq(Spots) /\ Len(o) = Cardinality(S)
  BY <1>2, <1>3
<1> QED BY <1>2, <1>4 DEF SpotLists

LEMMA CandidateSpots == \A r \in Requests : Candidates(r) \subseteq Spots
  BY DEF Candidates, FreeOn

LEMMA UniqueSubset ==
  ASSUME NEW B, Unique(B), NEW C \in SUBSET B PROVE Unique(C)
  BY DEF Unique

LEMMA RowType ==
  ASSUME TypeOK, RequestsOK, NEW r \in Requests, req[r].pc = "insert"
  PROVE  Row(r) \in BookingRow /\ Row(r).by = r
<1>1. req[r] \in RequestState
  BY DEF TypeOK
<1>2. req[r].person \in People /\ Day(r) \in Dates
  BY <1>1 DEF RequestsOK, Prepared, RequestState
<1>3. Head(req[r].order) \in Spots
  <2>1. req[r].order \in Seq(Spots) /\ req[r].order # << >>
    BY <1>1 DEF RequestsOK, Prepared, RequestState, SpotLists
  <2> QED BY <2>1
<1> QED BY <1>2, <1>3 DEF Row, BookingRow, Runs

LEMMA AutoRowsType ==
  ASSUME NEW M \in SUBSET (People \X Spots), NEW D \in SUBSET Dates, NEW by \in Runs
  PROVE  /\ AutoRows(M, D, by) \subseteq BookingRow
         /\ \A b \in AutoRows(M, D, by) : b.by = by /\ b.date \in D
  BY DEF AutoRows, BookingRow

LEMMA InsertedType ==
  ASSUME TypeOK, NEW C \in SUBSET BookingRow, NEW X \in Inserted(C)
  PROVE  X \subseteq C /\ booking \cup X \in SUBSET BookingRow /\ Unique(booking \cup X)
  BY DEF TypeOK, Inserted

LEMMA ManagersType ==
  ASSUME TypeOK, NEW S \in SUBSET Spots PROVE ManagersOf(S) \in SUBSET (People \X Spots)
  BY DEF ManagersOf

-----------------------------------------------------------------------------
(* Types *)

LEMMA InitTypeOK == Init => TypeOK
<1> SUFFICES ASSUME Init PROVE TypeOK
  OBVIOUS
<1>1. 0 \in 0..MaxDay /\ 0 \in Mondays /\ 0 \in Dates
  BY ParkingAssumption DEF Mondays, Dates
<1>2. req \in [Requests -> RequestState]
  <2>1. << >> \in SpotLists
    BY DEF SpotLists
  <2> QED BY <1>1, <2>1 DEF Init, Loaded, RequestState, Labels, Roles
<1>3. run \in [Runs -> RunState]
  BY <1>1 DEF Init, RunState
<1>4. Unique(booking)
  BY DEF Init, Unique
<1> QED BY <1>1, <1>2, <1>3, <1>4 DEF Init, TypeOK

(* Steps of a request. *)
LEMMA RequestTypeOK ==
  ASSUME TypeOK, RequestsOK, WeeksOK, NEW r \in Requests
  PROVE  Arrive(r) \/ RequestStep(r) \/ RequestFails(r) => TypeOK'
<1> USE DEF TypeOK
<1>0. req[r] \in RequestState
  OBVIOUS
<1>1. ASSUME NEW p \in People, NEW s \in Spots \cup {None}, NEW d \in BookableDays, Book(r, p, d, s)
      PROVE  TypeOK'
  <2>1. {d} \in SUBSET Dates /\ "book" \in AllOperations /\ "day" \in Labels /\ "NONE" \in Roles
    BY BookableDaysAreDates DEF AllOperations, Labels, Roles
  <2> QED BY <1>1, <2>1, LoadedType DEF Book, Quiet
<1>2. ASSUME NEW p \in People, NEW s \in Spots \cup {None}, NEW D \in SUBSET BookableDays,
             BookMany(r, p, D, s)
      PROVE  TypeOK'
  <2>1. D \in SUBSET Dates /\ "many" \in AllOperations /\ "day" \in Labels /\ "NONE" \in Roles
    BY BookableDaysAreDates DEF AllOperations, Labels, Roles
  <2> QED BY <1>2, <2>1, LoadedType DEF BookMany, Quiet
<1>3. ASSUME NEW p \in People, NEW s \in Spots \cup {None}, NEW role \in Roles,
             BenefitLoad(r, p, role, s)
      PROVE  TypeOK'
  <2>1. "benefit" \in AllOperations /\ "benefit" \in Labels
    BY DEF AllOperations, Labels
  <2> QED BY <1>3, <2>1, LoadedType DEF BenefitLoad, Quiet
<1>4. ASSUME NEW s \in Spots, DeleteSpotLoad(r, s) PROVE TypeOK'
  <2>1. "delete" \in AllOperations /\ "delete" \in Labels /\ "NONE" \in Roles
    BY DEF AllOperations, Labels, Roles
  <2> QED BY <1>4, <2>1, LoadedType DEF DeleteSpotLoad, Quiet
<1>5. ASSUME NEW s \in Spots, NEW on \in BOOLEAN, UpdateSpotLoad(r, s, on) PROVE TypeOK'
  <2>1. "update" \in AllOperations /\ "update" \in Labels /\ {"NONE", "USER"} \subseteq Roles
    BY DEF AllOperations, Labels, Roles
  <2> QED BY <1>5, <2>1, LoadedType DEF UpdateSpotLoad, Quiet
<1>6. CASE DayLoad(r)
  <2>1. PICK o \in Orders(req[r].person, Candidates(r)) :
          req' = [req EXCEPT ![r].pc = "insert", ![r].order = o]
    BY <1>6 DEF DayLoad
  <2>2. o \in SpotLists
    BY OrdersType, CandidateSpots
  <2>3. req' \in [Requests -> RequestState]
    BY <2>1, <2>2, OrderType DEF Labels
  <2> QED BY <1>6, <2>3 DEF DayLoad, Quiet
<1>7. CASE DayRefused(r)
  BY <1>7, NextDayType DEF DayRefused, Quiet
<1>8. CASE Insert(r)
  <2>1. Row(r) \in BookingRow
    BY <1>8, RowType DEF Insert
  <2> QED BY <1>8, <2>1, NextDayType DEF Insert
<1>9. CASE Duplicate(r)
  <2>1. req[r].order \in Seq(Spots)
    BY <1>0 DEF RequestState, SpotLists
  <2>2. CASE NextDay(r)
    BY <2>2, <1>9, NextDayType DEF Duplicate, Quiet
  <2>3. CASE req' = [req EXCEPT ![r].order = Tail(@)] /\ Len(req[r].order) # 1
    <3>1. Tail(req[r].order) \in SpotLists
      <4>1. req[r].order # << >>
        BY <1>9 DEF Duplicate, RequestsOK, Prepared
      <4> QED BY <4>1, <2>1 DEF SpotLists
    <3>2. req' \in [Requests -> RequestState]
      BY <2>3, <3>1, TailType
    <3> QED BY <3>2, <1>9 DEF Duplicate, Quiet
  <2> QED BY <1>9, <2>2, <2>3 DEF Duplicate
<1>10. CASE BenefitUpdate(r)
  <2>1. req[r].person \in People /\ req[r].role \in Roles /\ req[r].spot \in Spots \cup {None}
    BY <1>0, <1>10 DEF BenefitUpdate, RequestsOK, Prepared, RequestState
  <2>2. req' \in [Requests -> RequestState]
    BY <1>10, MoveType DEF BenefitUpdate, Labels
  <2>3. employee' \in [People -> EmployeeRow]
    BY <1>10, <2>1 DEF BenefitUpdate, EmployeeRow
  <2> QED BY <1>10, <2>2, <2>3 DEF BenefitUpdate
<1>11. CASE BenefitFind(r)
  <2>1. req[r].person \in People
    BY <1>0, <1>11 DEF BenefitFind, RequestsOK, Prepared, RequestState
  <2>2. employee[req[r].person].role \in Roles /\ employee[req[r].person].spot \in Spots \cup {None}
    BY <2>1 DEF EmployeeRow
  <2> DEFINE l == IF employee[req[r].person].hired THEN "drop" ELSE "done"
             F == {b \in booking : b.person = req[r].person /\ b.source = "AUTO" /\ b.date >= today}
  <2>3. l \in Labels /\ F \in SUBSET BookingRow
    BY DEF Labels
  <2>4. req' = [req EXCEPT ![r].pc = l, ![r].role = employee[req[r].person].role,
                           ![r].spot = employee[req[r].person].spot, ![r].found = F]
    BY <1>11 DEF BenefitFind
  <2> HIDE DEF l, F
  <2>5. req' \in [Requests -> RequestState]
    BY <2>2, <2>3, <2>4, FoundType
  <2> QED BY <1>11, <2>5 DEF BenefitFind, Quiet
<1>12. CASE BenefitDrop(r)
  <2>1. req' \in [Requests -> RequestState]
    BY <1>12, MoveType DEF BenefitDrop, Labels
  <2> QED BY <1>12, <2>1, UniqueSubset DEF BenefitDrop
<1>13. CASE BenefitDays(r)
  <2> DEFINE l == IF spot[req[r].spot] = "ON" THEN "managers" ELSE "done"
             D == {d \in UNION {WorkingDays(m) : m \in {MondayOf(today)} \cup
                                   {w \in weeks : w >= MondayOf(today)}} : d >= today}
  <2>1. l \in Labels /\ D \in SUBSET Dates
    BY CalendarTypes, WorkingDaysAreDates DEF Labels
  <2>2. req' = [req EXCEPT ![r].pc = l, ![r].dates = D]
    BY <1>13 DEF BenefitDays
  <2> HIDE DEF l, D
  <2>3. req' \in [Requests -> RequestState]
    BY <2>1, <2>2, DatesType
  <2> QED BY <1>13, <2>3 DEF BenefitDays, Quiet
<1>14. CASE BenefitManagers(r)
  BY <1>14, MoveType DEF BenefitManagers, Labels, Quiet
<1>15. CASE BenefitAssign(r)
  <2> DEFINE C == AutoRows({<<req[r].person, req[r].spot>>}, req[r].dates, r)
  <2>1. {<<req[r].person, req[r].spot>>} \in SUBSET (People \X Spots) /\ req[r].dates \in SUBSET Dates
    BY <1>0, <1>15 DEF BenefitAssign, RequestsOK, Prepared, RequestState
  <2>2. C \subseteq BookingRow
    BY <2>1, AutoRowsType DEF Runs
  <2>3. PICK X \in Inserted(C) : booking' = booking \cup X /\ made' = made \cup X
    BY <1>15 DEF BenefitAssign
  <2> HIDE DEF C
  <2>4. X \subseteq BookingRow /\ Unique(booking \cup X)
    BY <2>2, InsertedType
  <2>5. req' \in [Requests -> RequestState]
    BY <1>15, MoveType DEF BenefitAssign, Labels
  <2> QED BY <1>15, <2>3, <2>4, <2>5 DEF BenefitAssign
<1>16. CASE UpdateSpotWrite(r)
  <2>1. req' \in [Requests -> RequestState]
    BY <1>16, MoveType DEF UpdateSpotWrite, Labels
  <2> QED BY <1>16, <2>1 DEF UpdateSpotWrite
<1>17. CASE SpotOff(r)
  <2>1. req' \in [Requests -> RequestState]
    BY <1>17, MoveType DEF SpotOff, Labels
  <2> QED BY <1>17, <2>1, UniqueSubset DEF SpotOff
<1>18. CASE DeleteSpot(r)
  <2>1. req' \in [Requests -> RequestState]
    BY <1>18, MoveType DEF DeleteSpot, Labels
  <2> QED BY <1>18, <2>1 DEF DeleteSpot
<1>19. CASE RequestFails(r)
  <2>1. req' \in [Requests -> RequestState]
    BY <1>19, MoveType DEF RequestFails, Labels
  <2> QED BY <1>19, <2>1 DEF RequestFails
<1> QED
  BY <1>1, <1>2, <1>3, <1>4, <1>5, <1>6, <1>7, <1>8, <1>9, <1>10, <1>11, <1>12, <1>13, <1>14,
     <1>15, <1>16, <1>17, <1>18, <1>19 DEF Arrive, RequestStep

(* Steps of everything else. *)
LEMMA RunTypeOK ==
  ASSUME TypeOK, NEW q \in Runs PROVE RunStep(q) \/ RunFails(q) => TypeOK'
<1> USE DEF TypeOK
<1>0. run[q] \in RunState /\ RunOver(q) \in {"idle", "done"}
  BY DEF RunOver
<1>1. CASE WeeklyLoad(q)
  <2>1. NextMonday \in Mondays
    BY CalendarTypes
  <2> DEFINE S == {s \in Spots : spot[s] = "ON"}
             x == [run[q] EXCEPT !.pc = "week", !.monday = NextMonday, !.spots = S]
  <2>2. run' = [run EXCEPT ![q] = x]
    BY <1>1 DEF WeeklyLoad
  <2>3. x \in RunState
    BY <2>1, <1>0 DEF RunState
  <2> HIDE DEF x
  <2>4. run' \in [Runs -> RunState]
    BY <2>2, <2>3
  <2> QED BY <1>1, <2>4 DEF WeeklyLoad
<1>2. CASE WeeklyKnown(q)
  BY <1>2, <1>0 DEF WeeklyKnown, RunState
<1>3. CASE WeeklyManagers(q)
  <2>1. ManagersOf(run[q].spots) \in SUBSET (People \X Spots)
    BY <1>0, ManagersType DEF RunState
  <2>2. run' \in [Runs -> RunState]
    <3> DEFINE M == ManagersOf(run[q].spots)
               x == [run[q] EXCEPT !.pc = "managers", !.managers = M]
    <3>1. run' = [run EXCEPT ![q] = x]
      BY <1>3 DEF WeeklyManagers
    <3> HIDE DEF M
    <3>2. x \in RunState
      BY <2>1, <1>0 DEF RunState, M
    <3> HIDE DEF x
    <3> QED BY <3>1, <3>2
  <2> QED BY <1>3, <2>2 DEF WeeklyManagers
<1>4. CASE WeeklyCommit(q)
  <2> DEFINE C == AutoRows(run[q].managers, WorkingDays(run[q].monday), Job)
  <2>1. run[q].monday \in Mondays /\ run[q].managers \in SUBSET (People \X Spots)
    BY <1>0 DEF RunState
  <2>2. C \subseteq BookingRow
    BY <2>1, WorkingDaysAreDates, AutoRowsType DEF Runs
  <2>3. PICK X \in Inserted(C) : booking' = booking \cup X /\ made' = made \cup X
    BY <1>4 DEF WeeklyCommit
  <2> HIDE DEF C
  <2>4. X \subseteq BookingRow /\ Unique(booking \cup X)
    BY <2>2, InsertedType
  <2>5. run' \in [Runs -> RunState]
    BY <1>4, <1>0 DEF WeeklyCommit, RunState
  <2> QED BY <1>4, <2>1, <2>3, <2>4, <2>5 DEF WeeklyCommit
<1>5. CASE RunFails(q)
  <2>1. run' \in [Runs -> RunState]
    BY <1>5, <1>0 DEF RunFails, RunState
  <2> QED BY <1>5, <2>1 DEF RunFails
<1> QED BY <1>1, <1>2, <1>3, <1>4, <1>5 DEF RunStep

LEMMA StepTypeOK == TypeOK /\ RequestsOK /\ WeeksOK /\ [Next]_vars => TypeOK'
<1> SUFFICES ASSUME TypeOK, RequestsOK, WeeksOK, [Next]_vars PROVE TypeOK'
  OBVIOUS
<1>1. ASSUME NEW b \in booking, Cancel(b) PROVE TypeOK'
  BY <1>1, UniqueSubset DEF Cancel, TypeOK
<1>2. ASSUME NEW p \in People, AppsChange(p) PROVE TypeOK'
  BY <1>2 DEF AppsChange, TypeOK, EmployeeRow
<1>3. ASSUME NEW p \in People, Leave(p) PROVE TypeOK'
  BY <1>3, UniqueSubset DEF Leave, TypeOK, EmployeeRow, Roles
<1>4. CASE Tick
  BY <1>4, ParkingAssumption DEF Tick, TypeOK
<1>5. CASE UNCHANGED vars
  BY <1>5 DEF vars, TypeOK, Unique
<1> QED BY <1>1, <1>2, <1>3, <1>4, <1>5, RequestTypeOK, RunTypeOK DEF Next

-----------------------------------------------------------------------------
(* What handlers have loaded *)

(* Only the request that takes the step can come to be less than prepared. *)
LEMMA OthersPrepared ==
  ASSUME RequestsOK, NEW r \in Requests, \A q \in Requests \ {r} : req'[q] = req[q], Prepared(r)'
  PROVE  RequestsOK'
  BY DEF RequestsOK, Prepared, Day

LEMMA AllPrepared == ASSUME RequestsOK, req' = req PROVE RequestsOK'
  BY DEF RequestsOK, Prepared, Day

LEMMA RequestPrepared ==
  ASSUME TypeOK, RequestsOK, NEW r \in Requests, Arrive(r) \/ RequestStep(r) \/ RequestFails(r)
  PROVE  RequestsOK'
<1>0. req \in [Requests -> RequestState] /\ req[r] \in RequestState /\ None \notin People \cup Spots
  BY ParkingAssumption DEF TypeOK
<1>a. Prepared(r)
  BY DEF RequestsOK
<1> SUFFICES Prepared(r)' /\ \A q \in Requests \ {r} : req'[q] = req[q]
  BY OthersPrepared
<1>1. CASE Arrive(r)
  BY <1>1, <1>0 DEF Arrive, Book, BookMany, BenefitLoad, DeleteSpotLoad, UpdateSpotLoad, Loaded, Prepared
<1>2. CASE DayLoad(r)
  <2>1. Candidates(r) # {} /\ Day(r) \in Dates
    BY <1>2, BookableDaysAreDates DEF DayLoad, DayOpen, TypeOK
  <2>2. PICK o \in Orders(req[r].person, Candidates(r)) :
          req' = [req EXCEPT ![r].pc = "insert", ![r].order = o]
    BY <1>2 DEF DayLoad
  <2>3. o # << >>
    BY <2>1, CandidateSpots, OrdersType
  <2>4. /\ req'[r].pc = "insert" /\ req'[r].order = o /\ req'[r].person = req[r].person
        /\ req'[r].dates = req[r].dates
        /\ \A q \in Requests \ {r} : req'[q] = req[q]
    BY <2>2, <1>0 DEF RequestState
  <2>5. req[r].person # None
    BY <1>2, <1>a DEF DayLoad, Prepared
  <2> QED BY <2>1, <2>3, <2>4, <2>5 DEF Prepared, Day
<1>3. CASE NextDay(r) /\ req[r].pc \in {"day", "insert"}
  BY <1>3, <1>0, <1>a, NextDayType DEF Prepared
<1>4. CASE Duplicate(r) /\ ~NextDay(r)
  <2>1. /\ req' = [req EXCEPT ![r].order = Tail(@)] /\ Len(req[r].order) # 1 /\ req[r].pc = "insert"
    BY <1>4 DEF Duplicate
  <2>2. req[r].order \in Seq(Spots) /\ req[r].order # << >>
    BY <2>1, <1>0, <1>a DEF Prepared, RequestState, SpotLists
  <2>3. Tail(req[r].order) # << >>
    <3>1. Len(req[r].order) \in Nat /\ Len(req[r].order) # 0
      BY <2>2
    <3>2. Len(Tail(req[r].order)) = Len(req[r].order) - 1
      BY <2>2, <3>1
    <3>3. Len(Tail(req[r].order)) # 0
      BY <2>1, <3>1, <3>2
    <3> DEFINE t == Tail(req[r].order)
    <3> HIDE DEF t
    <3>4. t = << >> => Len(t) = 0
      OBVIOUS
    <3> QED BY <3>3, <3>4 DEF t
  <2>4. /\ req'[r].pc = "insert" /\ req'[r].order = Tail(req[r].order)
        /\ req'[r].person = req[r].person /\ req'[r].dates = req[r].dates
        /\ \A q \in Requests \ {r} : req'[q] = req[q]
    BY <2>1, <1>0 DEF RequestState
  <2> QED BY <2>1, <2>3, <2>4, <1>a DEF Prepared, Day
<1>5. CASE BenefitUpdate(r)
  BY <1>5, <1>0, <1>a DEF BenefitUpdate, Prepared
<1>6. CASE BenefitFind(r)
  BY <1>6, <1>0, <1>a DEF BenefitFind, Prepared
<1>7. CASE BenefitDrop(r)
  BY <1>7, <1>0, <1>a DEF BenefitDrop, Prepared
<1>8. CASE BenefitDays(r)
  BY <1>8, <1>0, <1>a DEF BenefitDays, Prepared
<1>9. CASE BenefitManagers(r)
  BY <1>9, <1>0, <1>a DEF BenefitManagers, Prepared
<1>10. CASE BenefitAssign(r)
  BY <1>10, <1>0, <1>a DEF BenefitAssign, Prepared
<1>11. CASE UpdateSpotWrite(r)
  BY <1>11, <1>0, <1>a DEF UpdateSpotWrite, Prepared
<1>12. CASE SpotOff(r)
  BY <1>12, <1>0, <1>a DEF SpotOff, Prepared
<1>13. CASE DeleteSpot(r)
  BY <1>13, <1>0, <1>a DEF DeleteSpot, Prepared
<1>14. CASE RequestFails(r)
  BY <1>14, <1>0, <1>a DEF RequestFails, Prepared
<1>15. CASE DayRefused(r) \/ Insert(r) \/ (Duplicate(r) /\ NextDay(r))
  BY <1>15, <1>3 DEF DayRefused, Insert, Duplicate
<1> QED
  BY <1>1, <1>2, <1>4, <1>5, <1>6, <1>7, <1>8, <1>9, <1>10, <1>11, <1>12, <1>13, <1>14, <1>15
  DEF RequestStep

LEMMA StepRequestsOK == TypeOK /\ RequestsOK /\ [Next]_vars => RequestsOK'
<1> SUFFICES ASSUME TypeOK, RequestsOK, [Next]_vars PROVE RequestsOK'
  OBVIOUS
<1>1. CASE req' = req
  BY <1>1, AllPrepared
<1>2. CASE \E r \in Requests : Arrive(r) \/ RequestStep(r) \/ RequestFails(r)
  BY <1>2, RequestPrepared
<1> QED
  BY <1>1, <1>2 DEF Next, vars, RunStep, WeeklyLoad, WeeklyKnown, WeeklyManagers, WeeklyCommit, RunFails,
     Cancel, AppsChange, Leave, Tick

-----------------------------------------------------------------------------
(* Weeks and the weekly runs *)

LEMMA InitInv == Init => IInv
<1> SUFFICES ASSUME Init PROVE IInv
  OBVIOUS
<1>1. RequestsOK
  BY DEF Init, Loaded, RequestsOK, Prepared
<1>2. WeeksOK
  BY DEF Init, WeeksOK
<1> QED BY InitTypeOK, <1>1, <1>2 DEF IInv

(* Whoever is not a weekly run inserts under its own name and leaves the weeks alone. *)
OthersBooking ==
  /\ UNCHANGED <<weeks, run>>
  /\ \A b \in booking' : b \in booking \/ b.by # Job
  /\ \A b \in made' : b \in made \/ b.by # Job

LEMMA RequestBooks ==
  ASSUME TypeOK, RequestsOK, NEW r \in Requests, Arrive(r) \/ RequestStep(r) \/ RequestFails(r)
  PROVE  OthersBooking
<1>0. r # Job
  BY ParkingAssumption
<1>1. CASE Insert(r)
  <2>1. Row(r).by = r
    BY <1>1, RowType DEF Insert
  <2> QED BY <1>1, <2>1, <1>0 DEF Insert, OthersBooking
<1>2. CASE BenefitAssign(r)
  <2> DEFINE M == {<<req[r].person, req[r].spot>>}
             C == AutoRows(M, req[r].dates, r)
  <2>1. PICK X \in Inserted(C) : booking' = booking \cup X /\ made' = made \cup X
    BY <1>2 DEF BenefitAssign
  <2>2. X \subseteq C
    BY DEF Inserted
  <2>3. \A b \in C : b.by = r
    BY DEF AutoRows
  <2> HIDE DEF C
  <2>4. \A b \in X : b.by # Job
    BY <2>2, <2>3, <1>0
  <2>5. UNCHANGED <<weeks, run>>
    BY <1>2 DEF BenefitAssign
  <2> QED BY <2>1, <2>4, <2>5 DEF OthersBooking
<1>3. CASE UNCHANGED <<weeks, run, made>> /\ booking' \subseteq booking
  BY <1>3 DEF OthersBooking
<1> QED
  BY <1>1, <1>2, <1>3
  DEF Arrive, Book, BookMany, BenefitLoad, DeleteSpotLoad, UpdateSpotLoad, RequestStep, DayLoad, DayRefused,
      Duplicate, BenefitUpdate, BenefitFind, BenefitDrop, BenefitDays, BenefitManagers, UpdateSpotWrite,
      SpotOff, DeleteSpot, RequestFails, Quiet

LEMMA OthersWeeksOK == ASSUME WeeksOK, OthersBooking PROVE WeeksOK'
  BY DEF WeeksOK, OthersBooking, IsMonday

(* What a weekly run does to the weeks. *)
LEMMA RunWeeksOK ==
  ASSUME TypeOK, WeeksOK, NEW q \in Runs, RunStep(q) \/ RunFails(q)
  PROVE  WeeksOK'
<1>0. run \in [Runs -> RunState] /\ RunOver(q) \in {"idle", "done"}
  BY DEF TypeOK, RunOver
<1>1. CASE WeeklyLoad(q)
  <2>1. IsMonday(NextMonday)
    BY CalendarTypes DEF TypeOK
  <2>2. /\ run'[q].pc = "week" /\ run'[q].monday = NextMonday
        /\ \A o \in Runs \ {q} : run'[o] = run[o]
        /\ UNCHANGED <<weeks, made>>
    BY <1>0, <1>1 DEF WeeklyLoad, RunState
  <2> QED BY <2>1, <2>2 DEF WeeksOK, IsMonday
<1>2. CASE WeeklyKnown(q) \/ RunFails(q)
  <2>1. /\ run'[q].pc \in {"idle", "done"}
        /\ \A o \in Runs \ {q} : run'[o] = run[o]
        /\ UNCHANGED <<weeks, made>>
    BY <1>0, <1>2 DEF WeeklyKnown, RunFails, RunState
  <2> QED BY <2>1 DEF WeeksOK, IsMonday
<1>3. CASE WeeklyManagers(q)
  <2>1. /\ run'[q].pc = "managers" /\ run'[q].monday = run[q].monday
        /\ run[q].pc = "week" /\ run[q].monday \notin weeks
        /\ \A o \in Runs \ {q} : ~(run[o].pc = "managers" /\ run[o].monday = run[q].monday)
        /\ \A o \in Runs \ {q} : run'[o] = run[o]
        /\ UNCHANGED <<weeks, made>>
    BY <1>0, <1>3 DEF WeeklyManagers, RunState
  <2> QED BY <2>1 DEF WeeksOK, IsMonday
<1>4. CASE WeeklyCommit(q)
  <2> DEFINE C == AutoRows(run[q].managers, WorkingDays(run[q].monday), Job)
  <2>1. PICK X \in Inserted(C) : booking' = booking \cup X /\ made' = made \cup X
    BY <1>4 DEF WeeklyCommit
  <2>2. \A b \in X : b.date \in WorkingDays(run[q].monday)
    BY DEF Inserted, AutoRows
  <2>3. /\ run'[q].pc \in {"idle", "done"} /\ run[q].pc = "managers"
        /\ weeks' = weeks \cup {run[q].monday}
        /\ \A o \in Runs \ {q} : run'[o] = run[o]
    BY <1>0, <1>4 DEF WeeklyCommit, RunState
  <2>4. \A m \in weeks' : IsMonday(m)
    BY <2>3 DEF WeeksOK
  <2>5. \A o \in Runs : run'[o].pc \in {"week", "managers"} => IsMonday(run'[o].monday)
    BY <2>3 DEF WeeksOK
  <2>6. \A o \in Runs : run'[o].pc = "managers" => run'[o].monday \notin weeks'
    BY <2>3 DEF WeeksOK
  <2>7. \A o, p \in Runs :
          run'[o].pc = "managers" /\ run'[p].pc = "managers" /\ run'[o].monday = run'[p].monday => o = p
    BY <2>3 DEF WeeksOK
  <2>8. \A b \in made' : b.by = Job => \E m \in weeks' : b.date \in WorkingDays(m)
    BY <2>1, <2>2, <2>3 DEF WeeksOK
  <2> QED BY <2>4, <2>5, <2>6, <2>7, <2>8 DEF WeeksOK, IsMonday
<1> QED BY <1>1, <1>2, <1>3, <1>4 DEF RunStep

LEMMA OtherStepsBook ==
  ASSUME TypeOK, RequestsOK, [Next]_vars, ~\E q \in Runs : RunStep(q) \/ RunFails(q)
  PROVE  OthersBooking
<1>1. CASE \E r \in Requests : Arrive(r) \/ RequestStep(r) \/ RequestFails(r)
  BY <1>1, RequestBooks
<1>2. CASE UNCHANGED <<weeks, run, made>> /\ booking' \subseteq booking
  BY <1>2 DEF OthersBooking
<1> QED BY <1>1, <1>2 DEF Next, vars, Cancel, AppsChange, Leave, Tick

LEMMA StepInv == IInv /\ [Next]_vars => IInv'
<1> SUFFICES ASSUME IInv, [Next]_vars PROVE IInv'
  OBVIOUS
<1>1. WeeksOK'
  <2>1. CASE \E q \in Runs : RunStep(q) \/ RunFails(q)
    BY <2>1, RunWeeksOK DEF IInv
  <2>2. CASE ~\E q \in Runs : RunStep(q) \/ RunFails(q)
    BY <2>2, OtherStepsBook, OthersWeeksOK DEF IInv
  <2> QED BY <2>1, <2>2
<1> QED BY <1>1, StepTypeOK, StepRequestsOK DEF IInv

-----------------------------------------------------------------------------
(* Theorems *)

(* Every variable keeps its type, and no spot and no person has two bookings on *)
(* one day, however many requests and weekly runs insert at once.               *)
THEOREM TypeCorrect == Spec => []TypeOK
<1>1. IInv => TypeOK
  BY DEF IInv
<1> QED BY InitInv, StepInv, <1>1, PTL DEF Spec

(* A booking a weekly run inserts is of the week it is about to record, and that *)
(* week has no day in common with the recorded ones.                             *)
LEMMA CommitTakesNothingBack ==
  ASSUME IInv, NEW q \in Runs, WeeklyCommit(q), NEW b \in made \ booking, b.by = Job
  PROVE  b \notin booking'
<1> DEFINE C == AutoRows(run[q].managers, WorkingDays(run[q].monday), Job)
<1>1. PICK X \in Inserted(C) : booking' = booking \cup X
  BY DEF WeeklyCommit
<1>2. \A c \in X : c.date \in WorkingDays(run[q].monday)
  BY DEF Inserted, AutoRows
<1>3. PICK m \in weeks : b.date \in WorkingDays(m)
  BY DEF IInv, WeeksOK
<1>4. IsMonday(m) /\ IsMonday(run[q].monday) /\ m # run[q].monday
  BY DEF IInv, WeeksOK, WeeklyCommit
<1>5. m \in Int /\ run[q].monday \in Int
  BY DEF IInv, TypeOK, RunState, Mondays
<1>6. WorkingDays(m) \cap WorkingDays(run[q].monday) = {}
  BY <1>4, <1>5, WeeksAreDisjoint
<1> QED BY <1>1, <1>2, <1>3, <1>6

(* "A day a manager gives back is not booked again": whatever weekly runs, of the *)
(* cron and of the console, do at once or over again, with failures in between.   *)
THEOREM GivenBackDaysStayFree == Spec => GivenBackStaysFree
<1>1. ASSUME IInv, [Next]_vars
      PROVE  [\A b \in made \ booking : b.by = Job => b \notin booking']_vars
  <2> SUFFICES ASSUME NEW b \in made \ booking, b.by = Job PROVE b \notin booking'
    OBVIOUS
  <2>1. CASE \E q \in Runs : WeeklyCommit(q)
    BY <2>1, <1>1, CommitTakesNothingBack
  <2>2. CASE booking' = booking
    BY <2>2
  <2>3. CASE OthersBooking
    BY <2>3 DEF OthersBooking
  <2>4. CASE ~\E q \in Runs : RunStep(q) \/ RunFails(q)
    BY <2>4, <2>3, <1>1, OtherStepsBook DEF IInv
  <2> QED
    BY <2>1, <2>2, <2>4 DEF RunStep, WeeklyLoad, WeeklyKnown, WeeklyManagers, RunFails
<1> QED BY <1>1, InitInv, StepInv, PTL DEF Spec, GivenBackStaysFree

-----------------------------------------------------------------------------
(* What a request is at: the operation it performs, since when, and what it  *)
(* has read.                                                                  *)

Handler(r) ==
  /\ req[r].pc = "idle" => req[r].op = None
  /\ req[r].pc \in {"day", "insert"} => req[r].op \in {"book", "many"}
  /\ req[r].pc \in {"benefit", "changed", "drop", "days", "managers", "assign"} => req[r].op = "benefit"
  /\ req[r].pc \in {"update", "off"} => req[r].op = "update"
  /\ req[r].pc = "delete" => req[r].op = "delete"
  /\ req[r].op \in Operations \cup {None}
  /\ req[r].since <= today
  /\ req[r].pc = "drop" => \A b \in req[r].found : b.date >= req[r].since
  /\ req[r].pc = "insert" /\ req[r].spot # None =>
       \A i \in 1..Len(req[r].order) : req[r].order[i] = req[r].spot

HandlersOK == \A r \in Requests : Handler(r)

LEMMA OthersHandlers ==
  ASSUME TypeOK, HandlersOK, today' >= today, today' \in Int, NEW R \in SUBSET Requests,
         \A q \in Requests \ R : req'[q] = req[q], \A r \in R : Handler(r)'
  PROVE  HandlersOK'
<1> SUFFICES ASSUME NEW q \in Requests \ R PROVE Handler(q)'
  BY DEF HandlersOK
<1>1. Handler(q) /\ req'[q] = req[q] /\ req[q].since \in Dates
  BY DEF HandlersOK, TypeOK, RequestState
<1>2. req[q].since \in Int /\ today \in Int
  BY <1>1 DEF Dates, TypeOK
<1>3. req'[q].since <= today'
  BY <1>1, <1>2 DEF Handler
<1> QED BY <1>1, <1>3 DEF Handler

(* The spots to try are all the one the person chose, if any. *)
LEMMA OrderKeepsChoice ==
  ASSUME NEW r \in Requests, req[r].spot # None, NEW p, NEW o \in Orders(p, Candidates(r))
  PROVE  \A i \in 1..Len(o) : o[i] = req[r].spot
<1>1. Candidates(r) \subseteq {req[r].spot} /\ Candidates(r) \subseteq Spots
  BY CandidateSpots DEF Candidates
<1>2. IsFiniteSet(Candidates(r))
  BY <1>1, FS_Subset, ParkingAssumption
<1>3. Cardinality(Candidates(r)) \in Nat
  BY <1>2, FS_CardinalityType
<1>4. o \in [1..Cardinality(Candidates(r)) -> Candidates(r)]
  BY DEF Orders
<1>5. Len(o) = Cardinality(Candidates(r))
  BY <1>3, <1>4
<1> QED BY <1>1, <1>4, <1>5

(* The ways a request moves on without anything Handler speaks of. *)
LEMMA LoadedHandler ==
  ASSUME TypeOK, NEW r \in Requests, NEW op \in Operations, NEW pc, NEW p, NEW role, NEW s, NEW D, NEW flag,
         req' = [req EXCEPT ![r] = Loaded(op, pc, p, role, s, D, flag)], UNCHANGED today,
         <<op, pc>> \in {<<"book", "day">>, <<"many", "day">>, <<"benefit", "benefit">>,
                         <<"update", "update">>, <<"delete", "delete">>}
  PROVE  Handler(r)' /\ \A q \in Requests \ {r} : req'[q] = req[q]
<1>1. req'[r] = Loaded(op, pc, p, role, s, D, flag) /\ \A q \in Requests \ {r} : req'[q] = req[q]
  BY DEF TypeOK
<1>2. /\ req'[r].op = op /\ req'[r].pc = pc /\ req'[r].since = today
      /\ today \in Int /\ today' = today
  BY <1>1 DEF Loaded, TypeOK
<1> QED BY <1>1, <1>2 DEF Handler

LEMMA StepHandlersOK == TypeOK /\ RequestsOK /\ HandlersOK /\ [Next]_vars => HandlersOK'
<1> SUFFICES ASSUME TypeOK, RequestsOK, HandlersOK, [Next]_vars PROVE HandlersOK'
  OBVIOUS
<1>0. /\ req \in [Requests -> RequestState] /\ today \in Int /\ MaxDay \in Int
      /\ \A b \in booking : b.date \in Int
      /\ None \notin People \cup Spots
  BY ParkingAssumption DEF TypeOK, BookingRow, Dates
<1>1. CASE req' = req /\ (today' = today \/ Tick)
  <2>1. today' \in Int /\ today' >= today
    BY <1>0, <1>1 DEF Tick
  <2>2. {} \in SUBSET Requests /\ (\A q \in Requests \ {} : req'[q] = req[q]) /\ \A q \in {} : Handler(q)'
    BY <1>1
  <2> QED BY <2>1, <2>2, OthersHandlers
<1>2. ASSUME NEW r \in Requests, Handler(r)', \A q \in Requests \ {r} : req'[q] = req[q], today' = today
      PROVE  HandlersOK'
  <2>1. {r} \in SUBSET Requests /\ (\A q \in {r} : Handler(q)') /\ today' \in Int /\ today' >= today
    BY <1>2, <1>0
  <2> QED BY <1>2, <2>1, OthersHandlers
<1>3. ASSUME NEW r \in Requests, Arrive(r) PROVE HandlersOK'
  <2>1. ASSUME NEW p \in People, NEW s \in Spots \cup {None}, NEW d \in BookableDays, Book(r, p, d, s)
        PROVE HandlersOK'
    BY <2>1, <1>2, LoadedHandler DEF Book, CanBegin, Quiet
  <2>2. ASSUME NEW p \in People, NEW s \in Spots \cup {None}, NEW D \in SUBSET BookableDays, BookMany(r, p, D, s)
        PROVE HandlersOK'
    BY <2>2, <1>2, LoadedHandler DEF BookMany, CanBegin, Quiet
  <2>3. ASSUME NEW p \in People, NEW s \in Spots \cup {None}, NEW role \in Roles, BenefitLoad(r, p, role, s)
        PROVE HandlersOK'
    BY <2>3, <1>2, LoadedHandler DEF BenefitLoad, CanBegin, Quiet
  <2>4. ASSUME NEW s \in Spots, DeleteSpotLoad(r, s) PROVE HandlersOK'
    BY <2>4, <1>2, LoadedHandler DEF DeleteSpotLoad, CanBegin, Quiet
  <2>5. ASSUME NEW s \in Spots, NEW on \in BOOLEAN, UpdateSpotLoad(r, s, on) PROVE HandlersOK'
    BY <2>5, <1>2, LoadedHandler DEF UpdateSpotLoad, CanBegin, Quiet
  <2> QED BY <1>3, <2>1, <2>2, <2>3, <2>4, <2>5 DEF Arrive
<1>4. ASSUME NEW r \in Requests, RequestStep(r) \/ RequestFails(r) PROVE HandlersOK'
  <2>0. req[r] \in RequestState /\ Handler(r) /\ req[r].since \in Int
    BY <1>0 DEF HandlersOK, RequestState, Dates
  <2> SUFFICES Handler(r)' /\ (\A q \in Requests \ {r} : req'[q] = req[q]) /\ today' = today
    BY <1>2
  <2>1. CASE DayLoad(r)
    <3>1. PICK o \in Orders(req[r].person, Candidates(r)) :
            req' = [req EXCEPT ![r].pc = "insert", ![r].order = o]
      BY <2>1 DEF DayLoad
    <3>2. req[r].spot # None => \A i \in 1..Len(o) : o[i] = req[r].spot
      BY OrderKeepsChoice
    <3>3. /\ req'[r].pc = "insert" /\ req'[r].order = o /\ req'[r].spot = req[r].spot
          /\ req'[r].op = req[r].op /\ req'[r].since = req[r].since
          /\ \A q \in Requests \ {r} : req'[q] = req[q]
      BY <3>1, <1>0, <2>0 DEF RequestState
    <3> QED BY <2>1, <2>0, <3>2, <3>3 DEF Handler, DayLoad, Quiet
  <2>2. CASE NextDay(r) /\ req[r].pc \in {"day", "insert"} /\ today' = today
    <3>1. /\ req'[r].pc \in {"day", "done"} /\ req'[r].op = req[r].op /\ req'[r].since = req[r].since
          /\ \A q \in Requests \ {r} : req'[q] = req[q]
      BY <2>2, <1>0, <2>0 DEF NextDay, RequestState
    <3> QED BY <2>2, <2>0, <3>1 DEF Handler
  <2>3. CASE Duplicate(r) /\ ~NextDay(r)
    <3>1. /\ req' = [req EXCEPT ![r].order = Tail(@)] /\ req[r].spot = None /\ req[r].pc = "insert"
      BY <2>3 DEF Duplicate
    <3>2. /\ req'[r].pc = "insert" /\ req'[r].spot = None
          /\ req'[r].op = req[r].op /\ req'[r].since = req[r].since
          /\ \A q \in Requests \ {r} : req'[q] = req[q]
      BY <3>1, <1>0, <2>0 DEF RequestState
    <3> QED BY <2>3, <2>0, <3>1, <3>2 DEF Handler, Duplicate, Quiet
  <2>4. CASE BenefitFind(r)
    <3> DEFINE F == {b \in booking : b.person = req[r].person /\ b.source = "AUTO" /\ b.date >= today}
    <3>1. /\ req'[r].pc \in {"drop", "done"} /\ req'[r].found = F
          /\ req'[r].op = req[r].op /\ req'[r].since = req[r].since
          /\ \A q \in Requests \ {r} : req'[q] = req[q]
      BY <2>4, <1>0, <2>0 DEF BenefitFind, RequestState
    <3>2. \A b \in F : b.date >= req[r].since
      BY <1>0, <2>0 DEF Handler
    <3> HIDE DEF F
    <3> QED BY <2>4, <2>0, <3>1, <3>2 DEF Handler, BenefitFind, Quiet
  <2>5. CASE \/ BenefitUpdate(r) \/ BenefitDrop(r) \/ BenefitManagers(r) \/ BenefitAssign(r)
             \/ UpdateSpotWrite(r) \/ SpotOff(r) \/ DeleteSpot(r) \/ RequestFails(r)
    <3>1. /\ req'[r].op = req[r].op /\ req'[r].since = req[r].since /\ today' = today
          /\ \A q \in Requests \ {r} : req'[q] = req[q]
          /\ \/ req[r].pc = "benefit" /\ req'[r].pc \in {"changed", "done"}
             \/ req[r].pc \in {"drop", "managers", "assign"} /\ req'[r].pc \in {"days", "assign", "done"}
             \/ req[r].pc = "update" /\ req'[r].pc \in {"off", "done"}
             \/ req'[r].pc \in {"done", "dead"}
      BY <2>5, <1>0, <2>0 DEF BenefitUpdate, BenefitDrop, BenefitManagers, BenefitAssign, UpdateSpotWrite,
         SpotOff, DeleteSpot, RequestFails, Quiet, RequestState
    <3> QED BY <2>0, <3>1 DEF Handler
  <2>6. CASE BenefitDays(r)
    <3>1. /\ req'[r].op = req[r].op /\ req'[r].since = req[r].since
          /\ \A q \in Requests \ {r} : req'[q] = req[q]
          /\ req[r].pc = "days" /\ req'[r].pc \in {"managers", "done"}
      BY <2>6, <1>0, <2>0 DEF BenefitDays, RequestState
    <3> QED BY <2>6, <2>0, <3>1 DEF Handler, BenefitDays, Quiet
  <2>7. CASE DayRefused(r) \/ Insert(r) \/ (Duplicate(r) /\ NextDay(r))
    BY <2>7, <2>2 DEF DayRefused, Insert, Duplicate, Quiet
  <2> QED
    BY <1>4, <2>1, <2>3, <2>4, <2>5, <2>6, <2>7 DEF RequestStep
<1> QED
  BY <1>1, <1>3, <1>4 DEF Next, vars, RunStep, WeeklyLoad, WeeklyKnown, WeeklyManagers, WeeklyCommit, RunFails,
     Cancel, AppsChange, Leave, Tick

(* An operation that has begun goes on as what it is; a booking keeps the chosen spot. *)
LEMMA OperationKept ==
  ASSUME TypeOK, HandlersOK, [Next]_vars, NEW r \in Requests, req[r].op # None
  PROVE  /\ req'[r].op = req[r].op
         /\ req[r].op \in {"book", "many"} => req'[r].spot = req[r].spot
<1>0. req \in [Requests -> RequestState] /\ req[r] \in RequestState /\ Handler(r)
  BY DEF TypeOK, HandlersOK
<1>1. ASSUME NEW q \in Requests, Arrive(q) PROVE req'[r] = req[r]
  <2>1. req[q].pc = "idle" /\ \E x : req' = [req EXCEPT ![q] = x]
    BY <1>1 DEF Arrive, Book, BookMany, BenefitLoad, DeleteSpotLoad, UpdateSpotLoad, CanBegin
  <2>2. q # r
    BY <2>1, <1>0 DEF Handler
  <2> QED BY <2>1, <2>2, <1>0
<1>2. ASSUME NEW q \in Requests, RequestStep(q) \/ RequestFails(q), q # r PROVE req'[r] = req[r]
  BY <1>2, <1>0 DEF RequestStep, DayLoad, DayRefused, Insert, Duplicate, NextDay, BenefitUpdate, BenefitFind,
     BenefitDrop, BenefitDays, BenefitManagers, BenefitAssign, UpdateSpotWrite, SpotOff, DeleteSpot, RequestFails
<1>3. CASE BenefitFind(r)
  <2>1. req'[r].op = req[r].op /\ req[r].op = "benefit"
    BY <1>3, <1>0 DEF BenefitFind, RequestState, Handler
  <2> QED BY <2>1
<1>4. CASE (RequestStep(r) \/ RequestFails(r)) /\ ~BenefitFind(r)
  BY <1>4, <1>0 DEF RequestStep, DayLoad, DayRefused, Insert, Duplicate, NextDay, BenefitUpdate,
     BenefitDrop, BenefitDays, BenefitManagers, BenefitAssign, UpdateSpotWrite, SpotOff, DeleteSpot,
     RequestFails, RequestState
<1>5. CASE req' = req
  BY <1>5
<1> QED
  BY <1>1, <1>2, <1>3, <1>4, <1>5 DEF Next, vars, RunStep, WeeklyLoad, WeeklyKnown, WeeklyManagers,
     WeeklyCommit, RunFails, Cancel, AppsChange, Leave, Tick

(* Bookings come from one INSERT of a person, from a benefit or from a weekly run. *)
LEMMA Inserters ==
  [Next]_vars => \/ booking' \subseteq booking /\ made' = made
                 \/ \E r \in Requests : Insert(r) \/ BenefitAssign(r)
                 \/ \E q \in Runs : WeeklyCommit(q)
<1> SUFFICES ASSUME [Next]_vars
             PROVE  \/ booking' \subseteq booking /\ made' = made
                    \/ \E r \in Requests : Insert(r) \/ BenefitAssign(r)
                    \/ \E q \in Runs : WeeklyCommit(q)
  OBVIOUS
<1>1. ASSUME NEW r \in Requests, Arrive(r) \/ RequestFails(r)
      PROVE  booking' \subseteq booking /\ made' = made
  BY <1>1 DEF Arrive, Book, BookMany, BenefitLoad, DeleteSpotLoad, UpdateSpotLoad, RequestFails, Quiet
<1>2. ASSUME NEW r \in Requests, RequestStep(r), ~Insert(r), ~BenefitAssign(r)
      PROVE  booking' \subseteq booking /\ made' = made
  BY <1>2 DEF RequestStep, DayLoad, DayRefused, Duplicate, BenefitUpdate, BenefitFind, BenefitDrop,
     BenefitDays, BenefitManagers, UpdateSpotWrite, SpotOff, DeleteSpot, Quiet
<1>3. ASSUME NEW q \in Runs, RunStep(q) \/ RunFails(q), ~WeeklyCommit(q)
      PROVE  booking' \subseteq booking /\ made' = made
  BY <1>3 DEF RunStep, WeeklyLoad, WeeklyKnown, WeeklyManagers, RunFails
<1>4. CASE UNCHANGED vars \/ Tick \/ (\E b \in booking : Cancel(b))
            \/ \E p \in People : AppsChange(p) \/ Leave(p)
  BY <1>4 DEF vars, Tick, Cancel, AppsChange, Leave
<1> QED BY <1>1, <1>2, <1>3, <1>4 DEF Next

-----------------------------------------------------------------------------
(* A booking by hand has the spot its request chose. *)

ChosenOK ==
  \A b \in booking : b.source = "MANUAL" =>
    /\ b.by \in Requests
    /\ req[b.by].op \in {"book", "many"}
    /\ req[b.by].spot # None => b.spot = req[b.by].spot

LEMMA StepChosenOK == TypeOK /\ RequestsOK /\ HandlersOK /\ ChosenOK /\ [Next]_vars => ChosenOK'
<1> SUFFICES ASSUME TypeOK, RequestsOK, HandlersOK, ChosenOK, [Next]_vars,
                    NEW b \in booking', b.source = "MANUAL"
             PROVE  /\ b.by \in Requests
                    /\ req'[b.by].op \in {"book", "many"}
                    /\ req'[b.by].spot # None => b.spot = req'[b.by].spot
  BY DEF ChosenOK
<1>0. None \notin AllOperations
  BY ParkingAssumption DEF AllOperations
<1>1. CASE b \in booking
  <2>1. /\ b.by \in Requests
        /\ req[b.by].op \in {"book", "many"}
        /\ req[b.by].spot # None => b.spot = req[b.by].spot
    BY <1>1 DEF ChosenOK
  <2>2. req[b.by].op # None
    BY <2>1, <1>0 DEF AllOperations
  <2> QED BY <2>1, <2>2, OperationKept
<1>2. ASSUME NEW r \in Requests, Insert(r), b \notin booking
      PROVE  /\ b.by \in Requests
             /\ req'[b.by].op \in {"book", "many"}
             /\ req'[b.by].spot # None => b.spot = req'[b.by].spot
  <2>1. b = Row(r) /\ req[r].pc = "insert"
    BY <1>2 DEF Insert
  <2>2. b.by = r /\ b.spot = Head(req[r].order)
    BY <2>1 DEF Row
  <2>3. req[r].op \in {"book", "many"}
    BY <2>1 DEF HandlersOK, Handler
  <2>4. req'[r].op = req[r].op /\ req'[r].spot = req[r].spot
    BY <2>3, <1>0, OperationKept DEF AllOperations
  <2>5. req[r].spot # None => Head(req[r].order) = req[r].spot
    <3>1. req[r].order \in Seq(Spots) /\ req[r].order # << >>
      BY <2>1 DEF RequestsOK, Prepared, TypeOK, RequestState, SpotLists
    <3>2. Head(req[r].order) = req[r].order[1] /\ 1 \in 1..Len(req[r].order)
      BY <3>1
    <3> QED BY <3>2, <2>1 DEF HandlersOK, Handler
  <2> QED BY <2>2, <2>3, <2>4, <2>5
<1>3. ASSUME NEW r \in Requests, BenefitAssign(r) PROVE b \in booking
  BY <1>3 DEF BenefitAssign, Inserted, AutoRows
<1>4. ASSUME NEW q \in Runs, WeeklyCommit(q) PROVE b \in booking
  BY <1>4 DEF WeeklyCommit, Inserted, AutoRows
<1> QED BY <1>1, <1>2, <1>3, <1>4, Inserters

LEMMA ChosenIsKept == ChosenOK => ChosenSpotOrNone
  BY DEF ChosenOK, ChosenSpotOrNone

-----------------------------------------------------------------------------
(* The limit: a standard user's active bookings, with those that are past    *)
(* their check of the limit and not yet inserted.                             *)

AtInsert(p) == {r \in Requests : req[r].pc = "insert" /\ req[r].person = p}

UsersBookAlone ==
  \A q \in Runs : \A m \in run[q].managers : employee[m[1]].role # "USER"

LimitKept ==
  \A p \in People : employee[p].role = "USER" =>
    Cardinality(ActiveBookings(p)) + Cardinality(AtInsert(p)) <= MaxActive + Cardinality(Requests) - 1

LimitOK == NoBenefitChange => UsersBookAlone /\ LimitKept

(* A person has finitely many bookings: one a day. *)
LEMMA FewBookings ==
  ASSUME TypeOK, NEW p \in People
  PROVE  IsFiniteSet(ActiveBookings(p)) /\ Cardinality(ActiveBookings(p)) \in Nat
<1> DEFINE f == [b \in ActiveBookings(p) |-> b.date]
<1>1. IsFiniteSet(Dates)
  BY FS_Interval, ParkingAssumption DEF Dates
<1>2. f \in [ActiveBookings(p) -> Dates]
  BY DEF ActiveBookings, TypeOK, BookingRow
<1>3. \A b, c \in ActiveBookings(p) : f[b] = f[c] => b = c
  BY DEF ActiveBookings, TypeOK, Unique
<1>4. f \in Injection(ActiveBookings(p), Dates)
  BY <1>2, <1>3 DEF Injection, IsInjective
<1>5. IsFiniteSet(ActiveBookings(p))
  BY <1>1, <1>4, FS_Injection
<1> QED BY <1>5, FS_CardinalityType

LEMMA FewAtInsert ==
  ASSUME NEW p
  PROVE  /\ IsFiniteSet(AtInsert(p)) /\ Cardinality(AtInsert(p)) \in Nat
         /\ Cardinality(AtInsert(p)) <= Cardinality(Requests) /\ Cardinality(Requests) \in Nat
<1>1. IsFiniteSet(Requests) /\ AtInsert(p) \in SUBSET Requests
  BY ParkingAssumption DEF AtInsert
<1> QED BY <1>1, FS_Subset, FS_CardinalityType

(* Fewer active bookings and fewer requests about to insert keep the limit. *)
LEMMA FewerKeepLimit ==
  ASSUME TypeOK, NEW p \in People,
         ActiveBookings(p)' \subseteq ActiveBookings(p), AtInsert(p)' \subseteq AtInsert(p),
         Cardinality(ActiveBookings(p)) + Cardinality(AtInsert(p)) <= MaxActive + Cardinality(Requests) - 1
  PROVE  Cardinality(ActiveBookings(p)') + Cardinality(AtInsert(p)')
           <= MaxActive + Cardinality(Requests) - 1
<1>1. /\ IsFiniteSet(ActiveBookings(p)) /\ Cardinality(ActiveBookings(p)) \in Nat
      /\ IsFiniteSet(AtInsert(p)) /\ Cardinality(AtInsert(p)) \in Nat /\ Cardinality(Requests) \in Nat
  BY FewBookings, FewAtInsert
<1>2. /\ IsFiniteSet(ActiveBookings(p)') /\ Cardinality(ActiveBookings(p)') <= Cardinality(ActiveBookings(p))
  BY <1>1, FS_Subset
<1>3. /\ IsFiniteSet(AtInsert(p)') /\ Cardinality(AtInsert(p)') <= Cardinality(AtInsert(p))
  BY <1>1, FS_Subset
<1>4. Cardinality(ActiveBookings(p)') \in Nat /\ Cardinality(AtInsert(p)') \in Nat /\ MaxActive \in Nat
  BY <1>2, <1>3, FS_CardinalityType, ParkingAssumption
<1> QED BY <1>1, <1>2, <1>3, <1>4

(* The check of the limit, just before the first spot is tried. *)
LEMMA DayLoadKeepsLimit ==
  ASSUME TypeOK, NEW r \in Requests, DayLoad(r), NEW p \in People, employee[p].role = "USER",
         req[r].person = p
  PROVE  Cardinality(ActiveBookings(p)') + Cardinality(AtInsert(p)')
           <= MaxActive + Cardinality(Requests) - 1
<1>1. Cardinality(ActiveBookings(p)) < MaxActive
  BY DEF DayLoad, DayOpen
<1>2. ActiveBookings(p)' = ActiveBookings(p)
  BY DEF DayLoad, Quiet, ActiveBookings
<1>3. AtInsert(p)' \in SUBSET Requests /\ IsFiniteSet(Requests) /\ MaxActive \in Nat
  BY ParkingAssumption DEF AtInsert
<1>4. /\ Cardinality(AtInsert(p)') <= Cardinality(Requests)
      /\ Cardinality(AtInsert(p)') \in Nat /\ Cardinality(Requests) \in Nat
  BY <1>3, FS_Subset, FS_CardinalityType
<1>5. Cardinality(ActiveBookings(p)) \in Nat
  BY FewBookings
<1> QED BY <1>1, <1>2, <1>3, <1>4, <1>5

(* The INSERT turns a request that is about to insert into a booking. *)
LEMMA InsertKeepsLimit ==
  ASSUME TypeOK, RequestsOK, NEW r \in Requests, Insert(r), NEW p \in People, req[r].person = p,
         Cardinality(ActiveBookings(p)) + Cardinality(AtInsert(p)) <= MaxActive + Cardinality(Requests) - 1
  PROVE  Cardinality(ActiveBookings(p)') + Cardinality(AtInsert(p)')
           <= MaxActive + Cardinality(Requests) - 1
<1> DEFINE A == ActiveBookings(p) \cup {Row(r)}
           I == AtInsert(p) \ {r}
<1>1. /\ IsFiniteSet(ActiveBookings(p)) /\ Cardinality(ActiveBookings(p)) \in Nat
      /\ IsFiniteSet(AtInsert(p)) /\ Cardinality(AtInsert(p)) \in Nat /\ Cardinality(Requests) \in Nat
  BY FewBookings, FewAtInsert
<1>2. r \in AtInsert(p)
  BY DEF Insert, AtInsert
<1>3. ActiveBookings(p)' \subseteq A
  BY DEF Insert, ActiveBookings
<1>4. AtInsert(p)' \subseteq I
  <2>1. NextDay(r) /\ req \in [Requests -> RequestState]
    BY DEF Insert, TypeOK
  <2>2. req'[r].pc # "insert" /\ \A q \in Requests \ {r} : req'[q] = req[q]
    BY <2>1, NextDayType
  <2> QED BY <2>2 DEF AtInsert
<1>5. IsFiniteSet(A) /\ Cardinality(A) <= Cardinality(ActiveBookings(p)) + 1
  <2>1. /\ IsFiniteSet(A)
        /\ Cardinality(A) \in {Cardinality(ActiveBookings(p)), Cardinality(ActiveBookings(p)) + 1}
    BY <1>1, FS_AddElement
  <2> QED BY <2>1, <1>1
<1>6. IsFiniteSet(I) /\ Cardinality(I) = Cardinality(AtInsert(p)) - 1
  BY <1>1, <1>2, FS_RemoveElement
<1> HIDE DEF A, I
<1>7. /\ Cardinality(ActiveBookings(p)') <= Cardinality(A) /\ Cardinality(ActiveBookings(p)') \in Nat
      /\ Cardinality(AtInsert(p)') <= Cardinality(I) /\ Cardinality(AtInsert(p)') \in Nat
      /\ Cardinality(A) \in Nat /\ Cardinality(I) \in Nat
  BY <1>3, <1>4, <1>5, <1>6, FS_Subset, FS_CardinalityType
<1>8. MaxActive \in Nat
  BY ParkingAssumption
<1> QED BY <1>1, <1>5, <1>6, <1>7, <1>8

(* Which steps write the table of employees, the weekly runs and the calendar. *)
LEMMA WhoWrites ==
  ASSUME [Next]_vars
  PROVE  /\ \/ employee' = employee
            \/ \E r \in Requests : BenefitUpdate(r)
            \/ \E p \in People : AppsChange(p) \/ Leave(p)
         /\ run' = run \/ \E q \in Runs : RunStep(q) \/ RunFails(q)
         /\ today' = today \/ Tick
<1> DEFINE Goal ==
      /\ \/ employee' = employee
         \/ \E r \in Requests : BenefitUpdate(r)
         \/ \E p \in People : AppsChange(p) \/ Leave(p)
      /\ run' = run \/ \E q \in Runs : RunStep(q) \/ RunFails(q)
      /\ today' = today \/ Tick
<1>1. ASSUME NEW r \in Requests, Arrive(r) \/ RequestFails(r) PROVE Goal
  BY <1>1 DEF Arrive, Book, BookMany, BenefitLoad, DeleteSpotLoad, UpdateSpotLoad, RequestFails, Quiet
<1>2. ASSUME NEW r \in Requests, RequestStep(r), ~BenefitUpdate(r) PROVE Goal
  BY <1>2 DEF RequestStep, DayLoad, DayRefused, Insert, Duplicate, BenefitFind, BenefitDrop, BenefitDays,
     BenefitManagers, BenefitAssign, UpdateSpotWrite, SpotOff, DeleteSpot, Quiet
<1>3. ASSUME NEW r \in Requests, BenefitUpdate(r) PROVE Goal
  <2>1. UNCHANGED <<run, today>>
    BY <1>3 DEF BenefitUpdate
  <2> QED BY <2>1, <1>3
<1>4. ASSUME NEW q \in Runs, RunStep(q) \/ RunFails(q) PROVE Goal
  <2>1. UNCHANGED <<employee, today>>
    BY <1>4 DEF RunStep, WeeklyLoad, WeeklyKnown, WeeklyManagers, WeeklyCommit, RunFails
  <2> QED BY <2>1, <1>4
<1>5. ASSUME NEW p \in People, AppsChange(p) \/ Leave(p) PROVE Goal
  <2>1. UNCHANGED <<run, today>>
    BY <1>5 DEF AppsChange, Leave
  <2> QED BY <2>1, <1>5
<1>6. ASSUME Tick PROVE Goal
  <2>1. UNCHANGED <<employee, run>>
    BY <1>6 DEF Tick
  <2> QED BY <2>1, <1>6
<1>7. ASSUME UNCHANGED vars \/ \E b \in booking : Cancel(b) PROVE Goal
  BY <1>7 DEF vars, Cancel
<1> HIDE DEF Goal
<1>8. ASSUME NEW r \in Requests, RequestStep(r) PROVE Goal
  BY <1>8, <1>2, <1>3
<1>9. Goal
  BY <1>1, <1>8, <1>4, <1>5, <1>6, <1>7 DEF Next
<1> QED BY <1>9 DEF Goal

(* Without a change of benefit a person's role is what it was, until they leave. *)
LEMMA RolesKept ==
  ASSUME TypeOK, HandlersOK, [Next]_vars, NoBenefitChange, NEW p \in People
  PROVE  employee'[p].role \in {employee[p].role, "NONE"}
<1>1. ASSUME NEW r \in Requests, BenefitUpdate(r) PROVE FALSE
  BY <1>1 DEF BenefitUpdate, HandlersOK, Handler, NoBenefitChange
<1>2. ASSUME NEW q \in People, AppsChange(q) PROVE employee'[p].role = employee[p].role
  BY <1>2 DEF AppsChange, TypeOK, EmployeeRow
<1>3. ASSUME NEW q \in People, Leave(q) PROVE employee'[p].role \in {employee[p].role, "NONE"}
  BY <1>3 DEF Leave, TypeOK
<1> QED BY <1>1, <1>2, <1>3, WhoWrites

(* Who comes to be about to insert has just passed the check. *)
LEMMA Inserting ==
  ASSUME TypeOK, [Next]_vars, NEW p
  PROVE  \/ AtInsert(p)' \subseteq AtInsert(p)
         \/ \E r \in Requests : DayLoad(r) /\ req[r].person = p
<1>0. req \in [Requests -> RequestState]
  BY DEF TypeOK
<1>1. CASE req' = req
  BY <1>1 DEF AtInsert
<1>2. ASSUME NEW r \in Requests, req' \in [Requests -> RequestState], req'[r].person = p => req'[r].pc # "insert",
             \A q \in Requests \ {r} : req'[q] = req[q]
      PROVE  AtInsert(p)' \subseteq AtInsert(p)
  BY <1>2 DEF AtInsert
<1>3. ASSUME NEW r \in Requests, Arrive(r) PROVE AtInsert(p)' \subseteq AtInsert(p)
  BY <1>3, <1>0 DEF Arrive, Book, BookMany, BenefitLoad, DeleteSpotLoad, UpdateSpotLoad, Loaded, AtInsert
<1>4. ASSUME NEW r \in Requests, DayLoad(r), req[r].person # p PROVE AtInsert(p)' \subseteq AtInsert(p)
  BY <1>4, <1>0 DEF DayLoad, AtInsert, RequestState
<1>5. ASSUME NEW r \in Requests, NextDay(r) PROVE AtInsert(p)' \subseteq AtInsert(p)
  <2>1. req'[r].pc # "insert" /\ \A q \in Requests \ {r} : req'[q] = req[q]
    BY <1>5, <1>0, NextDayType
  <2> QED BY <2>1 DEF AtInsert
<1>6. ASSUME NEW r \in Requests, Duplicate(r) PROVE AtInsert(p)' \subseteq AtInsert(p)
  <2>1. CASE req' = [req EXCEPT ![r].order = Tail(@)]
    BY <2>1, <1>0 DEF AtInsert, RequestState
  <2> QED BY <2>1, <1>6, <1>5 DEF Duplicate
<1>7. ASSUME NEW r \in Requests, BenefitUpdate(r) \/ BenefitFind(r) \/ BenefitDrop(r) \/ BenefitDays(r)
             \/ BenefitManagers(r) \/ BenefitAssign(r) \/ UpdateSpotWrite(r) \/ SpotOff(r) \/ DeleteSpot(r)
             \/ RequestFails(r)
      PROVE  AtInsert(p)' \subseteq AtInsert(p)
  <2>1. req'[r].pc # "insert" /\ \A q \in Requests \ {r} : req'[q] = req[q]
    BY <1>7, <1>0 DEF BenefitUpdate, BenefitFind, BenefitDrop, BenefitDays, BenefitManagers, BenefitAssign,
       UpdateSpotWrite, SpotOff, DeleteSpot, RequestFails, RequestState
  <2> QED BY <2>1 DEF AtInsert
<1> QED
  BY <1>1, <1>3, <1>4, <1>5, <1>6, <1>7 DEF Next, vars, RequestStep, DayRefused, Insert, RunStep, WeeklyLoad,
     WeeklyKnown, WeeklyManagers, WeeklyCommit, RunFails, Cancel, AppsChange, Leave, Tick

LEMMA StepLimitOK ==
  TypeOK /\ RequestsOK /\ HandlersOK /\ LimitOK /\ [Next]_vars => LimitOK'
<1> SUFFICES ASSUME TypeOK, RequestsOK, HandlersOK, LimitOK, [Next]_vars, NoBenefitChange'
             PROVE  UsersBookAlone' /\ LimitKept'
  BY DEF LimitOK
<1>0. None # "benefit" /\ "benefit" \in AllOperations
  BY ParkingAssumption DEF AllOperations
<1>1. NoBenefitChange
  BY <1>0, OperationKept DEF NoBenefitChange
<1>2. UsersBookAlone /\ LimitKept
  BY <1>1 DEF LimitOK
<1>3. \A q \in Runs : run[q].managers \subseteq People \X Spots
  BY DEF TypeOK, RunState
<1>4. UsersBookAlone'
  <2>1. ASSUME NEW q \in Runs, NEW m \in run[q].managers PROVE employee'[m[1]].role # "USER"
    BY <1>1, <1>2, <1>3, RolesKept DEF UsersBookAlone
  <2>2. ASSUME NEW q \in Runs, WeeklyManagers(q), NEW m \in run'[q].managers PROVE employee'[m[1]].role # "USER"
    BY <2>2 DEF WeeklyManagers, ManagersOf, TypeOK, RunState
  <2>3. ASSUME NEW q \in Runs, NEW m \in run'[q].managers, m \notin run[q].managers PROVE WeeklyManagers(q)
    <3>1. PICK o \in Runs : RunStep(o) \/ RunFails(o)
      BY <2>3, WhoWrites
    <3> QED BY <2>3, <3>1 DEF RunStep, WeeklyLoad, WeeklyKnown, WeeklyManagers, WeeklyCommit, RunFails,
         TypeOK, RunState
  <2> QED BY <2>1, <2>2, <2>3 DEF UsersBookAlone
<1>5. LimitKept'
  <2> SUFFICES ASSUME NEW p \in People, employee'[p].role = "USER"
               PROVE  Cardinality(ActiveBookings(p)') + Cardinality(AtInsert(p)')
                        <= MaxActive + Cardinality(Requests) - 1
    BY DEF LimitKept
  <2>1. /\ employee[p].role = "USER"
        /\ Cardinality(ActiveBookings(p)) + Cardinality(AtInsert(p)) <= MaxActive + Cardinality(Requests) - 1
    BY <1>1, <1>2, RolesKept DEF LimitKept
  <2>2. CASE \E r \in Requests : DayLoad(r) /\ req[r].person = p
    BY <2>1, <2>2, DayLoadKeepsLimit
  <2>3. CASE \E r \in Requests : Insert(r) /\ req[r].person = p
    BY <2>1, <2>3, InsertKeepsLimit
  <2>4. CASE /\ ~\E r \in Requests : DayLoad(r) /\ req[r].person = p
             /\ ~\E r \in Requests : Insert(r) /\ req[r].person = p
    <3>1. AtInsert(p)' \subseteq AtInsert(p)
      BY <2>4, Inserting
    <3>2. \A b \in booking' : b.person = p => b \in booking
      <4>1. ASSUME NEW r \in Requests, Insert(r), NEW b \in booking', b.person = p PROVE b \in booking
        <5>1. req[r].person # p
          BY <4>1, <2>4
        <5>2. Row(r).person = req[r].person /\ booking' = booking \cup {Row(r)}
          BY <4>1 DEF Insert, Row
        <5> QED BY <5>1, <5>2, <4>1
      <4>2. ASSUME NEW r \in Requests, BenefitAssign(r) PROVE FALSE
        BY <4>2, <1>1 DEF BenefitAssign, HandlersOK, Handler, NoBenefitChange
      <4>3. ASSUME NEW q \in Runs, WeeklyCommit(q), NEW b \in booking', b.person = p PROVE b \in booking
        BY <4>3, <1>2, <2>1 DEF WeeklyCommit, Inserted, AutoRows, UsersBookAlone
      <4> QED BY <4>1, <4>2, <4>3, Inserters
    <3>3. \A b \in booking : b.date >= today' => b.date >= today
      <4>1. today \in Int /\ today' \in Int /\ today' >= today
        <5>1. today' = today \/ Tick
          BY WhoWrites
        <5>2. today \in Int
          BY ParkingAssumption DEF TypeOK
        <5> QED BY <5>1, <5>2 DEF Tick
      <4>2. \A b \in booking : b.date \in Int
        BY DEF TypeOK, BookingRow, Dates
      <4> QED BY <4>1, <4>2
    <3>4. ActiveBookings(p)' \subseteq ActiveBookings(p)
      BY <3>2, <3>3 DEF ActiveBookings
    <3> QED BY <2>1, <3>1, <3>4, FewerKeepLimit
  <2> QED BY <2>2, <2>3, <2>4
<1> QED BY <1>4, <1>5

(* Requests about to insert only add to the bookings. *)
LEMMA LimitBounds == TypeOK /\ LimitOK => OverbookingBounded
<1> SUFFICES ASSUME TypeOK, LimitOK, NoBenefitChange, NEW p \in People, employee[p].role = "USER"
             PROVE  Cardinality(ActiveBookings(p)) <= MaxActive + Cardinality(Requests) - 1
  BY DEF OverbookingBounded
<1>1. Cardinality(ActiveBookings(p)) + Cardinality(AtInsert(p)) <= MaxActive + Cardinality(Requests) - 1
  BY DEF LimitOK, LimitKept
<1>2. /\ Cardinality(ActiveBookings(p)) \in Nat /\ Cardinality(AtInsert(p)) \in Nat
      /\ Cardinality(Requests) \in Nat /\ MaxActive \in Nat
  BY FewBookings, FewAtInsert, ParkingAssumption
<1> QED BY <1>1, <1>2

BInv == IInv /\ HandlersOK /\ ChosenOK /\ LimitOK

LEMMA InitBInv == Init => BInv
<1> SUFFICES ASSUME Init PROVE BInv
  OBVIOUS
<1>1. HandlersOK
  BY DEF Init, Loaded, HandlersOK, Handler
<1>2. ChosenOK /\ UsersBookAlone
  BY DEF Init, ChosenOK, UsersBookAlone
<1>3. ASSUME NEW p \in People
      PROVE  Cardinality(ActiveBookings(p)) + Cardinality(AtInsert(p)) <= MaxActive + Cardinality(Requests) - 1
  <2>1. ActiveBookings(p) = {} /\ AtInsert(p) = {}
    BY DEF Init, Loaded, ActiveBookings, AtInsert
  <2>2. MaxActive \in Nat \ {0} /\ Cardinality(Requests) \in Nat /\ Cardinality({}) = 0
    BY FewAtInsert, FS_EmptySet, ParkingAssumption
  <2> QED BY <2>1, <2>2
<1> QED BY <1>1, <1>2, <1>3, InitInv DEF BInv, LimitOK, LimitKept

LEMMA StepBInv == BInv /\ [Next]_vars => BInv'
  BY StepInv, StepHandlersOK, StepChosenOK, StepLimitOK DEF BInv, IInv

(* Whatever races for the spots of a day, the INSERT keeps the person's choice, and the *)
(* limit is exceeded by at most one booking for each other request (parking.service book). *)
THEOREM SpotsAreAsOffered == Spec => []SpotsAsOffered
<1>1. BInv => SpotsAsOffered
  BY ChosenIsKept, LimitBounds DEF BInv, IInv, SpotsAsOffered
<1> QED BY <1>1, InitBInv, StepBInv, PTL DEF Spec

-----------------------------------------------------------------------------
(* A site whose benefits, applications and spots are left alone: every spot is *)
(* on, a manager stays one until they leave, and a weekly run has read all of   *)
(* them.                                                                         *)

ManagerHasSpot(p) ==
  employee[p].role = "MANAGER" =>
    employee[p].hired /\ ~employee[p].off /\ employee[p].spot \in Spots

RunKnows(q) ==
  /\ run[q].pc = "week" => run[q].spots = Spots
  /\ run[q].pc = "managers" =>
       \A p \in People : employee[p].role = "MANAGER" => <<p, employee[p].spot>> \in run[q].managers

Booked(m, p) ==
  \A d \in WorkingDays(m) :
    \E b \in made : b.date = d /\ (b.person = p \/ b.spot = employee[p].spot)

StaticOK ==
  /\ booking \subseteq made
  /\ StaticSite =>
       /\ \A s \in Spots : spot[s] = "ON"
       /\ \A p \in People : ManagerHasSpot(p)
       /\ \A q \in Runs : RunKnows(q)
       /\ \A m \in weeks, p \in People : employee[p].role = "MANAGER" => Booked(m, p)

(* Nobody's benefit or application is changed there; people only leave. *)
LEMMA StaticSteps ==
  ASSUME TypeOK, HandlersOK, [Next]_vars, StaticSite
  PROVE  /\ spot' = spot
         /\ \A p \in People : employee'[p] = employee[p] \/ employee'[p].role = "NONE"
<1>0. req \in [Requests -> RequestState] /\ \A r \in Requests : Handler(r)
  BY DEF TypeOK, HandlersOK
<1>1. ASSUME NEW r \in Requests
      PROVE  req[r].pc \notin {"benefit", "update", "off", "delete"}
  <2>1. req[r].op \notin {"benefit", "update", "delete"}
    <3>1. req[r].op \in Operations \cup {None} /\ None \notin AllOperations
      BY <1>0, ParkingAssumption DEF Handler
    <3>2. {"benefit", "update", "delete"} \subseteq AllOperations
      BY DEF AllOperations
    <3> QED BY <3>1, <3>2 DEF StaticSite
  <2> QED BY <2>1, <1>0 DEF Handler
<1>2. \A p \in People : employee'[p] = employee[p] \/ employee'[p].role = "NONE"
  <2>1. ASSUME NEW r \in Requests, BenefitUpdate(r) PROVE FALSE
    BY <2>1, <1>1 DEF BenefitUpdate
  <2>2. ASSUME NEW q \in People, AppsChange(q) PROVE FALSE
    BY <2>2 DEF AppsChange, StaticSite
  <2>3. ASSUME NEW q \in People, Leave(q), NEW p \in People
        PROVE employee'[p] = employee[p] \/ employee'[p].role = "NONE"
    BY <2>3 DEF Leave, TypeOK
  <2> QED BY <2>1, <2>2, <2>3, WhoWrites
<1>3. spot' = spot
  <2>1. ASSUME NEW r \in Requests, RequestStep(r) PROVE spot' = spot
    BY <2>1, <1>1 DEF RequestStep, DayLoad, DayRefused, Insert, Duplicate, BenefitUpdate, BenefitFind,
       BenefitDrop, BenefitDays, BenefitManagers, BenefitAssign, UpdateSpotWrite, SpotOff, DeleteSpot, Quiet
  <2>2. ASSUME NEW r \in Requests, Arrive(r) \/ RequestFails(r) PROVE spot' = spot
    BY <2>2 DEF Arrive, Book, BookMany, BenefitLoad, DeleteSpotLoad, UpdateSpotLoad, RequestFails, Quiet
  <2>3. ASSUME NEW q \in Runs, RunStep(q) \/ RunFails(q) PROVE spot' = spot
    BY <2>3 DEF RunStep, WeeklyLoad, WeeklyKnown, WeeklyManagers, WeeklyCommit, RunFails
  <2> QED BY <2>1, <2>2, <2>3 DEF Next, vars, Cancel, AppsChange, Leave, Tick
<1> QED BY <1>2, <1>3

(* The days of a week whose transaction commits: whom the indexes refuse is there already. *)
LEMMA CommitBooksWeek ==
  ASSUME TypeOK, booking \subseteq made, NEW q \in Runs, WeeklyCommit(q),
         NEW p \in People, NEW s, <<p, s>> \in run[q].managers,
         NEW d \in WorkingDays(run[q].monday)
  PROVE  \E b \in made' : b.date = d /\ (b.person = p \/ b.spot = s)
<1> DEFINE C == AutoRows(run[q].managers, WorkingDays(run[q].monday), Job)
           c == [spot |-> s, person |-> p, date |-> d, source |-> "AUTO", by |-> Job]
<1>1. PICK X \in Inserted(C) : made' = made \cup X
  BY DEF WeeklyCommit
<1>2. c \in C
  <2>1. c = [spot |-> <<p, s>>[2], person |-> <<p, s>>[1], date |-> d, source |-> "AUTO", by |-> Job]
    OBVIOUS
  <2> QED BY <2>1 DEF AutoRows
<1>3. Unique(booking \cup X) /\ (c \notin X => ~Unique(booking \cup X \cup {c}))
  BY <1>2 DEF Inserted
<1> HIDE DEF C
<1>4. CASE c \in X
  BY <1>1, <1>4
<1>5. CASE c \notin X
  <2>1. PICK b \in booking \cup X : b.date = c.date /\ (b.spot = c.spot \/ b.person = c.person)
    <3>1. PICK e, f \in booking \cup X \cup {c} :
            e.date = f.date /\ (e.spot = f.spot \/ e.person = f.person) /\ e # f
      BY <1>3, <1>5 DEF Unique
    <3>2. CASE e \in booking \cup X /\ f \in booking \cup X
      BY <3>1, <3>2, <1>3 DEF Unique
    <3>3. CASE e = c
      BY <3>1, <3>3
    <3>4. CASE f = c
      BY <3>1, <3>4
    <3> QED BY <3>1, <3>2, <3>3, <3>4
  <2> QED BY <2>1, <1>1
<1> QED BY <1>4, <1>5

LEMMA MadeGrows == [Next]_vars => made \subseteq made'
<1> SUFFICES ASSUME [Next]_vars PROVE made \subseteq made'
  OBVIOUS
<1>1. ASSUME NEW r \in Requests, Insert(r) \/ BenefitAssign(r) PROVE made \subseteq made'
  BY <1>1 DEF Insert, BenefitAssign
<1>2. ASSUME NEW q \in Runs, WeeklyCommit(q) PROVE made \subseteq made'
  BY <1>2 DEF WeeklyCommit
<1> QED BY <1>1, <1>2, Inserters

LEMMA BookingsAreMade ==
  ASSUME booking \subseteq made, [Next]_vars PROVE booking' \subseteq made'
<1>1. ASSUME NEW r \in Requests, Insert(r) \/ BenefitAssign(r) PROVE booking' \subseteq made'
  BY <1>1 DEF Insert, BenefitAssign
<1>2. ASSUME NEW q \in Runs, WeeklyCommit(q) PROVE booking' \subseteq made'
  BY <1>2 DEF WeeklyCommit
<1> QED BY <1>1, <1>2, Inserters

LEMMA StepStaticOK == IInv /\ HandlersOK /\ StaticOK /\ [Next]_vars => StaticOK'
<1> SUFFICES ASSUME IInv, HandlersOK, StaticOK, [Next]_vars, StaticSite
             PROVE  /\ \A s \in Spots : spot'[s] = "ON"
                    /\ \A p \in People : ManagerHasSpot(p)'
                    /\ \A q \in Runs : RunKnows(q)'
                    /\ \A m \in weeks', p \in People : employee'[p].role = "MANAGER" => Booked(m, p)'
  BY BookingsAreMade DEF StaticOK, StaticSite
<1>0. /\ TypeOK /\ booking \subseteq made
      /\ \A s \in Spots : spot[s] = "ON"
      /\ \A p \in People : ManagerHasSpot(p)
      /\ \A q \in Runs : RunKnows(q)
      /\ \A m \in weeks, p \in People : employee[p].role = "MANAGER" => Booked(m, p)
  BY DEF StaticOK, IInv
<1>1. /\ spot' = spot
      /\ \A p \in People : employee'[p].role = "MANAGER" => employee'[p] = employee[p]
  BY <1>0, StaticSteps
<1>2. \A p \in People : ManagerHasSpot(p)'
  BY <1>0, <1>1 DEF ManagerHasSpot
<1>3. ASSUME NEW q \in Runs PROVE RunKnows(q)'
  <2>0. run \in [Runs -> RunState] /\ RunKnows(q)
    BY <1>0 DEF TypeOK
  <2>1. CASE run'[q] = run[q]
    BY <2>0, <2>1, <1>1 DEF RunKnows
  <2>2. CASE WeeklyLoad(q)
    <3>1. run'[q].pc = "week" /\ run'[q].spots = Spots
      BY <2>0, <2>2, <1>0 DEF WeeklyLoad, RunState
    <3> QED BY <3>1 DEF RunKnows
  <2>3. CASE WeeklyManagers(q)
    <3>1. /\ run'[q].pc = "managers" /\ run'[q].managers = ManagersOf(Spots)
          /\ employee' = employee
      BY <2>0, <2>3 DEF WeeklyManagers, RunKnows, RunState
    <3>2. \A p \in People : employee[p].role = "MANAGER" => <<p, employee[p].spot>> \in ManagersOf(Spots)
      BY <1>0 DEF ManagersOf, Entitled, ManagerHasSpot
    <3> QED BY <3>1, <3>2 DEF RunKnows
  <2>4. CASE WeeklyKnown(q) \/ WeeklyCommit(q) \/ RunFails(q)
    <3>1. run'[q].pc \in {"idle", "done"}
      BY <2>0, <2>4 DEF WeeklyKnown, WeeklyCommit, RunFails, RunOver, RunState
    <3> QED BY <3>1 DEF RunKnows
  <2>5. run'[q] = run[q] \/ RunStep(q) \/ RunFails(q)
    <3>1. ASSUME NEW o \in Runs, RunStep(o) \/ RunFails(o), o # q PROVE run'[q] = run[q]
      BY <3>1, <2>0 DEF RunStep, WeeklyLoad, WeeklyKnown, WeeklyManagers, WeeklyCommit, RunFails
    <3> QED BY <3>1, WhoWrites
  <2> QED BY <2>1, <2>2, <2>3, <2>4, <2>5 DEF RunStep
<1>4. ASSUME NEW m \in weeks', NEW p \in People, employee'[p].role = "MANAGER" PROVE Booked(m, p)'
  <2>0. employee'[p] = employee[p] /\ employee[p].role = "MANAGER"
    BY <1>1, <1>4
  <2>1. CASE m \in weeks
    BY <2>0, <2>1, <1>0, MadeGrows DEF Booked
  <2>2. CASE m \notin weeks
    <3>1. PICK q \in Runs : WeeklyCommit(q)
      <4>1. weeks' # weeks
        BY <2>2
      <4>2. ASSUME ~\E q \in Runs : RunStep(q) \/ RunFails(q) PROVE FALSE
        BY <4>1, <4>2, <1>0, OtherStepsBook DEF IInv, OthersBooking
      <4> QED BY <4>1, <4>2 DEF RunStep, WeeklyLoad, WeeklyKnown, WeeklyManagers, RunFails
    <3>2. m = run[q].monday /\ run[q].pc = "managers"
      BY <2>2, <3>1 DEF WeeklyCommit
    <3>3. <<p, employee[p].spot>> \in run[q].managers
      BY <3>2, <2>0, <1>0 DEF RunKnows
    <3>4. \A d \in WorkingDays(m) : \E b \in made' : b.date = d /\ (b.person = p \/ b.spot = employee[p].spot)
      BY <3>1, <3>2, <3>3, <1>0, CommitBooksWeek
    <3> QED BY <3>4, <2>0 DEF Booked
  <2> QED BY <2>1, <2>2
<1> QED BY <1>0, <1>1, <1>2, <1>3, <1>4

LEMMA InitStaticOK == Init => StaticOK
<1> SUFFICES ASSUME Init PROVE StaticOK
  OBVIOUS
<1>1. ASSUME NEW p \in People PROVE ManagerHasSpot(p)
  BY DEF Init, ManagerHasSpot, EmployeeRow
<1> QED BY <1>1 DEF Init, StaticOK, RunKnows

(* While benefits, applications and spots are left alone, every week that is recorded was *)
(* handed out whole: the run's transaction commits the week and its bookings together.    *)
THEOREM RecordedWeeksAreBooked == Spec => []RecordedWeekIsBooked
<1>1. StaticOK => RecordedWeekIsBooked
  BY DEF StaticOK, RecordedWeekIsBooked, Booked
<1>2. BInv /\ StaticOK /\ [Next]_vars => StaticOK'
  BY StepStaticOK DEF BInv
<1> QED BY <1>1, <1>2, InitBInv, StepBInv, InitStaticOK, PTL DEF Spec

-----------------------------------------------------------------------------
(* The past *)

(* Who takes bookings away: each only those of today and later, a benefit those it  *)
(* found on or after the day its request began, and a departure the person's own.   *)
LEMMA PastKept ==
  ASSUME TypeOK, HandlersOK, [Next]_vars, NEW b \in booking \ booking'
  PROVE  \/ b.date >= today
         \/ ~employee'[b.person].hired
         \/ \E r \in Requests : req'[r] # req[r] /\ req[r].since <= b.date
<1>0. /\ req \in [Requests -> RequestState] /\ b.person \in People
      /\ b.date \in Int
  BY DEF TypeOK, BookingRow, Dates
<1>1. ASSUME NEW c \in booking, Cancel(c) PROVE b.date >= today
  BY <1>1 DEF Cancel
<1>2. ASSUME NEW p \in People, Leave(p) PROVE ~employee'[b.person].hired
  BY <1>2, <1>0 DEF Leave, TypeOK
<1>3. ASSUME NEW r \in Requests, SpotOff(r) PROVE b.date >= today
  BY <1>3 DEF SpotOff
<1>4. ASSUME NEW r \in Requests, BenefitDrop(r) PROVE req'[r] # req[r] /\ req[r].since <= b.date
  <2>1. b \in req[r].found /\ req[r].pc = "drop" /\ Handler(r)
    BY <1>4 DEF BenefitDrop, HandlersOK
  <2>2. req'[r].pc # "drop" /\ req[r].since \in Int
    BY <1>4, <1>0 DEF BenefitDrop, RequestState, Dates
  <2> QED BY <2>1, <2>2, <1>0 DEF Handler
<1>5. ASSUME NEW r \in Requests, RequestStep(r), ~SpotOff(r), ~BenefitDrop(r) PROVE FALSE
  BY <1>5 DEF RequestStep, DayLoad, DayRefused, Insert, Duplicate, BenefitUpdate, BenefitFind,
     BenefitDays, BenefitManagers, BenefitAssign, UpdateSpotWrite, DeleteSpot, Quiet
<1>6. ASSUME NEW r \in Requests, Arrive(r) \/ RequestFails(r) PROVE FALSE
  BY <1>6 DEF Arrive, Book, BookMany, BenefitLoad, DeleteSpotLoad, UpdateSpotLoad, RequestFails, Quiet
<1>7. ASSUME NEW q \in Runs, RunStep(q) \/ RunFails(q) PROVE FALSE
  BY <1>7 DEF RunStep, WeeklyLoad, WeeklyKnown, WeeklyManagers, WeeklyCommit, RunFails
<1>8. ASSUME Tick \/ UNCHANGED vars \/ \E p \in People : AppsChange(p) PROVE FALSE
  BY <1>8 DEF Tick, vars, AppsChange
<1>9. ASSUME NEW r \in Requests, RequestStep(r)
      PROVE  \/ b.date >= today
             \/ req'[r] # req[r] /\ req[r].since <= b.date
  BY <1>9, <1>3, <1>4, <1>5
<1> QED BY <1>1, <1>2, <1>6, <1>7, <1>8, <1>9 DEF Next

(* The bookings of the past stay readable, whatever is turned off, cancelled or changed. *)
THEOREM PastIsKept == Spec => PastBookingsStay
<1>1. BInv /\ [Next]_vars =>
        [\A b \in booking \ booking' :
           \/ b.date >= today
           \/ ~employee'[b.person].hired
           \/ \E r \in Requests : req'[r] # req[r] /\ req[r].since <= b.date]_vars
  BY PastKept DEF BInv, IInv
<1> QED BY <1>1, InitBInv, StepBInv, PTL DEF Spec, PastBookingsStay
=============================================================================
