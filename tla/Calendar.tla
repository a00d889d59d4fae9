------------------------------ MODULE Calendar ------------------------------
(***************************************************************************)
(* The parking calendar of the badge, src/web/src/access/BadgeParking.tsx   *)
(* and src/mobile/src/app/parking.tsx, and what the server answers it       *)
(* (parking.service.ts).  A person with several sites picks days on a        *)
(* site's calendar and a spot, and books them in one request; calendars are *)
(* read without order, so an answer may come under days already picked.     *)
(*                                                                         *)
(* A site has one spot, named by the site.  Whether it is free on a day is   *)
(* any choice each time it is asked: what the others book is Parking.tla.   *)
(***************************************************************************)
EXTENDS Integers, FiniteSets

CONSTANTS
  Lots,        \* the sites with parking
  LotDays,     \* the days of the calendar
  MaxActive,   \* the bookings a person may have at once
  MaxCalendars,\* bound: calendars being read at once
  NoLot        \* no site, no spot

VARIABLES
  mine,        \* the person's bookings: the site of each day
  calendar,    \* what the page shows, and what is picked on it
  booking,     \* the request under way
  calendars    \* the calendars being read: of which site, and which one ends a request

calendarVars == <<mine, calendar, booking, calendars>>

NotPicked == [lot |-> NoLot, quiet |-> TRUE]
NoneSeen == [lot |-> NoLot, open |-> {}, held |-> {}]
Ask(lot, last) == [lot |-> lot, last |-> last]
NoBooking == [kind |-> "none"]

CalendarInit ==
  /\ mine = [d \in LotDays |-> NoLot]
  /\ calendar = [view |-> NoneSeen, picked |-> [d \in LotDays |-> NotPicked],
                 spot |-> NoLot, busy |-> FALSE]
  /\ booking = NoBooking
  /\ calendars = {Ask(NoLot, FALSE)}

Picked == {d \in LotDays : calendar.picked[d] # NotPicked}

(* (as a bug) changing site keeps the days picked *)
UnpickedNever(c) == c

Unpicked(c) == [c EXCEPT !.picked = [d \in LotDays |-> NotPicked]]
Held == {d \in LotDays : mine[d] # NoLot}
OnScreen == calendar.view.lot # NoLot
Clickable == OnScreen /\ ~calendar.busy
FreeSpots(lot) == SUBSET {lot}
Seen(lot, open) == [lot |-> lot, open |-> open, held |-> Held]
Reading(lot, last) == Cardinality(calendars) < MaxCalendars /\ calendars' = calendars \cup {Ask(lot, last)}

(* The chips of the sites stay enabled; the old calendar is shown until the *)
(* new one comes, and the spot chosen on it stays.                          *)
ChangesLot(lot) ==
  /\ OnScreen
  /\ calendar' = Unpicked(calendar)
  /\ Reading(lot, FALSE)
  /\ UNCHANGED <<mine, booking>>

(* quiet: no calendar of another site was on its way when it was clicked.   *)
Toggles(d) ==
  /\ Clickable /\ d \in calendar.view.open
  /\ \/ /\ d \in Picked
        /\ calendar' = [calendar EXCEPT !.picked[d] = NotPicked]
     \/ /\ d \notin Picked /\ Cardinality(Picked) < MaxActive - Cardinality(calendar.view.held)
        /\ calendar' = [calendar EXCEPT !.picked[d] =
             [lot |-> calendar.view.lot, quiet |-> \A a \in calendars : a.lot = calendar.view.lot]]
  /\ UNCHANGED <<mine, booking, calendars>>

(* The spots free on all the days picked come for the site shown: a chosen  *)
(* spot that is not among them is forgotten, and one of them may be chosen. *)
ChoosesSpot(spot) ==
  /\ OnScreen /\ Picked # {}
  /\ \E free \in FreeSpots(calendar.view.lot) : spot \in free \cup {NoLot}
  /\ calendar' = [calendar EXCEPT !.spot = spot]
  /\ UNCHANGED <<mine, booking, calendars>>

ClearsPicks ==
  /\ Picked # {} /\ ~calendar.busy
  /\ calendar' = [Unpicked(calendar) EXCEPT !.spot = NoLot]
  /\ UNCHANGED <<mine, booking, calendars>>

BooksPicked ==
  /\ OnScreen /\ Picked # {} /\ ~calendar.busy
  /\ calendar' = [calendar EXCEPT !.busy = TRUE]
  /\ booking' = [kind |-> "book", lot |-> calendar.view.lot, picked |-> calendar.picked,
                 spot |-> calendar.spot, answer |-> "none"]
  /\ UNCHANGED <<mine, calendars>>

GivesBack(d) ==
  /\ Clickable /\ d \in calendar.view.held
  /\ calendar' = [calendar EXCEPT !.busy = TRUE]
  /\ booking' = [kind |-> "release", lot |-> calendar.view.lot, day |-> d, answer |-> "none"]
  /\ UNCHANGED <<mine, calendars>>

-----------------------------------------------------------------------------
(* The server: the limit is checked for the whole request, then each day is *)
(* booked on the chosen spot or on a free one, or refused on its own.       *)
Asked == {d \in LotDays : booking.picked[d] # NotPicked}

BooksMany ==
  /\ booking.kind = "book" /\ booking.answer = "none"
  /\ IF Cardinality(Held) + Cardinality(Asked) > MaxActive
     THEN booking' = [booking EXCEPT !.answer = "refused"] /\ UNCHANGED mine
     ELSE /\ booking' = [booking EXCEPT !.answer = "ok"]
          /\ \E got \in SUBSET {d \in Asked : mine[d] = NoLot /\ booking.spot \in {NoLot, booking.lot}} :
               mine' = [d \in LotDays |-> IF d \in got THEN booking.lot ELSE mine[d]]
  /\ UNCHANGED <<calendar, calendars>>

(* The booking is named by its id: it may be gone, the day booked again.    *)
CancelsDay ==
  /\ booking.kind = "release" /\ booking.answer = "none"
  /\ booking' = [booking EXCEPT !.answer = "ok"]
  /\ mine' \in {mine, [mine EXCEPT ![booking.day] = NoLot]}
  /\ UNCHANGED <<calendar, calendars>>

(* The answer, or none: an answer clears what was picked, an error keeps    *)
(* it, and the page stays busy until the calendar of the site it booked at  *)
(* was read again.                                                          *)
BookingAnswered ==
  /\ booking # NoBooking
  /\ \/ /\ booking.kind = "book" /\ booking.answer = "ok"
        /\ calendar' = [Unpicked(calendar) EXCEPT !.spot = NoLot]
     \/ UNCHANGED calendar
  /\ Reading(booking.lot, TRUE)
  /\ booking' = NoBooking
  /\ UNCHANGED mine

(* A calendar comes as the server holds it, in whatever order, or its       *)
(* reading fails.  What is picked stays.                                    *)
CalendarCame(a) ==
  /\ \/ \E lot \in IF a.lot = NoLot THEN Lots ELSE {a.lot} :
          \E open \in SUBSET (LotDays \ Held) :
            calendar' = [calendar EXCEPT !.view = Seen(lot, open), !.busy = @ /\ ~a.last]
     \/ calendar' = [calendar EXCEPT !.busy = @ /\ ~a.last]
  /\ calendars' = calendars \ {a}
  /\ UNCHANGED <<mine, booking>>

(* The person books a day or gives it back from another device.             *)
OtherDevice(lot, d) ==
  /\ \/ mine[d] = lot /\ mine' = [mine EXCEPT ![d] = NoLot]
     \/ mine[d] = NoLot /\ Cardinality(Held) < MaxActive /\ mine' = [mine EXCEPT ![d] = lot]
  /\ UNCHANGED <<calendar, booking, calendars>>

CalendarNext ==
  \/ \E lot \in Lots : ChangesLot(lot)
  \/ \E lot \in Lots, d \in LotDays : OtherDevice(lot, d)
  \/ \E d \in LotDays : Toggles(d) \/ GivesBack(d)
  \/ \E spot \in Lots \cup {NoLot} : ChoosesSpot(spot)
  \/ \E a \in calendars : CalendarCame(a)
  \/ ClearsPicks \/ BooksPicked \/ BooksMany \/ CancelsDay \/ BookingAnswered

-----------------------------------------------------------------------------
(* A day is booked at the site on whose calendar it was picked, unless it    *)
(* was picked while the calendar of another site was already on its way:    *)
(* changing site forgets the days picked before.                            *)
BookedWherePicked ==
  booking.kind = "book" =>
    \A d \in LotDays : booking.picked[d].quiet => booking.picked[d].lot \in {booking.lot, NoLot}
=============================================================================
