------------------------------ MODULE Premises ------------------------------
(***************************************************************************)
(* What goes on behind the reception: parcels, roll calls, the enrolment   *)
(* of devices, the texts a guest accepts, hosts and employees, the         *)
(* operator's commands, the limits on calls and the parking calendar.      *)
(* They share the processes and the database and no table that one writes  *)
(* and another reads: a step of one changes nothing of the others, so each *)
(* behaviour follows one of them (focus).                                  *)
(***************************************************************************)
EXTENDS Parcels, RollCall, Pairing, Texts, Directory, Operator, Throttle, Calendar

VARIABLE focus  \* the part this behaviour follows

vars == <<parcelVars, rollVars, pairVars, textVars, directoryVars, operatorVars, throttleVars, calendarVars, focus>>

Parts == {"parcels", "rollcall", "pairing", "texts", "directory", "operator", "throttle", "calendar"}

Init ==
  /\ focus \in Parts
  /\ ParcelInit
  /\ RollInit
  /\ PairInit
  /\ TextInit
  /\ DirectoryInit
  /\ OperatorInit
  /\ ThrottleInit
  /\ CalendarInit

ParcelRoom ==
  /\ focus = "parcels" /\ ParcelNext
  /\ UNCHANGED <<rollVars, pairVars, textVars, directoryVars, operatorVars, throttleVars, calendarVars, focus>>

Muster ==
  /\ focus = "rollcall" /\ RollNext
  /\ UNCHANGED <<parcelVars, pairVars, textVars, directoryVars, operatorVars, throttleVars, calendarVars, focus>>

Enrolment ==
  /\ focus = "pairing" /\ PairNext
  /\ UNCHANGED <<parcelVars, rollVars, textVars, directoryVars, operatorVars, throttleVars, calendarVars, focus>>

SigningDesk ==
  /\ focus = "texts" /\ TextNext
  /\ UNCHANGED <<parcelVars, rollVars, pairVars, directoryVars, operatorVars, throttleVars, calendarVars, focus>>

PeopleDesk ==
  /\ focus = "directory" /\ DirectoryNext
  /\ UNCHANGED <<parcelVars, rollVars, pairVars, textVars, operatorVars, throttleVars, calendarVars, focus>>

OperatorRoom ==
  /\ focus = "operator" /\ OperatorNext
  /\ UNCHANGED <<parcelVars, rollVars, pairVars, textVars, directoryVars, throttleVars, calendarVars, focus>>

Gate ==
  /\ focus = "throttle" /\ ThrottleNext
  /\ UNCHANGED <<parcelVars, rollVars, pairVars, textVars, directoryVars, operatorVars, calendarVars, focus>>

ParkingPage ==
  /\ focus = "calendar" /\ CalendarNext
  /\ UNCHANGED <<parcelVars, rollVars, pairVars, textVars, directoryVars, operatorVars, throttleVars, focus>>

Next == ParcelRoom \/ Muster \/ Enrolment \/ SigningDesk \/ PeopleDesk \/ OperatorRoom \/ Gate \/ ParkingPage

Spec == Init /\ [][Next]_vars

\* The type of every table, process and screen of these parts.
TypeOK ==
  /\ ParcelTypeOK
  /\ RollTypeOK
  /\ PairTypeOK
  /\ TextTypeOK
  /\ DirectoryTypeOK
  /\ OperatorTypeOK
  /\ ThrottleTypeOK
  /\ focus \in Parts
=============================================================================
