------------------------------ MODULE Parcels ------------------------------
(***************************************************************************)
(* Parcels left at reception: taken in with a photo, handed over, removed  *)
(* when they were a mistake; the retention run purges the photos that are  *)
(* due, then forgets the parcels handed over long ago.  Each request stops *)
(* at its awaits; a transaction is one step.                               *)
(*                                                                         *)
(* A definition under a "Bug:" comment is not part of the specification:   *)
(* it is the definition that follows with a plausible mistake in it, which *)
(* the properties must notice.                                             *)
(***************************************************************************)
EXTENDS Integers

CONSTANTS
  Handlers,       \* requests about parcels that may be in progress together
  ParcelIds,      \* rows of the table parcels, each is used once
  AfterCollect, PhotoDays, KeepDays,  \* 7, 90 and 180 days
  LastDay         \* bound on the days

ASSUME ParcelsAssumption ==
  /\ {AfterCollect, PhotoDays, KeepDays, LastDay} \subseteq Nat
  /\ AfterCollect < PhotoDays /\ PhotoDays < KeepDays
  /\ "none" \notin Handlers \cup ParcelIds

VARIABLES
  day,       \* days since the beginning
  parcel,    \* table parcels
  photo,     \* its row in stored_files and the encrypted image
  employed,  \* the employees the parcels are for are active, with the app on
  handler,   \* the requests; the retention run is one of them
  crossed,   \* parcels whose handover crossed the end of their photo, or was cut (history)
  lost,      \* parcels whose photo went within the week of their handover (history)
  early      \* parcels forgotten before KeepDays (history)

parcelVars == <<day, parcel, photo, employed, handler, crossed, lost, early>>

Free == [op |-> "idle", pc |-> "idle", id |-> "none"]

ParcelTypeOK ==
  /\ day \in 0..LastDay
  /\ parcel \in [ParcelIds -> [row : {"absent", "waiting", "collected", "gone"}, on : -1..LastDay]]
  /\ photo \in [ParcelIds -> [row : {"none", "kept", "purged"}, blob : BOOLEAN, due : 0..(LastDay + PhotoDays)]]
  /\ employed \subseteq ParcelIds
  /\ handler \in [Handlers -> [op : {"idle", "create", "collect", "remove", "retention"},
                               pc : {"idle", "insert", "update", "week", "find", "blob", "row", "delete"},
                               id : ParcelIds \cup {"none"}]]
  /\ {crossed, lost, early} \subseteq SUBSET ParcelIds

ParcelInit ==
  /\ day = 0
  /\ parcel = [p \in ParcelIds |-> [row |-> "absent", on |-> -1]]
  /\ photo = [p \in ParcelIds |-> [row |-> "none", blob |-> FALSE, due |-> 0]]
  /\ employed = ParcelIds
  /\ handler = [r \in Handlers |-> Free]
  /\ crossed = {} /\ lost = {} /\ early = {}

Handling(r, op, pc) == handler[r].op = op /\ handler[r].pc = pc
Handles(r, op, pc, p) == handler[r].op = "idle" /\ handler' = [handler EXCEPT ![r] = [op |-> op, pc |-> pc, id |-> p]]
GoesOn(r, pc) == handler' = [handler EXCEPT ![r].pc = pc]
IsHandled(r) == handler' = [handler EXCEPT ![r] = Free]

-----------------------------------------------------------------------------
(* Taking in *)

ReceiveReads(r) ==
  /\ \E p \in employed : parcel[p].row = "absent" /\ Handles(r, "create", "insert", p)
  /\ UNCHANGED <<day, parcel, photo, employed, crossed, lost, early>>

\* Row, photo and notice are one transaction; the employee may have left since.
ReceiveCommits(r) ==
  LET p == handler[r].id IN
  /\ Handling(r, "create", "insert")
  /\ IF parcel[p].row = "absent"
     THEN /\ parcel' = [parcel EXCEPT ![p] = [row |-> "waiting", on |-> -1]]
          /\ \/ UNCHANGED photo
             \/ photo' = [photo EXCEPT ![p] = [row |-> "kept", blob |-> TRUE, due |-> day + PhotoDays]]
     ELSE UNCHANGED <<parcel, photo>>
  /\ IsHandled(r)
  /\ UNCHANGED <<day, employed, crossed, lost, early>>

EmployeeChanges(p) ==
  /\ employed' = IF p \in employed THEN employed \ {p} ELSE employed \cup {p}
  /\ parcel[p].row = "absent"
  /\ UNCHANGED <<day, parcel, photo, handler, crossed, lost, early>>

-----------------------------------------------------------------------------
(* Handing over *)

CollectReads(r) ==
  /\ \E p \in ParcelIds : parcel[p].row \in {"waiting", "collected"} /\ Handles(r, "collect", "update", p)
  /\ UNCHANGED <<day, parcel, photo, employed, crossed, lost, early>>

\* Past the first statement of the end of the photo of p.
Purging(p) == \E r \in Handlers : handler[r].op \in {"remove", "retention"} /\ handler[r].id = p

\* Bug: the photo stays as long as the record.
WeekOfRecord(from) == from + KeepDays

\* The photo has done its job: it goes a week later.
Week(from) == from + AfterCollect

\* The condition makes one of two handovers fail.
CollectUpdates(r) ==
  LET p == handler[r].id IN
  /\ Handling(r, "collect", "update")
  /\ IF parcel[p].row = "waiting"
     THEN /\ parcel' = [parcel EXCEPT ![p] = [row |-> "collected", on |-> day]]
          /\ crossed' = IF Purging(p) THEN crossed \cup {p} ELSE crossed
          /\ GoesOn(r, "week")
     ELSE IsHandled(r) /\ UNCHANGED <<parcel, crossed>>
  /\ UNCHANGED <<day, photo, employed, lost, early>>

CollectDates(r) ==
  LET p == handler[r].id IN
  /\ Handling(r, "collect", "week")
  /\ photo' = IF photo[p].row = "kept" THEN [photo EXCEPT ![p].due = Week(parcel[p].on)] ELSE photo
  /\ crossed' = IF Purging(p) THEN crossed \cup {p} ELSE crossed
  /\ IsHandled(r)
  /\ UNCHANGED <<day, parcel, employed, lost, early>>

-----------------------------------------------------------------------------
(* The end of a photo *)

RemoveReads(r) ==
  /\ \E p \in ParcelIds : parcel[p].row = "waiting" /\ Handles(r, "remove", "find", p)
  /\ UNCHANGED <<day, parcel, photo, employed, crossed, lost, early>>

\* The photos are looked for after the check of the status.
PhotosOf(p) == IF photo[p].row = "kept" THEN "blob" ELSE "delete"

RemoveFinds(r) ==
  /\ Handling(r, "remove", "find")
  /\ GoesOn(r, PhotosOf(handler[r].id))
  /\ crossed' = IF parcel[handler[r].id].row = "collected" THEN crossed \cup {handler[r].id} ELSE crossed
  /\ UNCHANGED <<day, parcel, photo, employed, lost, early>>

\* Purging is two steps: the image, then the row.
PurgesImage(r) ==
  /\ handler[r].op \in {"remove", "retention"} /\ handler[r].pc = "blob"
  /\ photo' = [photo EXCEPT ![handler[r].id].blob = FALSE]
  /\ GoesOn(r, "row")
  /\ UNCHANGED <<day, parcel, employed, crossed, lost, early>>

PurgesRow(r) ==
  LET p == handler[r].id IN
  /\ handler[r].op \in {"remove", "retention"} /\ handler[r].pc = "row"
  /\ photo' = [photo EXCEPT ![p].row = "purged"]
  /\ lost' = IF parcel[p].row = "collected" /\ day <= parcel[p].on + AfterCollect /\ photo[p].row = "kept"
             THEN lost \cup {p} ELSE lost
  /\ handler' = [handler EXCEPT ![r].pc = IF handler[r].op = "remove" THEN "delete" ELSE "find",
                                ![r].id = IF handler[r].op = "remove" THEN p ELSE "none"]
  /\ UNCHANGED <<day, parcel, employed, crossed, early>>

\* Bug: the DELETE does not look at the status again.
MayGoAnyway(p) == parcel[p].row \in {"waiting", "collected"}

MayGo(p) == parcel[p].row = "waiting"

RemoveDeletes(r) ==
  LET p == handler[r].id IN
  /\ Handling(r, "remove", "delete")
  /\ parcel' = IF MayGo(p) THEN [parcel EXCEPT ![p].row = "gone"] ELSE parcel
  /\ early' = IF parcel'[p].row = "gone" /\ parcel[p].row = "collected" THEN early \cup {p} ELSE early
  /\ IsHandled(r)
  /\ UNCHANGED <<day, photo, employed, crossed, lost>>

-----------------------------------------------------------------------------
(* The retention run *)

RetentionStarts(r) ==
  /\ \A q \in Handlers : handler[q].op # "retention"
  /\ Handles(r, "retention", "find", "none")
  /\ UNCHANGED <<day, parcel, photo, employed, crossed, lost, early>>

BeingCollected(p) == \E r \in Handlers : Handling(r, "collect", "week") /\ handler[r].id = p
DuePhotos == {p \in ParcelIds : photo[p].row = "kept" /\ photo[p].due < day}

\* A due photo, or, when none is left, the parcels.
RetentionFinds(r) ==
  /\ Handling(r, "retention", "find")
  /\ \/ DuePhotos = {} /\ GoesOn(r, "delete") /\ UNCHANGED crossed
     \/ \E p \in DuePhotos :
          /\ handler' = [handler EXCEPT ![r].pc = "blob", ![r].id = p]
          /\ crossed' = IF BeingCollected(p) THEN crossed \cup {p} ELSE crossed
  /\ UNCHANGED <<day, parcel, photo, employed, lost, early>>

Expired(p) == parcel[p].row = "collected" /\ parcel[p].on < day - KeepDays

RetentionForgets(r) ==
  /\ Handling(r, "retention", "delete")
  /\ parcel' = [p \in ParcelIds |-> IF Expired(p) THEN [parcel[p] EXCEPT !.row = "gone"] ELSE parcel[p]]
  /\ early' = early \cup {p \in ParcelIds : parcel'[p] # parcel[p] /\ day <= parcel[p].on + KeepDays}
  /\ IsHandled(r)
  /\ UNCHANGED <<day, photo, employed, crossed, lost>>

\* The process dies in a request: a handover may stay without its second step.
HandlerDies(r) ==
  /\ handler[r].op # "idle" /\ IsHandled(r)
  /\ crossed' = IF Handling(r, "collect", "week") THEN crossed \cup {handler[r].id} ELSE crossed
  /\ UNCHANGED <<day, parcel, photo, employed, lost, early>>

\* No request lasts a day.
DayPasses ==
  /\ day < LastDay /\ day' = day + 1
  /\ \A r \in Handlers : handler[r].op = "idle"
  /\ UNCHANGED <<parcel, photo, employed, handler, crossed, lost, early>>

ParcelNext ==
  \/ DayPasses
  \/ \E p \in ParcelIds : EmployeeChanges(p)
  \/ \E r \in Handlers :
       \/ ReceiveReads(r) \/ ReceiveCommits(r) \/ CollectReads(r) \/ CollectUpdates(r) \/ CollectDates(r)
       \/ RemoveReads(r) \/ RemoveFinds(r) \/ RemoveDeletes(r) \/ PurgesImage(r) \/ PurgesRow(r)
       \/ RetentionStarts(r) \/ RetentionFinds(r) \/ RetentionForgets(r) \/ HandlerDies(r)

-----------------------------------------------------------------------------
(* A photo follows its parcel: it is kept while the parcel is there and no  *)
(* longer, it stays for the week after the handover unless the handover was *)
(* cut or crossed the end of the photo, and the record of a handover stays  *)
(* its six months whatever removal or retention run crosses it.             *)
PhotosFollowParcels ==
  /\ \A p \in ParcelIds : photo[p].row = "kept" => parcel[p].row \in {"waiting", "collected"}
  /\ \A p \in ParcelIds : photo[p].blob => photo[p].row = "kept"
  /\ lost \subseteq crossed
  /\ early = {}
=============================================================================
