--------------------------- MODULE PremisesProofs ---------------------------
(***************************************************************************)
(* Theorems about what goes on behind the reception, for any number of     *)
(* requests, parcels, marshals, devices, sites, texts and people: the      *)
(* types of all these parts and what each of them promises.                *)
(*                                                                         *)
(* A step of one part changes nothing of the others, so each part has an   *)
(* invariant of its own that its steps preserve.                           *)
(***************************************************************************)
EXTENDS Premises, FiniteSetTheorems, TLAPS

-----------------------------------------------------------------------------
(* Parcels *)

\* What a request about a parcel knows at each of its steps.
ParcelsCarried ==
  /\ \A r \in Handlers : handler[r].op \in {"create", "collect", "remove"} => handler[r].id \in ParcelIds
  /\ \A r \in Handlers : handler[r].op \in {"collect", "remove"} => parcel[handler[r].id].row # "absent"
  /\ \A r \in Handlers : handler[r].op = "retention" /\ handler[r].pc \in {"blob", "row"} =>
       handler[r].id \in ParcelIds /\ parcel[handler[r].id].row # "absent"
  /\ \A r \in Handlers : Handling(r, "collect", "week") => parcel[handler[r].id].on \in 0..day
  /\ \A r \in Handlers : handler[r].op \in {"remove", "retention"} /\ handler[r].pc = "row" =>
       ~photo[handler[r].id].blob
  /\ \A r \in Handlers : Handling(r, "remove", "delete") => photo[handler[r].id].row # "kept"

\* When a photo is due.
PhotosDated ==
  \A p \in ParcelIds :
    /\ parcel[p].row = "collected" => parcel[p].on \in 0..day
    /\ photo[p].row = "kept" => photo[p].due <= day + PhotoDays
    /\ photo[p].row = "kept" /\ parcel[p].row = "collected" =>
         /\ photo[p].due <= parcel[p].on + PhotoDays
         /\ photo[p].due = Week(parcel[p].on) \/ p \in crossed \/ BeingCollected(p)

\* A purge under way of a parcel handed over has crossed the handover, or comes after the
\* week; and the run forgets nothing that has a photo.
PurgesCrossed ==
  /\ \A r \in Handlers : handler[r].op = "remove" /\ handler[r].pc \in {"blob", "row", "delete"} =>
       (parcel[handler[r].id].row = "collected" => handler[r].id \in crossed)
  /\ \A r \in Handlers : handler[r].op = "retention" /\ handler[r].pc \in {"blob", "row"} =>
       (parcel[handler[r].id].row = "collected" =>
          handler[r].id \in crossed \/ day > parcel[handler[r].id].on + AfterCollect)
  /\ \A r \in Handlers : Handling(r, "retention", "delete") =>
       \A p \in ParcelIds : photo[p].row = "kept" => ~Expired(p)

ParcelInv == ParcelTypeOK /\ ParcelsCarried /\ PhotosDated /\ PurgesCrossed /\ PhotosFollowParcels

-----------------------------------------------------------------------------
(* Roll calls *)

\* What a request about a roll call knows, and that nothing is known of one to come.
MarshalsCarried ==
  /\ \A m \in Marshals : marshal[m].op \in {"check", "end"} => marshal[m].of \in Alarms
  /\ \A m \in Marshals : marshal[m].op = "check" => marshal[m].who \in People
  /\ \A a \in Alarms : alarm[a].row = "none" =>
       (\A p \in People : <<a, p>> \notin ticks) /\ (\A m \in Marshals : marshal[m].of # a)

OneRuns == \A a, b \in Running \ blurred : a = b

Ended(a) == alarm[a].row # "running" /\ \A m \in Marshals : marshal[m].of # a
Safe(a) == {p \in People : <<a, p>> \in ticks}

\* Employees who were ticked, or are being ticked, have passed a door today; and what a
\* request that ends the roll call has counted is what was ticked.
TicksListed ==
  \A a \in Alarms \ blurred :
    /\ ~Ended(a) => \A s \in Staffers \ Guests : <<a, s>> \in ticks => s \in entered
    /\ \A m \in Marshals : marshal[m].op = "check" /\ marshal[m].of = a =>
         marshal[m].who \in Guests \cup entered
    /\ \A m \in Marshals : Doing(m, "end", "update") /\ marshal[m].of = a =>
         marshal[m].safe = Cardinality(Safe(a)) /\ marshal[m].safe <= marshal[m].people

RollInv == RollTypeOK /\ MarshalsCarried /\ OneRuns /\ TicksListed /\ RollCallKept

-----------------------------------------------------------------------------
(* Enrolment *)

\* A code that enrols a device is used, by that device alone; the request that pairs
\* carries a code of its kind.
CodesCarried ==
  /\ \A d \in Devices : device[d].row # "absent" => device[d].of \in Codes /\ code[device[d].of].state = "used"
  /\ \A r \in Installers : installer[r].op = "pair" =>
       /\ installer[r].of \in Codes
       /\ code[installer[r].of].state # "absent" /\ code[installer[r].of].kind = installer[r].kind
  /\ \A r \in Installers : installer[r].op \in {"site", "reopen"} => installer[r].of \in Places

\* Codes with which a tablet may still be enrolled, made when no other was out.
Redeemable ==
  {c \in Codes \ promised : code[c].kind = "tablet"
     /\ (code[c].state = "issued"
         \/ (code[c].state = "expired" /\ \E r \in Installers : installer[r].op = "pair" /\ installer[r].of = c))}
Enrolled == {d \in Tablets : device[d].of \notin promised}

\* What was counted is true until another request crosses.
PlanCounted ==
  /\ \A r \in Installers : installer[r].op = "code" /\ installer[r].kind = "tablet" /\ ~installer[r].over =>
       Cardinality(Tablets) < MaxDevices
  /\ \A r \in Installers : installer[r].op \in {"site", "reopen"} /\ ~installer[r].over =>
       Cardinality(InUse) < MaxSites
  /\ \A c, x \in Redeemable : c = x
  /\ Redeemable # {} => Cardinality(Enrolled) < MaxDevices

PairInv == PairTypeOK /\ CodesCarried /\ PlanCounted /\ PlanHolds

-----------------------------------------------------------------------------
(* Texts *)

GuestRequest ==
  [op : {"idle", "checkin", "submit", "arrive"}, pc : {"idle", "notice", "docs", "texts", "persist"},
   asked : SUBSET Docs, from : 0..MaxVersion, always : SUBSET Docs, seen : SUBSET Texts]

TextShapes ==
  /\ guest \in GuestRequest
  /\ screen \in [notice : 0..MaxVersion, texts : SUBSET Texts]
  /\ pre \in [done : BOOLEAN, texts : SUBSET Texts]
  /\ \A e \in Editors : editor[e].what # "none" => editor[e].last < MaxVersion

\* What a guest's request and its screen know of the texts in force.
GuestKnows ==
  /\ \A t \in screen.texts : t[2] <= doc[t[1]].version
  /\ (guest.pc = "idle") <=> (guest = Away)
  /\ (guest.op = "idle") <=> (guest = Away)
  /\ guest # Away =>
       /\ guest.from <= notice
       /\ InForce(doc) \subseteq guest.seen
       /\ guest.always \subseteq Named(InForce(doc))
  /\ guest.pc = "notice" => guest.op # "arrive"
  /\ guest.pc \in {"docs", "texts", "persist"} /\ guest.op # "arrive" => screen.notice \in guest.from..notice
  /\ guest.pc = "texts" =>
       /\ guest.always \subseteq guest.asked
       /\ \A t \in screen.texts : t[1] \in guest.asked /\ t[2] = doc[t[1]].version => t \in guest.seen

TextInv == TextTypeOK /\ TextShapes /\ GuestKnows /\ AcceptedInForce

-----------------------------------------------------------------------------
(* The directory *)

\* What a request is about to save is what the HR system says, unless it changed since.
SavesFresh ==
  \A m \in Managers :
    LET q == manager[m] IN
    /\ (q.op = "idle") <=> (q.pc = "idle")
    /\ q.op # "idle" => q.id \in HostIds
    /\ q.pc = "employee" => q.employee \in Workers
    /\ q.pc = "save" /\ ~q.over =>
         /\ q.employee \in Workers => worker[q.employee].row /\ worker[q.employee].name = q.name
         /\ q.employee = "keep" /\ q.read.employee # "none" =>
              worker[q.read.employee].row /\ worker[q.read.employee].name = q.read.name

ManagerRequests ==
  manager \in [Managers -> [op : {"idle", "create", "update"}, pc : {"idle", "employee", "save"},
                            id : HostIds \cup {"none"}, sees : SUBSET Offices,
                            read : [sites : SUBSET Offices, employee : Workers \cup {"none"}, name : 0..MaxName],
                            employee : Workers \cup {"keep"}, name : 0..MaxName, over : BOOLEAN]]

DirectoryInv == DirectoryTypeOK /\ ManagerRequests /\ SavesFresh /\ DirectoryHolds

-----------------------------------------------------------------------------
(* The operator's commands *)

\* Where the rotation has come.
Rotation ==
  /\ \A r \in Replicas : replica[r].stage <= stage
  /\ command["rewrap"].pc # "idle" => stage >= 1 /\ \A r \in Replicas : replica[r].stage >= 1
  /\ stage = 2 => command["rewrap"].pc = "done"
  /\ command["rewrap"].pc = "done" => tenant.wrapped # "old"
  /\ stage = 0 => tenant.wrapped # "new"
  /\ tenant.status = "gone" => tenant.wrapped = "none"

\* The caches run out before what they keep is too old.
CachesEnd ==
  /\ revived => command["rewrap"].pc = "done"
  /\ tenant.status = "absent" => since.suspended = Never /\ since.shredded = Never
  /\ tenant.status = "active" => since.suspended = Never
  /\ since.suspended # Never => \A r \in Replicas :
       replica[r].known = "active" => since.suspended + replica[r].left <= ResolverTTL
  /\ since.shredded # Never /\ ~revived => \A r \in Replicas :
       HasKeys(r) => since.shredded + replica[r].keysLeft <= KeysTTL

OperatorInv == OperatorTypeOK /\ Rotation /\ CachesEnd /\ ShreddedForGood

-----------------------------------------------------------------------------
(* The rate limit *)

\* The callers counted in a window, and those let through.
CountedIn(w) == {c \in Callers : caller[c].of = w}
PassedIn(w) == {c \in Callers : caller[c] = [pc |-> "passed", of |-> w, late |-> FALSE]}

HitsCounted ==
  /\ counter.row => turn >= 1 /\ counter.hits = Cardinality(CountedIn(turn))
  /\ \A c \in Callers : caller[c].of <= turn /\ (caller[c].pc = "idle" => caller[c].of = 0)
  /\ turn <= Cardinality({c \in Callers : caller[c].of # 0})

ThrottleInv == ThrottleTypeOK /\ HitsCounted /\ LimitHolds

-----------------------------------------------------------------------------
(* The parking page *)

Picks == [LotDays -> [lot : Lots \cup {NoLot}, quiet : BOOLEAN]]
CalendarShapes ==
  /\ calendar \in [view : [lot : Lots \cup {NoLot}, open : SUBSET LotDays, held : SUBSET LotDays],
                   picked : Picks, spot : Lots \cup {NoLot}, busy : BOOLEAN]
  /\ booking \in {NoBooking}
       \cup [kind : {"book"}, lot : Lots \cup {NoLot}, picked : Picks, spot : Lots \cup {NoLot}, answer : {"none", "ok", "refused"}]
       \cup [kind : {"release"}, lot : Lots \cup {NoLot}, day : LotDays, answer : {"none", "ok"}]
  /\ calendars \subseteq [lot : Lots \cup {NoLot}, last : BOOLEAN]

Quietly(d) == calendar.picked[d].quiet /\ calendar.picked[d] # NotPicked

\* A day picked in quiet is of the calendar shown, and every calendar on its way is of
\* that site too; the page is busy from a request to the calendar that ends it.
PickedOnView ==
  /\ \A d \in LotDays : Quietly(d) =>
       /\ calendar.view.lot # NoLot /\ calendar.picked[d].lot = calendar.view.lot
       /\ \A a \in calendars : a.lot = calendar.view.lot
       /\ booking # NoBooking => booking.lot = calendar.view.lot
  /\ booking # NoBooking => calendar.busy /\ \A a \in calendars : ~a.last
  /\ \A a \in calendars : a.last => calendar.busy
  /\ \A a, b \in calendars : a.last /\ b.last => a = b

CalendarInv == CalendarShapes /\ PickedOnView /\ BookedWherePicked

-----------------------------------------------------------------------------
(* Parcels: proofs *)

ParcelType == [row : {"absent", "waiting", "collected", "gone"}, on : -1..LastDay]
PhotoType == [row : {"none", "kept", "purged"}, blob : BOOLEAN, due : 0..(LastDay + PhotoDays)]
HandlerType == [op : {"idle", "create", "collect", "remove", "retention"},
                pc : {"idle", "insert", "update", "week", "find", "blob", "row", "delete"},
                id : ParcelIds \cup {"none"}]

\* What one request knows, and what is true of one parcel.
Knows(q) ==
  /\ q.op \in {"create", "collect", "remove"} => q.id \in ParcelIds
  /\ q.op \in {"collect", "remove"} => parcel[q.id].row # "absent"
  /\ q.op = "retention" /\ q.pc \in {"blob", "row"} => q.id \in ParcelIds /\ parcel[q.id].row # "absent"
  /\ q.op = "collect" /\ q.pc = "week" => parcel[q.id].on \in 0..day
  /\ q.op \in {"remove", "retention"} /\ q.pc = "row" => ~photo[q.id].blob
  /\ q.op = "remove" /\ q.pc = "delete" => photo[q.id].row # "kept"
  /\ q.op = "remove" /\ q.pc \in {"blob", "row", "delete"} => (parcel[q.id].row = "collected" => q.id \in crossed)
  /\ q.op = "retention" /\ q.pc \in {"blob", "row"} =>
       (parcel[q.id].row = "collected" => q.id \in crossed \/ day > parcel[q.id].on + AfterCollect)
Spares(q) == q.op = "retention" /\ q.pc = "delete" => \A p \in ParcelIds : photo[p].row = "kept" => ~Expired(p)
KnownTo(q) == Knows(q) /\ Spares(q)
Dated(p) ==
  /\ parcel[p].row = "collected" => parcel[p].on \in 0..day
  /\ photo[p].row = "kept" =>
       /\ photo[p].due <= day + PhotoDays
       /\ parcel[p].row \in {"waiting", "collected"}
       /\ parcel[p].row = "collected" =>
            /\ photo[p].due <= parcel[p].on + PhotoDays
            /\ photo[p].due = Week(parcel[p].on) \/ p \in crossed \/ BeingCollected(p)
  /\ photo[p].blob => photo[p].row = "kept"

LEMMA DaysAre ==
  /\ AfterCollect \in Nat /\ PhotoDays \in Nat /\ KeepDays \in Nat /\ LastDay \in Nat
  /\ AfterCollect < PhotoDays /\ PhotoDays < KeepDays /\ "none" \notin ParcelIds
  BY ParcelsAssumption

LEMMA ParcelTyped ==
  ParcelInv =>
    /\ day \in 0..LastDay
    /\ parcel \in [ParcelIds -> ParcelType] /\ photo \in [ParcelIds -> PhotoType]
    /\ handler \in [Handlers -> HandlerType]
    /\ employed \subseteq ParcelIds /\ crossed \subseteq ParcelIds /\ lost \subseteq crossed /\ early = {}
    /\ \A p \in ParcelIds :
         /\ parcel[p] \in ParcelType /\ photo[p] \in PhotoType
         /\ parcel[p].on \in -1..LastDay /\ photo[p].due \in 0..(LastDay + PhotoDays)
         /\ Dated(p)
    /\ \A r \in Handlers : handler[r] \in HandlerType /\ KnownTo(handler[r])
<1> SUFFICES ASSUME ParcelInv
             PROVE  /\ day \in 0..LastDay
                    /\ parcel \in [ParcelIds -> ParcelType] /\ photo \in [ParcelIds -> PhotoType]
                    /\ handler \in [Handlers -> HandlerType]
                    /\ employed \subseteq ParcelIds /\ crossed \subseteq ParcelIds /\ lost \subseteq crossed /\ early = {}
                    /\ \A p \in ParcelIds :
                         /\ parcel[p] \in ParcelType /\ photo[p] \in PhotoType
                         /\ parcel[p].on \in -1..LastDay /\ photo[p].due \in 0..(LastDay + PhotoDays)
                         /\ Dated(p)
                    /\ \A r \in Handlers : handler[r] \in HandlerType /\ KnownTo(handler[r])
  OBVIOUS
<1>1. /\ day \in 0..LastDay
      /\ parcel \in [ParcelIds -> ParcelType] /\ photo \in [ParcelIds -> PhotoType]
      /\ handler \in [Handlers -> HandlerType] /\ employed \subseteq ParcelIds /\ crossed \subseteq ParcelIds
  BY DEF ParcelInv, ParcelTypeOK, ParcelType, PhotoType, HandlerType
<1>2. lost \subseteq crossed /\ early = {}
  BY DEF ParcelInv, PhotosFollowParcels
<1>3. ASSUME NEW p \in ParcelIds
      PROVE  /\ parcel[p] \in ParcelType /\ photo[p] \in PhotoType
             /\ parcel[p].on \in -1..LastDay /\ photo[p].due \in 0..(LastDay + PhotoDays)
  BY <1>1 DEF ParcelType, PhotoType
<1>4. ASSUME NEW p \in ParcelIds PROVE Dated(p)
  BY DEF ParcelInv, PhotosDated, PhotosFollowParcels, Dated
<1>5. ASSUME NEW r \in Handlers PROVE KnownTo(handler[r])
  BY DEF ParcelInv, ParcelsCarried, PurgesCrossed, Handling, KnownTo, Knows, Spares
<1> QED BY <1>1, <1>2, <1>3, <1>4, <1>5

LEMMA ParcelFollows ==
  ASSUME day' \in 0..LastDay,
         parcel' \in [ParcelIds -> ParcelType], photo' \in [ParcelIds -> PhotoType],
         handler' \in [Handlers -> HandlerType],
         employed' \subseteq ParcelIds, crossed' \subseteq ParcelIds, lost' \subseteq crossed', early' = {},
         \A p \in ParcelIds : Dated(p)',
         \A r \in Handlers : KnownTo(handler[r])'
  PROVE  ParcelInv'
<1>1. ParcelTypeOK'
  BY DEF ParcelTypeOK, ParcelType, PhotoType, HandlerType
<1>2. PhotosDated'
  BY DEF PhotosDated, Dated
<1>3. PhotosFollowParcels'
  BY DEF PhotosFollowParcels, Dated
<1>4. ParcelsCarried'
  BY DEF ParcelsCarried, Handling, KnownTo, Knows, Spares
<1>5. PurgesCrossed'
  BY DEF PurgesCrossed, Handling, KnownTo, Knows, Spares
<1> QED BY <1>1, <1>2, <1>3, <1>4, <1>5 DEF ParcelInv

LEMMA FreeIs == Free \in HandlerType /\ Free.op = "idle"
  BY DEF Free, HandlerType

LEMMA ParcelInits == ParcelInit => ParcelInv
<1> SUFFICES ASSUME ParcelInit PROVE ParcelInv
  OBVIOUS
<1>1. /\ \A p \in ParcelIds : parcel[p] = [row |-> "absent", on |-> -1]
      /\ \A p \in ParcelIds : photo[p] = [row |-> "none", blob |-> FALSE, due |-> 0]
      /\ \A r \in Handlers : handler[r] = Free
      /\ lost = {} /\ crossed = {} /\ early = {}
  BY DEF ParcelInit
<1>2. ParcelTypeOK
  <2>1. parcel \in [ParcelIds -> ParcelType] /\ photo \in [ParcelIds -> PhotoType] /\ handler \in [Handlers -> HandlerType]
    BY DaysAre, FreeIs DEF ParcelInit, ParcelType, PhotoType
  <2> QED BY <2>1, DaysAre DEF ParcelInit, ParcelTypeOK, ParcelType, PhotoType, HandlerType
<1>3. PhotosDated /\ PhotosFollowParcels
  BY <1>1 DEF PhotosDated, PhotosFollowParcels
<1>4. ParcelsCarried /\ PurgesCrossed
  BY <1>1, FreeIs DEF ParcelsCarried, PurgesCrossed, Handling
<1> QED BY <1>2, <1>3, <1>4 DEF ParcelInv

\* A request comes, goes on or ends, and the tables stay.
LEMMA HandlerMoves ==
  ASSUME ParcelInv, UNCHANGED <<day, parcel, photo, lost, early>>, employed' \subseteq ParcelIds,
         crossed \subseteq crossed', crossed' \subseteq ParcelIds,
         NEW r \in Handlers, NEW q \in HandlerType, handler' = [handler EXCEPT ![r] = q], KnownTo(handler[r])',
         Handling(r, "collect", "week") => handler[r].id \in crossed'
  PROVE  ParcelInv'
<1>1. \A x \in Handlers : handler'[x] = IF x = r THEN q ELSE handler[x]
  BY ParcelTyped
<1>2. \A p \in ParcelIds : Expired(p)' <=> Expired(p)
  BY DEF Expired
<1>3. ASSUME NEW x \in Handlers PROVE KnownTo(handler[x])'
  <2>1. CASE x = r
    <3>1. handler'[x] = handler'[r]
      BY <2>1
    <3> QED BY <3>1 DEF KnownTo, Knows, Spares
  <2>2. CASE x # r
    <3>1. handler'[x] = handler[x] /\ KnownTo(handler[x])
      BY <1>1, <2>2, ParcelTyped
    <3> QED BY <1>2, <3>1 DEF KnownTo, Knows, Spares
  <2> QED BY <2>1, <2>2
<1>4. ASSUME NEW p \in ParcelIds PROVE Dated(p)'
  <2>1. BeingCollected(p) => BeingCollected(p)' \/ p \in crossed'
    BY <1>1 DEF BeingCollected, Handling
  <2>2. Dated(p)
    BY ParcelTyped
  <2> QED BY <2>1, <2>2 DEF Dated, Week
<1>5. handler' \in [Handlers -> HandlerType]
  BY ParcelTyped
<1> QED BY <1>3, <1>4, <1>5, ParcelTyped, ParcelFollows

LEMMA HandlerFrees ==
  ASSUME ParcelInv, UNCHANGED <<day, parcel, photo, employed, lost, early>>, NEW r \in Handlers, IsHandled(r),
         crossed \subseteq crossed', crossed' \subseteq ParcelIds,
         Handling(r, "collect", "week") => handler[r].id \in crossed'
  PROVE  ParcelInv'
<1>1. handler' = [handler EXCEPT ![r] = Free] /\ handler'[r] = Free
  BY ParcelTyped DEF IsHandled
<1>2. KnownTo(handler[r])'
  BY <1>1, FreeIs DEF KnownTo, Knows, Spares
<1>3. employed' \subseteq ParcelIds
  BY ParcelTyped
<1> QED BY <1>1, <1>2, <1>3, FreeIs, HandlerMoves

\* A request comes: none of its clauses says anything of its first step but what it read.
LEMMA HandlerComes ==
  ASSUME ParcelInv, UNCHANGED <<day, parcel, photo, employed, crossed, lost, early>>, NEW r \in Handlers,
         NEW op \in {"create", "collect", "remove", "retention"}, NEW pc \in {"insert", "update", "find"},
         NEW p \in ParcelIds \cup {"none"}, Handles(r, op, pc, p),
         op # "retention" => p \in ParcelIds, op \in {"collect", "remove"} => parcel[p].row # "absent"
  PROVE  ParcelInv'
<1> DEFINE q == [op |-> op, pc |-> pc, id |-> p]
<1>1. q \in HandlerType /\ q.op = op /\ q.pc = pc /\ q.id = p
  BY DEF HandlerType
<1>2. handler' = [handler EXCEPT ![r] = q] /\ handler[r].op = "idle"
  BY DEF Handles
<1> HIDE DEF q
<1>3. handler'[r] = q
  BY <1>2, ParcelTyped
<1>4. KnownTo(handler[r])'
  BY <1>1, <1>3 DEF KnownTo, Knows, Spares
<1>5. ~Handling(r, "collect", "week") /\ employed' \subseteq ParcelIds /\ crossed' \subseteq ParcelIds
  BY <1>2, ParcelTyped DEF Handling
<1> QED BY <1>1, <1>2, <1>4, <1>5, HandlerMoves

LEMMA ReadsKeepParcels ==
  ASSUME ParcelInv, NEW r \in Handlers,
         ReceiveReads(r) \/ CollectReads(r) \/ RemoveReads(r) \/ RetentionStarts(r)
  PROVE  ParcelInv'
<1>1. CASE ReceiveReads(r)
  <2>1. PICK p \in ParcelIds : Handles(r, "create", "insert", p)
    BY <1>1, ParcelTyped DEF ReceiveReads
  <2> QED BY <1>1, <2>1, HandlerComes DEF ReceiveReads
<1>2. CASE CollectReads(r)
  <2>1. PICK p \in ParcelIds : parcel[p].row # "absent" /\ Handles(r, "collect", "update", p)
    BY <1>2 DEF CollectReads
  <2> QED BY <1>2, <2>1, HandlerComes DEF CollectReads
<1>3. CASE RemoveReads(r)
  <2>1. PICK p \in ParcelIds : parcel[p].row # "absent" /\ Handles(r, "remove", "find", p)
    BY <1>3 DEF RemoveReads
  <2> QED BY <1>3, <2>1, HandlerComes DEF RemoveReads
<1>4. CASE RetentionStarts(r)
  BY <1>4, HandlerComes DEF RetentionStarts
<1> QED BY <1>1, <1>2, <1>3, <1>4

LEMMA DiesKeepsParcels ==
  ASSUME ParcelInv, NEW r \in Handlers, HandlerDies(r)
  PROVE  ParcelInv'
<1>1. Handling(r, "collect", "week") => handler[r].id \in ParcelIds
  BY ParcelTyped DEF Handling, KnownTo, Knows, Spares
<1> QED BY <1>1, ParcelTyped, HandlerFrees DEF HandlerDies

LEMMA FindsKeepParcels ==
  ASSUME ParcelInv, NEW r \in Handlers, RemoveFinds(r)
  PROVE  ParcelInv'
<1> DEFINE p == handler[r].id
           q == [handler[r] EXCEPT !.pc = PhotosOf(p)]
<1>1. /\ handler[r].op = "remove" /\ handler[r].pc = "find" /\ handler' = [handler EXCEPT ![r].pc = PhotosOf(p)]
      /\ crossed' = IF parcel[p].row = "collected" THEN crossed \cup {p} ELSE crossed
      /\ UNCHANGED <<day, parcel, photo, employed, lost, early>>
  BY DEF RemoveFinds, Handling, GoesOn
<1>2. handler[r] \in HandlerType /\ KnownTo(handler[r]) /\ handler \in [Handlers -> HandlerType]
  BY ParcelTyped
<1>3. p \in ParcelIds /\ parcel[p].row # "absent"
  BY <1>1, <1>2 DEF KnownTo, Knows, Spares
<1>4. PhotosOf(p) \in {"blob", "delete"} /\ (PhotosOf(p) = "delete" => photo[p].row # "kept")
  BY DEF PhotosOf
<1>5. q \in HandlerType /\ q.op = "remove" /\ q.pc = PhotosOf(p) /\ q.id = p
  BY <1>1, <1>2, <1>4 DEF HandlerType
<1>6. handler' = [handler EXCEPT ![r] = q]
  BY <1>1, <1>2
<1> HIDE DEF q, p
<1>7. handler'[r] = q
  BY <1>2, <1>6
<1>8. KnownTo(handler[r])'
  <2>1. handler'[r].op = "remove" /\ handler'[r].id = p /\ handler'[r].pc \in {"blob", "delete"}
    BY <1>4, <1>5, <1>7
  <2>2. p \in ParcelIds /\ parcel'[p].row # "absent" /\ (parcel'[p].row = "collected" => p \in crossed')
    BY <1>1, <1>3
  <2>3. handler'[r].pc = "delete" => photo'[p].row # "kept"
    BY <1>1, <1>4, <1>5, <1>7
  <2> QED BY <2>1, <2>2, <2>3 DEF KnownTo, Knows, Spares
<1>9. /\ crossed \subseteq crossed' /\ crossed' \subseteq ParcelIds /\ employed' \subseteq ParcelIds
      /\ ~Handling(r, "collect", "week")
  BY <1>1, <1>3, ParcelTyped DEF Handling
<1> QED BY <1>1, <1>5, <1>6, <1>8, <1>9, HandlerMoves

LEMMA RetentionKeepsParcels ==
  ASSUME ParcelInv, NEW r \in Handlers, RetentionFinds(r)
  PROVE  ParcelInv'
<1>1. /\ handler[r].op = "retention" /\ handler[r].pc = "find"
      /\ UNCHANGED <<day, parcel, photo, employed, lost, early>>
  BY DEF RetentionFinds, Handling
<1>2. handler[r] \in HandlerType /\ KnownTo(handler[r]) /\ handler \in [Handlers -> HandlerType]
  BY ParcelTyped
<1>3. ~Handling(r, "collect", "week") /\ employed' \subseteq ParcelIds
  BY <1>1, ParcelTyped DEF Handling
<1>4. ASSUME DuePhotos = {}, GoesOn(r, "delete"), UNCHANGED crossed PROVE ParcelInv'
  <2> DEFINE q == [handler[r] EXCEPT !.pc = "delete"]
  <2>1. q \in HandlerType /\ q.op = "retention" /\ q.pc = "delete"
    BY <1>1, <1>2 DEF HandlerType
  <2>2. handler' = [handler EXCEPT ![r] = q]
    BY <1>2, <1>4 DEF GoesOn
  <2> HIDE DEF q
  <2>3. handler'[r] = q
    BY <1>2, <2>2
  <2>4. ASSUME NEW p \in ParcelIds, photo[p].row = "kept", Expired(p) PROVE FALSE
    <3>1. photo[p].due \in Nat /\ parcel[p].on \in Int /\ day \in Nat
      BY ParcelTyped, DaysAre
    <3>2. photo[p].due >= day
      BY <1>4, <2>4, <3>1 DEF DuePhotos
    <3>3. parcel[p].row = "collected" /\ parcel[p].on < day - KeepDays /\ photo[p].due <= parcel[p].on + PhotoDays
      BY <2>4, ParcelTyped DEF Expired, Dated
    <3> QED BY <3>1, <3>2, <3>3, DaysAre
  <2>5. \A p \in ParcelIds : photo[p].row = "kept" => ~Expired(p)
    BY <2>4
  <2>6. \A p \in ParcelIds : Expired(p)' <=> Expired(p)
    BY <1>1 DEF Expired
  <2>7. KnownTo(handler[r])'
    BY <1>1, <2>1, <2>3, <2>5, <2>6 DEF KnownTo, Knows, Spares
  <2> QED BY <1>1, <1>3, <1>4, <2>1, <2>2, <2>7, ParcelTyped, HandlerMoves
<1>5. ASSUME NEW p \in DuePhotos, handler' = [handler EXCEPT ![r].pc = "blob", ![r].id = p],
             crossed' = IF BeingCollected(p) THEN crossed \cup {p} ELSE crossed
      PROVE  ParcelInv'
  <2> DEFINE q == [handler[r] EXCEPT !.pc = "blob", !.id = p]
  <2>1. p \in ParcelIds /\ photo[p].row = "kept" /\ photo[p].due < day
    BY DEF DuePhotos
  <2>2. q \in HandlerType /\ q.op = "retention" /\ q.pc = "blob" /\ q.id = p
    BY <1>1, <1>2, <2>1 DEF HandlerType
  <2>3. handler' = [handler EXCEPT ![r] = q]
    BY <1>2, <1>5
  <2> HIDE DEF q
  <2>4. handler'[r] = q
    BY <1>2, <2>3
  <2>5. Dated(p) /\ photo[p].due \in Int /\ parcel[p].on \in Int /\ day \in Nat
    BY <2>1, ParcelTyped, DaysAre
  <2>6. parcel[p].row \in {"waiting", "collected"}
    BY <2>1, <2>5 DEF Dated
  <2>7. parcel[p].row = "collected" => p \in crossed' \/ day > parcel[p].on + AfterCollect
    <3>1. parcel[p].row = "collected" => photo[p].due = Week(parcel[p].on) \/ p \in crossed \/ BeingCollected(p)
      BY <2>1, <2>5 DEF Dated
    <3>2. photo[p].due = Week(parcel[p].on) => day > parcel[p].on + AfterCollect
      BY <2>1, <2>5, DaysAre DEF Week
    <3> QED BY <1>5, <3>1, <3>2
  <2>8. KnownTo(handler[r])'
    BY <1>1, <2>1, <2>2, <2>4, <2>6, <2>7 DEF KnownTo, Knows, Spares
  <2>9. crossed \subseteq crossed' /\ crossed' \subseteq ParcelIds
    BY <1>5, <2>1, ParcelTyped
  <2> QED BY <1>1, <1>3, <2>2, <2>3, <2>8, <2>9, HandlerMoves
<1> QED BY <1>4, <1>5 DEF RetentionFinds

\* A request changes one parcel or its photo, and goes on or ends.
LEMMA OneChanges ==
  ASSUME ParcelInv, UNCHANGED <<day, employed>>,
         NEW r \in Handlers, NEW q \in HandlerType, handler' = [handler EXCEPT ![r] = q],
         NEW p \in ParcelIds,
         parcel' \in [ParcelIds -> ParcelType], \A s \in ParcelIds \ {p} : parcel'[s] = parcel[s],
         photo' \in [ParcelIds -> PhotoType], \A s \in ParcelIds \ {p} : photo'[s] = photo[s],
         crossed \subseteq crossed', crossed' \subseteq ParcelIds, lost' \subseteq crossed', early' = {},
         Handling(r, "collect", "week") => handler[r].id = p,
         Expired(p)' /\ photo'[p].row = "kept" => Expired(p) /\ photo[p].row = "kept",
         Dated(p)', KnownTo(handler[r])',
         \A x \in Handlers \ {r} : handler[x].id = p => Knows(handler[x])'
  PROVE  ParcelInv'
<1>1. /\ handler' \in [Handlers -> HandlerType]
      /\ \A x \in Handlers : handler'[x] = IF x = r THEN q ELSE handler[x]
  BY ParcelTyped
<1>2. ASSUME NEW x \in Handlers, x # r PROVE Spares(handler[x])'
  <2>1. handler'[x] = handler[x] /\ Spares(handler[x])
    BY <1>1, <1>2, ParcelTyped DEF KnownTo
  <2>2. \A s \in ParcelIds \ {p} : Expired(s)' <=> Expired(s)
    BY DEF Expired
  <2>3. ASSUME NEW s \in ParcelIds, photo'[s].row = "kept", photo[s].row = "kept" => ~Expired(s) PROVE ~Expired(s)'
    <3>1. CASE s = p
      BY <2>3, <3>1
    <3>2. CASE s # p
      BY <2>2, <2>3, <3>2
    <3> QED BY <3>1, <3>2
  <2> QED BY <2>1, <2>3 DEF Spares
<1>3. ASSUME NEW x \in Handlers PROVE KnownTo(handler[x])'
  <2>1. CASE x = r
    BY <2>1
  <2>2. CASE x # r
    <3>1. handler'[x] = handler[x] /\ Knows(handler[x])
      BY <1>1, <2>2, ParcelTyped DEF KnownTo
    <3>2. CASE handler[x].id = p
      BY <1>2, <2>2, <3>2 DEF KnownTo
    <3>3. CASE handler[x].id # p
      <4>1. handler[x].id \in ParcelIds => /\ parcel'[handler[x].id] = parcel[handler[x].id]
                                           /\ photo'[handler[x].id] = photo[handler[x].id]
        BY <3>3
      <4>2. /\ handler[x].op \in {"create", "collect", "remove"} => handler[x].id \in ParcelIds
            /\ handler[x].op = "retention" /\ handler[x].pc \in {"blob", "row"} => handler[x].id \in ParcelIds
        BY <3>1 DEF Knows
      <4>3. Knows(handler[x])'
        BY <3>1, <4>1, <4>2 DEF Knows
      <4> QED BY <1>2, <2>2, <4>3 DEF KnownTo
    <3> QED BY <3>2, <3>3
  <2> QED BY <2>1, <2>2
<1>4. ASSUME NEW s \in ParcelIds, s # p PROVE Dated(s)'
  <2>1. BeingCollected(s) => BeingCollected(s)'
    BY <1>1, <1>4 DEF BeingCollected, Handling
  <2>2. Dated(s) /\ parcel'[s] = parcel[s] /\ photo'[s] = photo[s]
    BY <1>4, ParcelTyped
  <2> QED BY <2>1, <2>2 DEF Dated, Week
<1>5. \A s \in ParcelIds : Dated(s)'
  BY <1>4
<1>6. day' \in 0..LastDay /\ employed' \subseteq ParcelIds
  BY ParcelTyped
<1> QED BY <1>1, <1>3, <1>5, <1>6, ParcelFollows

LEMMA CommitKeepsParcels ==
  ASSUME ParcelInv, NEW r \in Handlers, ReceiveCommits(r)
  PROVE  ParcelInv'
<1> DEFINE a == [row |-> "waiting", on |-> -1]
           b == [row |-> "kept", blob |-> TRUE, due |-> day + PhotoDays]
<1>1. /\ handler[r].op = "create" /\ handler[r].pc = "insert" /\ IsHandled(r)
      /\ UNCHANGED <<day, employed, crossed, lost, early>>
  BY DEF ReceiveCommits, Handling
<1>p. PICK p \in ParcelIds : p = handler[r].id
  BY <1>1, ParcelTyped DEF KnownTo, Knows, Spares
<1>2. ~Handling(r, "collect", "week") /\ crossed' \subseteq ParcelIds /\ handler \in [Handlers -> HandlerType]
  BY <1>1, ParcelTyped DEF Handling
<1>3. CASE UNCHANGED <<parcel, photo>>
  BY <1>1, <1>2, <1>3, HandlerFrees
<1>4. ASSUME parcel[p].row = "absent", parcel' = [parcel EXCEPT ![p] = a], photo' \in {photo, [photo EXCEPT ![p] = b]}
      PROVE  ParcelInv'
  <2>1. /\ parcel \in [ParcelIds -> ParcelType] /\ photo \in [ParcelIds -> PhotoType] /\ day \in 0..LastDay
        /\ LastDay \in Nat /\ PhotoDays \in Nat
    BY ParcelTyped, DaysAre
  <2>2. a \in ParcelType /\ a.row = "waiting"
    BY <2>1 DEF ParcelType
  <2>3. b \in PhotoType /\ b.row = "kept" /\ b.blob = TRUE /\ b.due = day + PhotoDays
    BY <2>1 DEF PhotoType
  <2> HIDE DEF a, b
  <2>4. /\ parcel' \in [ParcelIds -> ParcelType] /\ parcel'[p] = a
        /\ \A s \in ParcelIds \ {p} : parcel'[s] = parcel[s]
    BY <1>2, <1>4, <2>1, <2>2
  <2>5. /\ photo' \in [ParcelIds -> PhotoType] /\ photo'[p] \in {photo[p], b}
        /\ \A s \in ParcelIds \ {p} : photo'[s] = photo[s]
    BY <1>2, <1>4, <2>1, <2>3
  <2>6. photo[p].row # "kept" /\ ~photo[p].blob
    BY <1>2, <1>4, ParcelTyped DEF Dated
  <2>7. Dated(p)'
    <3>1. parcel'[p].row = "waiting" /\ day' = day /\ day + PhotoDays \in Int
      BY <1>1, <2>1, <2>2, <2>4
    <3>2. photo'[p].row = "kept" => photo'[p].due = day + PhotoDays
      BY <2>3, <2>5, <2>6
    <3>3. photo'[p].blob => photo'[p].row = "kept"
      BY <2>3, <2>5, <2>6
    <3> QED BY <2>1, <3>1, <3>2, <3>3 DEF Dated
  <2>8. handler' = [handler EXCEPT ![r] = Free] /\ \A x \in Handlers : handler'[x] = IF x = r THEN Free ELSE handler[x]
    BY <1>1, <1>2 DEF IsHandled
  <2>9. KnownTo(handler[r])'
    BY <2>8, FreeIs DEF KnownTo, Knows, Spares
  <2>10. ~Expired(p)'
    BY <2>2, <2>4 DEF Expired
  <2>11. ASSUME NEW x \in Handlers \ {r}, handler[x].id = p PROVE Knows(handler[x])'
    <3>1. handler'[x] = handler[x] /\ KnownTo(handler[x]) /\ handler[x].id = p
      BY <2>8, <2>11, ParcelTyped
    <3>2. /\ handler[x].op \notin {"collect", "remove"}
          /\ ~(handler[x].op = "retention" /\ handler[x].pc \in {"blob", "row"})
      BY <1>4, <3>1 DEF KnownTo, Knows, Spares
    <3> QED BY <3>1, <3>2 DEF KnownTo, Knows
  <2>12. lost' \subseteq crossed' /\ early' = {} /\ crossed \subseteq crossed'
    BY <1>1, ParcelTyped
  <2> QED BY <1>1, <1>2, <2>4, <2>5, <2>7, <2>8, <2>9, <2>10, <2>11, <2>12, FreeIs, OneChanges
<1>5. parcel[p].row = "absent" =>
        parcel' = [parcel EXCEPT ![p] = a] /\ photo' \in {photo, [photo EXCEPT ![p] = b]}
  BY <1>p DEF ReceiveCommits
<1>6. parcel[p].row # "absent" => UNCHANGED <<parcel, photo>>
  BY <1>p DEF ReceiveCommits
<1> QED BY <1>3, <1>4, <1>5, <1>6

LEMMA UpdateKeepsParcels ==
  ASSUME ParcelInv, NEW r \in Handlers, CollectUpdates(r)
  PROVE  ParcelInv'
<1> DEFINE a == [row |-> "collected", on |-> day]
           q == [handler[r] EXCEPT !.pc = "week"]
<1>1. /\ handler[r].op = "collect" /\ handler[r].pc = "update"
      /\ UNCHANGED <<day, photo, employed, lost, early>>
  BY DEF CollectUpdates, Handling
<1>p. PICK p \in ParcelIds : p = handler[r].id
  BY <1>1, ParcelTyped DEF KnownTo, Knows, Spares
<1>2. ~Handling(r, "collect", "week") /\ handler \in [Handlers -> HandlerType] /\ handler[r] \in HandlerType
  BY <1>1, ParcelTyped DEF Handling
<1>3. CASE parcel[p].row # "waiting"
  <2>1. IsHandled(r) /\ UNCHANGED <<parcel, crossed>>
    BY <1>3, <1>p DEF CollectUpdates
  <2> QED BY <1>1, <1>2, <2>1, ParcelTyped, HandlerFrees
<1>4. CASE parcel[p].row = "waiting"
  <2>1. /\ parcel' = [parcel EXCEPT ![p] = a] /\ crossed' = IF Purging(p) THEN crossed \cup {p} ELSE crossed
        /\ handler' = [handler EXCEPT ![r].pc = "week"]
    BY <1>4, <1>p DEF CollectUpdates, GoesOn
  <2>2. q \in HandlerType /\ q.op = "collect" /\ q.pc = "week" /\ q.id = p
    BY <1>1, <1>2, <1>p DEF HandlerType
  <2>3. handler' = [handler EXCEPT ![r] = q]
    BY <1>2, <2>1
  <2> HIDE DEF q
  <2>4. \A x \in Handlers : handler'[x] = IF x = r THEN q ELSE handler[x]
    BY <1>2, <2>3
  <2>5. parcel \in [ParcelIds -> ParcelType] /\ photo \in [ParcelIds -> PhotoType] /\ day \in 0..LastDay /\ LastDay \in Nat
    BY ParcelTyped, DaysAre
  <2>6. a \in ParcelType /\ a.row = "collected" /\ a.on = day
    BY <2>5 DEF ParcelType
  <2> HIDE DEF a
  <2>7. /\ parcel' \in [ParcelIds -> ParcelType] /\ parcel'[p] = a
        /\ \A s \in ParcelIds \ {p} : parcel'[s] = parcel[s]
    BY <2>1, <2>5, <2>6
  <2>8. /\ crossed \subseteq crossed' /\ crossed' \subseteq ParcelIds /\ lost' \subseteq crossed' /\ early' = {}
        /\ photo' \in [ParcelIds -> PhotoType] /\ \A s \in ParcelIds \ {p} : photo'[s] = photo[s]
    BY <1>1, <2>1, <2>5, ParcelTyped
  <2>9. ~Expired(p)'
    BY <1>1, <2>5, <2>6, <2>7, DaysAre DEF Expired
  <2>10. Dated(p)'
    <3>1. BeingCollected(p)'
      BY <2>2, <2>4 DEF BeingCollected, Handling
    <3>2. photo[p].row = "kept" => photo[p].due <= day + PhotoDays
      BY ParcelTyped DEF Dated
    <3>3. photo[p].blob => photo[p].row = "kept"
      BY ParcelTyped DEF Dated
    <3>4. parcel'[p].row = "collected" /\ parcel'[p].on = day /\ day' = day /\ photo'[p] = photo[p] /\ day \in 0..day
      BY <1>1, <2>5, <2>6, <2>7
    <3> QED BY <3>1, <3>2, <3>3, <3>4 DEF Dated
  <2>11. KnownTo(handler[r])'
    <3>1. parcel'[p].row = "collected" /\ parcel'[p].on \in 0..day'
      BY <1>1, <2>5, <2>6, <2>7
    <3>2. handler'[r].op = "collect" /\ handler'[r].pc = "week" /\ handler'[r].id = p
      BY <2>2, <2>4
    <3> QED BY <3>1, <3>2 DEF KnownTo, Knows, Spares
  <2>12. ASSUME NEW x \in Handlers \ {r}, handler[x].id = p PROVE Knows(handler[x])'
    <3>1. handler'[x] = handler[x] /\ KnownTo(handler[x]) /\ handler[x].id = p
      BY <2>4, <2>12, ParcelTyped
    <3>2. handler[x].op \in {"remove", "retention"} => p \in crossed'
      BY <2>1, <3>1 DEF Purging
    <3>3. parcel'[p].row = "collected" /\ parcel'[p].on \in 0..day' /\ photo' = photo
      BY <1>1, <2>5, <2>6, <2>7
    <3> QED BY <3>1, <3>2, <3>3 DEF KnownTo, Knows
  <2> QED BY <1>1, <1>2, <2>2, <2>3, <2>7, <2>8, <2>9, <2>10, <2>11, <2>12, OneChanges
<1> QED BY <1>3, <1>4

LEMMA DatesKeepParcels ==
  ASSUME ParcelInv, NEW r \in Handlers, CollectDates(r)
  PROVE  ParcelInv'
<1>1. /\ handler[r].op = "collect" /\ handler[r].pc = "week" /\ IsHandled(r)
      /\ UNCHANGED <<day, parcel, employed, lost, early>>
  BY DEF CollectDates, Handling
<1>p. PICK p \in ParcelIds : p = handler[r].id
  BY <1>1, ParcelTyped DEF KnownTo, Knows
<1> DEFINE b == [photo[p] EXCEPT !.due = Week(parcel[p].on)]
<1>2. /\ crossed' = IF Purging(p) THEN crossed \cup {p} ELSE crossed
      /\ photo' = IF photo[p].row = "kept" THEN [photo EXCEPT ![p].due = Week(parcel[p].on)] ELSE photo
  BY <1>p DEF CollectDates
<1>3. /\ parcel[p].on \in 0..day /\ photo[p] \in PhotoType /\ day \in 0..LastDay /\ Dated(p)
      /\ photo \in [ParcelIds -> PhotoType] /\ parcel \in [ParcelIds -> ParcelType]
      /\ handler \in [Handlers -> HandlerType]
  BY <1>1, <1>p, ParcelTyped DEF KnownTo, Knows
<1>4. Week(parcel[p].on) = parcel[p].on + AfterCollect /\ Week(parcel[p].on) \in 0..(LastDay + PhotoDays)
  BY <1>3, DaysAre DEF Week
<1>5. b \in PhotoType /\ b.row = photo[p].row /\ b.blob = photo[p].blob /\ b.due = Week(parcel[p].on)
  BY <1>3, <1>4 DEF PhotoType
<1>6. photo' = IF photo[p].row = "kept" THEN [photo EXCEPT ![p] = b] ELSE photo
  BY <1>2, <1>3
<1> HIDE DEF b
<1>7. /\ photo' \in [ParcelIds -> PhotoType] /\ photo'[p].row = photo[p].row /\ photo'[p].blob = photo[p].blob
      /\ photo'[p].row = "kept" => photo'[p].due = Week(parcel[p].on)
      /\ \A s \in ParcelIds \ {p} : photo'[s] = photo[s]
  BY <1>3, <1>5, <1>6
<1>8. handler' = [handler EXCEPT ![r] = Free] /\ \A x \in Handlers : handler'[x] = IF x = r THEN Free ELSE handler[x]
  BY <1>1, <1>3 DEF IsHandled
<1>9. /\ crossed \subseteq crossed' /\ crossed' \subseteq ParcelIds /\ lost' \subseteq crossed' /\ early' = {}
  BY <1>1, <1>2, ParcelTyped
<1>10. Dated(p)'
  <2>1. Week(parcel[p].on) <= day + PhotoDays /\ Week(parcel[p].on) <= parcel[p].on + PhotoDays
    BY <1>3, <1>4, DaysAre
  <2>2. Week(parcel[p].on)' = Week(parcel[p].on)
    BY <1>1 DEF Week
  <2> QED BY <1>1, <1>3, <1>7, <2>1, <2>2 DEF Dated
<1>11. KnownTo(handler[r])'
  BY <1>8, FreeIs DEF KnownTo, Knows, Spares
<1>12. Expired(p)' => Expired(p)
  BY <1>1 DEF Expired
<1>13. ASSUME NEW x \in Handlers \ {r}, handler[x].id = p PROVE Knows(handler[x])'
  <2>1. handler'[x] = handler[x] /\ Knows(handler[x]) /\ handler[x].id = p
    BY <1>8, <1>13, ParcelTyped DEF KnownTo
  <2> QED BY <1>1, <1>7, <1>9, <2>1 DEF Knows
<1>14. parcel' \in [ParcelIds -> ParcelType] /\ (\A s \in ParcelIds \ {p} : parcel'[s] = parcel[s])
  BY <1>1, <1>3
<1>15. Handling(r, "collect", "week") => handler[r].id = p
  BY <1>p
<1> QED BY <1>1, <1>7, <1>8, <1>9, <1>10, <1>11, <1>12, <1>13, <1>14, <1>15, FreeIs, OneChanges

LEMMA ImageKeepsParcels ==
  ASSUME ParcelInv, NEW r \in Handlers, PurgesImage(r)
  PROVE  ParcelInv'
<1>1. /\ handler[r].op \in {"remove", "retention"} /\ handler[r].pc = "blob"
      /\ photo' = [photo EXCEPT ![handler[r].id].blob = FALSE] /\ handler' = [handler EXCEPT ![r].pc = "row"]
      /\ UNCHANGED <<day, parcel, employed, crossed, lost, early>>
  BY DEF PurgesImage, GoesOn
<1>p. PICK p \in ParcelIds : p = handler[r].id
  BY <1>1, ParcelTyped DEF KnownTo, Knows
<1> DEFINE b == [photo[p] EXCEPT !.blob = FALSE]
           q == [handler[r] EXCEPT !.pc = "row"]
<1>2. /\ photo[p] \in PhotoType /\ Dated(p) /\ handler[r] \in HandlerType /\ Knows(handler[r])
      /\ photo \in [ParcelIds -> PhotoType] /\ parcel \in [ParcelIds -> ParcelType]
      /\ handler \in [Handlers -> HandlerType]
  BY ParcelTyped DEF KnownTo
<1>3. b \in PhotoType /\ b.row = photo[p].row /\ b.blob = FALSE /\ b.due = photo[p].due
  BY <1>2 DEF PhotoType
<1>4. q \in HandlerType /\ q.op = handler[r].op /\ q.pc = "row" /\ q.id = p
  BY <1>2, <1>p DEF HandlerType
<1>5. photo' = [photo EXCEPT ![p] = b] /\ handler' = [handler EXCEPT ![r] = q]
  BY <1>1, <1>2, <1>p
<1> HIDE DEF b, q
<1>6. /\ photo' \in [ParcelIds -> PhotoType] /\ photo'[p] = b
      /\ \A s \in ParcelIds \ {p} : photo'[s] = photo[s]
      /\ \A x \in Handlers : handler'[x] = IF x = r THEN q ELSE handler[x]
  BY <1>2, <1>3, <1>5
<1>7. Dated(p)'
  <2>1. BeingCollected(p) => BeingCollected(p)'
    BY <1>1, <1>6 DEF BeingCollected, Handling
  <2> QED BY <1>1, <1>2, <1>3, <1>6, <2>1 DEF Dated, Week
<1>8. KnownTo(handler[r])'
  <2>1. handler'[r].op = handler[r].op /\ handler'[r].pc = "row" /\ handler'[r].id = p /\ ~photo'[p].blob
    BY <1>3, <1>4, <1>6
  <2>2. parcel[p].row # "absent"
    BY <1>1, <1>2, <1>p DEF Knows
  <2>3. handler[r].op = "remove" => (parcel[p].row = "collected" => p \in crossed)
    BY <1>1, <1>2, <1>p DEF Knows
  <2>4. handler[r].op = "retention" =>
          (parcel[p].row = "collected" => p \in crossed \/ day > parcel[p].on + AfterCollect)
    BY <1>1, <1>2, <1>p DEF Knows
  <2> QED BY <1>1, <2>1, <2>2, <2>3, <2>4 DEF KnownTo, Knows, Spares
<1>9. (Expired(p)' => Expired(p)) /\ photo'[p].row = photo[p].row
  BY <1>1, <1>3, <1>6 DEF Expired
<1>10. ASSUME NEW x \in Handlers \ {r}, handler[x].id = p PROVE Knows(handler[x])'
  <2>1. handler'[x] = handler[x] /\ Knows(handler[x]) /\ handler[x].id = p
    BY <1>6, <1>10, ParcelTyped DEF KnownTo
  <2> QED BY <1>1, <1>3, <1>6, <2>1 DEF Knows
<1>11. /\ parcel' \in [ParcelIds -> ParcelType] /\ (\A s \in ParcelIds \ {p} : parcel'[s] = parcel[s])
       /\ crossed \subseteq crossed' /\ crossed' \subseteq ParcelIds /\ lost' \subseteq crossed' /\ early' = {}
  BY <1>1, <1>2, ParcelTyped
<1>12. ~Handling(r, "collect", "week")
  BY <1>1 DEF Handling
<1> QED BY <1>1, <1>4, <1>5, <1>6, <1>7, <1>8, <1>9, <1>10, <1>11, <1>12, OneChanges

LEMMA RowKeepsParcels ==
  ASSUME ParcelInv, NEW r \in Handlers, PurgesRow(r)
  PROVE  ParcelInv'
<1>1. /\ handler[r].op \in {"remove", "retention"} /\ handler[r].pc = "row"
      /\ handler' = [handler EXCEPT ![r].pc = IF handler[r].op = "remove" THEN "delete" ELSE "find",
                                    ![r].id = IF handler[r].op = "remove" THEN handler[r].id ELSE "none"]
      /\ UNCHANGED <<day, parcel, employed, crossed, early>>
  BY DEF PurgesRow
<1>p. PICK p \in ParcelIds : p = handler[r].id
  BY <1>1, ParcelTyped DEF KnownTo, Knows
<1>0. /\ photo' = [photo EXCEPT ![p].row = "purged"]
      /\ lost' = IF parcel[p].row = "collected" /\ day <= parcel[p].on + AfterCollect /\ photo[p].row = "kept"
                 THEN lost \cup {p} ELSE lost
  BY <1>p DEF PurgesRow
<1> DEFINE b == [photo[p] EXCEPT !.row = "purged"]
           q == [handler[r] EXCEPT !.pc = IF handler[r].op = "remove" THEN "delete" ELSE "find",
                                   !.id = IF handler[r].op = "remove" THEN handler[r].id ELSE "none"]
<1>2. /\ photo[p] \in PhotoType /\ Dated(p) /\ handler[r] \in HandlerType /\ Knows(handler[r])
      /\ photo \in [ParcelIds -> PhotoType] /\ parcel \in [ParcelIds -> ParcelType]
      /\ handler \in [Handlers -> HandlerType]
      /\ parcel[p].on \in Int /\ day \in Int
  BY ParcelTyped, DaysAre DEF KnownTo
<1>3. b \in PhotoType /\ b.row = "purged" /\ b.blob = photo[p].blob /\ b.due = photo[p].due
  BY <1>2 DEF PhotoType
<1>4. /\ q \in HandlerType /\ q.op = handler[r].op
      /\ handler[r].op = "remove" => q.pc = "delete" /\ q.id = p
      /\ handler[r].op = "retention" => q.pc = "find"
  BY <1>1, <1>2, <1>p DEF HandlerType
<1>5. photo' = [photo EXCEPT ![p] = b] /\ handler' = [handler EXCEPT ![r] = q]
  BY <1>0, <1>1, <1>2
<1> HIDE DEF b, q
<1>6. /\ photo' \in [ParcelIds -> PhotoType] /\ photo'[p] = b
      /\ \A s \in ParcelIds \ {p} : photo'[s] = photo[s]
      /\ \A x \in Handlers : handler'[x] = IF x = r THEN q ELSE handler[x]
  BY <1>2, <1>3, <1>5
<1>7. /\ ~photo[p].blob
      /\ handler[r].op = "remove" => parcel[p].row # "absent" /\ (parcel[p].row = "collected" => p \in crossed)
      /\ handler[r].op = "retention" =>
           (parcel[p].row = "collected" => p \in crossed \/ day > parcel[p].on + AfterCollect)
  BY <1>1, <1>2, <1>p DEF Knows
<1>8. lost' \subseteq crossed'
  <2>1. lost \subseteq crossed /\ AfterCollect \in Nat
    BY ParcelTyped, DaysAre
  <2>2. parcel[p].row = "collected" /\ day <= parcel[p].on + AfterCollect => p \in crossed
    BY <1>1, <1>2, <1>7, <2>1
  <2> QED BY <1>0, <1>1, <2>1, <2>2
<1>9. Dated(p)'
  BY <1>1, <1>2, <1>3, <1>6, <1>7 DEF Dated
<1>10. KnownTo(handler[r])'
  <2>1. CASE handler[r].op = "remove"
    <3>1. handler'[r].op = "remove" /\ handler'[r].pc = "delete" /\ handler'[r].id = p
      BY <1>4, <1>6, <2>1
    <3>2. photo'[p].row # "kept" /\ parcel' = parcel /\ crossed' = crossed
      BY <1>1, <1>3, <1>6
    <3> QED BY <1>7, <2>1, <3>1, <3>2 DEF KnownTo, Knows, Spares
  <2>2. CASE handler[r].op = "retention"
    BY <1>4, <1>6, <2>2 DEF KnownTo, Knows, Spares
  <2> QED BY <1>1, <2>1, <2>2
<1>11. photo'[p].row # "kept"
  BY <1>3, <1>6
<1>12. ASSUME NEW x \in Handlers \ {r}, handler[x].id = p PROVE Knows(handler[x])'
  <2>1. handler'[x] = handler[x] /\ Knows(handler[x]) /\ handler[x].id = p
    BY <1>6, <1>12, ParcelTyped DEF KnownTo
  <2> QED BY <1>1, <1>3, <1>6, <2>1 DEF Knows
<1>13. /\ parcel' \in [ParcelIds -> ParcelType] /\ (\A s \in ParcelIds \ {p} : parcel'[s] = parcel[s])
       /\ crossed \subseteq crossed' /\ crossed' \subseteq ParcelIds /\ early' = {}
  BY <1>1, <1>2, ParcelTyped
<1>14. ~Handling(r, "collect", "week")
  BY <1>1 DEF Handling
<1> QED BY <1>1, <1>4, <1>5, <1>6, <1>8, <1>9, <1>10, <1>11, <1>12, <1>13, <1>14, OneChanges

LEMMA DeleteKeepsParcels ==
  ASSUME ParcelInv, NEW r \in Handlers, RemoveDeletes(r)
  PROVE  ParcelInv'
<1>1. /\ handler[r].op = "remove" /\ handler[r].pc = "delete" /\ IsHandled(r)
      /\ UNCHANGED <<day, photo, employed, crossed, lost>>
  BY DEF RemoveDeletes, Handling
<1>p. PICK p \in ParcelIds : p = handler[r].id
  BY <1>1, ParcelTyped DEF KnownTo, Knows
<1> DEFINE a == [parcel[p] EXCEPT !.row = "gone"]
<1>2. /\ parcel[p] \in ParcelType /\ Dated(p) /\ Knows(handler[r])
      /\ photo \in [ParcelIds -> PhotoType] /\ parcel \in [ParcelIds -> ParcelType]
      /\ handler \in [Handlers -> HandlerType] /\ early = {}
  BY ParcelTyped DEF KnownTo
<1>3. /\ parcel' = IF parcel[p].row = "waiting" THEN [parcel EXCEPT ![p].row = "gone"] ELSE parcel
      /\ early' = IF parcel'[p].row = "gone" /\ parcel[p].row = "collected" THEN early \cup {p} ELSE early
  BY <1>p DEF RemoveDeletes, MayGo
<1>4. a \in ParcelType /\ a.row = "gone" /\ a.on = parcel[p].on
  BY <1>2 DEF ParcelType
<1>5. parcel' = IF parcel[p].row = "waiting" THEN [parcel EXCEPT ![p] = a] ELSE parcel
  BY <1>2, <1>3
<1> HIDE DEF a
<1>6. /\ parcel' \in [ParcelIds -> ParcelType]
      /\ parcel'[p] = IF parcel[p].row = "waiting" THEN a ELSE parcel[p]
      /\ \A s \in ParcelIds \ {p} : parcel'[s] = parcel[s]
  BY <1>2, <1>4, <1>5
<1>7. photo[p].row # "kept"
  BY <1>1, <1>2, <1>p DEF Knows
<1>8. early' = {}
  BY <1>2, <1>3, <1>6
<1>9. Dated(p)'
  BY <1>1, <1>2, <1>4, <1>6, <1>7 DEF Dated
<1>10. handler' = [handler EXCEPT ![r] = Free] /\ \A x \in Handlers : handler'[x] = IF x = r THEN Free ELSE handler[x]
  BY <1>1, <1>2 DEF IsHandled
<1>11. KnownTo(handler[r])'
  BY <1>10, FreeIs DEF KnownTo, Knows, Spares
<1>12. ASSUME NEW x \in Handlers \ {r}, handler[x].id = p PROVE Knows(handler[x])'
  <2>1. handler'[x] = handler[x] /\ Knows(handler[x]) /\ handler[x].id = p
    BY <1>10, <1>12, ParcelTyped DEF KnownTo
  <2>2. /\ parcel[p].row # "absent" => parcel'[p].row # "absent"
        /\ parcel'[p].row = "collected" => parcel[p].row = "collected"
        /\ parcel'[p].on = parcel[p].on
    BY <1>4, <1>6
  <2> QED BY <1>1, <2>1, <2>2 DEF Knows
<1>13. /\ photo' \in [ParcelIds -> PhotoType] /\ (\A s \in ParcelIds \ {p} : photo'[s] = photo[s])
       /\ crossed \subseteq crossed' /\ crossed' \subseteq ParcelIds /\ lost' \subseteq crossed'
       /\ photo'[p].row # "kept"
  BY <1>1, <1>2, <1>7, ParcelTyped
<1>14. ~Handling(r, "collect", "week")
  BY <1>1 DEF Handling
<1> QED BY <1>1, <1>6, <1>8, <1>9, <1>10, <1>11, <1>12, <1>13, <1>14, FreeIs, OneChanges

\* The run forgets the records that are due: none of them has a photo.
LEMMA ForgetsKeepsParcels ==
  ASSUME ParcelInv, NEW r \in Handlers, RetentionForgets(r)
  PROVE  ParcelInv'
<1>1. /\ handler[r].op = "retention" /\ handler[r].pc = "delete" /\ handler' = [handler EXCEPT ![r] = Free]
      /\ parcel' = [p \in ParcelIds |-> IF Expired(p) THEN [parcel[p] EXCEPT !.row = "gone"] ELSE parcel[p]]
      /\ early' = early \cup {p \in ParcelIds : parcel'[p] # parcel[p] /\ day <= parcel[p].on + KeepDays}
      /\ UNCHANGED <<day, photo, employed, crossed, lost>>
  BY DEF RetentionForgets, Handling, IsHandled
<1>2. /\ parcel \in [ParcelIds -> ParcelType] /\ photo \in [ParcelIds -> PhotoType]
      /\ handler \in [Handlers -> HandlerType] /\ KnownTo(handler[r]) /\ early = {}
      /\ day \in Int /\ KeepDays \in Int /\ \A p \in ParcelIds : parcel[p].on \in Int
  BY ParcelTyped, DaysAre
<1>3. \A p \in ParcelIds : photo[p].row = "kept" => ~Expired(p)
  BY <1>1, <1>2 DEF KnownTo, Spares
<1>4. ASSUME NEW p \in ParcelIds
      PROVE  /\ parcel'[p] \in ParcelType /\ parcel'[p].on = parcel[p].on
             /\ parcel'[p].row = IF Expired(p) THEN "gone" ELSE parcel[p].row
             /\ ~Expired(p) => parcel'[p] = parcel[p]
  <2>1. parcel[p] \in ParcelType
    BY <1>2
  <2>2. parcel'[p] = IF Expired(p) THEN [parcel[p] EXCEPT !.row = "gone"] ELSE parcel[p]
    BY <1>1
  <2> DEFINE a == [parcel[p] EXCEPT !.row = "gone"]
  <2>3. a \in ParcelType /\ a.row = "gone" /\ a.on = parcel[p].on
    BY <2>1 DEF ParcelType
  <2> QED BY <2>1, <2>2, <2>3
<1>5. parcel' \in [ParcelIds -> ParcelType]
  BY <1>1, <1>4
<1>6. early' = {}
  <2> SUFFICES ASSUME NEW p \in ParcelIds, parcel'[p] # parcel[p], day <= parcel[p].on + KeepDays PROVE FALSE
    BY <1>1, <1>2
  <2>1. parcel[p].on < day - KeepDays
    BY <1>4 DEF Expired
  <2> QED BY <1>2, <2>1
<1>7. /\ handler' \in [Handlers -> HandlerType]
      /\ \A x \in Handlers : handler'[x] = IF x = r THEN Free ELSE handler[x]
  BY <1>1, <1>2, FreeIs
<1>8. ASSUME NEW p \in ParcelIds PROVE Dated(p)'
  <2>1. BeingCollected(p) => BeingCollected(p)'
    BY <1>1, <1>7 DEF BeingCollected, Handling
  <2>2. Dated(p)
    BY ParcelTyped
  <2> QED BY <1>1, <1>3, <1>4, <2>1, <2>2 DEF Dated, Week
<1>9. ASSUME NEW p \in ParcelIds PROVE ~Expired(p)'
  <2>1. Expired(p) \/ ~Expired(p)
    OBVIOUS
  <2> QED BY <1>1, <1>4, <2>1 DEF Expired
<1>10. ASSUME NEW x \in Handlers PROVE KnownTo(handler[x])'
  <2>1. CASE x = r
    BY <1>7, <2>1, FreeIs DEF KnownTo, Knows, Spares
  <2>2. CASE x # r
    <3>1. handler'[x] = handler[x] /\ Knows(handler[x])
      BY <1>7, <2>2, ParcelTyped DEF KnownTo
    <3>2. Spares(handler[x])'
      BY <1>9 DEF Spares
    <3>3. Knows(handler[x])'
      <4>1. \A p \in ParcelIds : /\ parcel[p].row # "absent" => parcel'[p].row # "absent"
                                 /\ parcel'[p].row = "collected" => parcel[p].row = "collected"
                                 /\ parcel'[p].on = parcel[p].on
        BY <1>4
      <4>2. /\ handler[x].op \in {"create", "collect", "remove"} => handler[x].id \in ParcelIds
            /\ handler[x].op = "retention" /\ handler[x].pc \in {"blob", "row"} => handler[x].id \in ParcelIds
        BY <3>1 DEF Knows
      <4> QED BY <1>1, <3>1, <4>1, <4>2 DEF Knows
    <3> QED BY <3>2, <3>3 DEF KnownTo
  <2> QED BY <2>1, <2>2
<1>11. /\ day' \in 0..LastDay /\ photo' \in [ParcelIds -> PhotoType] /\ employed' \subseteq ParcelIds
       /\ crossed' \subseteq ParcelIds /\ lost' \subseteq crossed'
  BY <1>1, <1>2, ParcelTyped
<1> QED BY <1>5, <1>6, <1>7, <1>8, <1>10, <1>11, ParcelFollows

LEMMA DayKeepsParcels ==
  ASSUME ParcelInv, DayPasses
  PROVE  ParcelInv'
<1>1. /\ day' = day + 1 /\ day < LastDay /\ \A r \in Handlers : handler[r].op = "idle"
      /\ UNCHANGED <<parcel, photo, employed, handler, crossed, lost, early>>
  BY DEF DayPasses
<1>2. day \in 0..LastDay /\ LastDay \in Nat /\ PhotoDays \in Nat
  BY ParcelTyped, DaysAre
<1>3. day' \in 0..LastDay
  BY <1>1, <1>2
<1>4. ASSUME NEW p \in ParcelIds PROVE Dated(p)'
  <2>1. Dated(p) /\ photo[p].due \in Int /\ ~BeingCollected(p) /\ parcel[p].on \in Int
    BY <1>1, ParcelTyped, DaysAre DEF BeingCollected, Handling
  <2>2. parcel[p].on \in 0..day => parcel[p].on \in 0..day'
    BY <1>1, <1>2, <2>1
  <2>3. photo[p].due <= day + PhotoDays => photo[p].due <= day' + PhotoDays
    BY <1>1, <1>2, <2>1
  <2> QED BY <1>1, <2>1, <2>2, <2>3 DEF Dated, Week
<1>5. ASSUME NEW r \in Handlers PROVE KnownTo(handler[r])'
  BY <1>1 DEF KnownTo, Knows, Spares
<1> QED BY <1>1, <1>3, <1>4, <1>5, ParcelTyped, ParcelFollows

LEMMA EmployedKeepsParcels ==
  ASSUME ParcelInv, UNCHANGED <<day, parcel, photo, handler, crossed, lost, early>>, employed' \subseteq ParcelIds
  PROVE  ParcelInv'
<1>1. ASSUME NEW p \in ParcelIds PROVE Dated(p)'
  <2>1. BeingCollected(p)' <=> BeingCollected(p)
    BY DEF BeingCollected, Handling
  <2> QED BY <2>1, ParcelTyped DEF Dated, Week
<1>2. ASSUME NEW r \in Handlers PROVE KnownTo(handler[r])'
  <2>1. \A p \in ParcelIds : Expired(p)' <=> Expired(p)
    BY DEF Expired
  <2> QED BY <2>1, ParcelTyped DEF KnownTo, Knows, Spares
<1> QED BY <1>1, <1>2, ParcelTyped, ParcelFollows

LEMMA ParcelStep == ASSUME ParcelInv, [ParcelNext]_parcelVars PROVE ParcelInv'
<1>1. CASE DayPasses
  BY <1>1, DayKeepsParcels
<1>2. ASSUME NEW p \in ParcelIds, EmployeeChanges(p) PROVE ParcelInv'
  <2>1. employed' \subseteq ParcelIds
    BY <1>2, ParcelTyped DEF EmployeeChanges
  <2> QED BY <1>2, <2>1, EmployedKeepsParcels DEF EmployeeChanges
<1>3. ASSUME NEW r \in Handlers,
             \/ ReceiveReads(r) \/ ReceiveCommits(r) \/ CollectReads(r) \/ CollectUpdates(r) \/ CollectDates(r)
             \/ RemoveReads(r) \/ RemoveFinds(r) \/ RemoveDeletes(r) \/ PurgesImage(r) \/ PurgesRow(r)
             \/ RetentionStarts(r) \/ RetentionFinds(r) \/ RetentionForgets(r) \/ HandlerDies(r)
      PROVE  ParcelInv'
  BY <1>3, ReadsKeepParcels, CommitKeepsParcels, UpdateKeepsParcels, DatesKeepParcels, FindsKeepParcels,
     DeleteKeepsParcels, ImageKeepsParcels, RowKeepsParcels, RetentionKeepsParcels, ForgetsKeepsParcels,
     DiesKeepsParcels
<1>4. CASE UNCHANGED parcelVars
  BY <1>4, ParcelTyped, EmployedKeepsParcels DEF parcelVars
<1> QED BY <1>1, <1>2, <1>3, <1>4 DEF ParcelNext

-----------------------------------------------------------------------------
(* Roll calls: proofs *)

MarshalType == [op : {"idle", "start", "check", "end"}, pc : {"idle", "insert", "write", "visits", "doors", "checks", "update"},
                of : Alarms \cup {0}, who : People \cup {"none"}, listed : SUBSET People,
                people : 0..Cardinality(People), safe : 0..Cardinality(People)]
AlarmType == [row : {"none", "running", "ended"}, people : 0..Cardinality(People), safe : 0..Cardinality(People)]

CountKept(a) == alarm[a].safe = Cardinality(Safe(a)) /\ alarm[a].safe <= alarm[a].people

\* What is known of one evacuation, and of one request.
TicksOf(a) == ~Ended(a) => \A s \in Staffers \ Guests : <<a, s>> \in ticks => s \in entered
CarriedBy(q) ==
  /\ q.op \in {"check", "end"} => q.of \in Alarms
  /\ q.op = "check" => q.who \in People /\ (q.of \notin blurred => q.who \in Guests \cup entered)
  /\ q.op = "end" /\ q.pc = "update" /\ q.of \notin blurred =>
       q.safe = Cardinality(Safe(q.of)) /\ q.safe <= q.people
NothingYet(a) ==
  alarm[a].row = "none" => (\A p \in People : <<a, p>> \notin ticks) /\ (\A m \in Marshals : marshal[m].of # a)

LEMMA PeopleFinite ==
  /\ IsFiniteSet(People) /\ Cardinality(People) \in Nat
  /\ \A S \in SUBSET People : \A T \in SUBSET S :
       Cardinality(S) \in Nat /\ Cardinality(T) \in Nat /\ Cardinality(T) <= Cardinality(S)
  /\ Cardinality({}) = 0 /\ \A a : Cardinality({a}) = 1
<1>1. IsFiniteSet(Guests) /\ IsFiniteSet(Staffers)
  BY RollCallAssumption
<1>2. IsFiniteSet(People)
  BY <1>1, FS_Union DEF People
<1>3. \A S \in SUBSET People : IsFiniteSet(S)
  BY <1>2, FS_Subset
<1>4. \A S \in SUBSET People : \A T \in SUBSET S : Cardinality(T) <= Cardinality(S)
  BY <1>3, FS_Subset
<1>5. \A S \in SUBSET People : Cardinality(S) \in Nat
  BY <1>3, FS_CardinalityType
<1>6. Cardinality({}) = 0 /\ \A a : Cardinality({a}) = 1
  BY FS_EmptySet, FS_Singleton
<1> QED BY <1>2, <1>4, <1>5, <1>6, FS_CardinalityType

LEMMA RollTyped ==
  RollInv =>
    /\ visit \in [Guests -> {"none", "open", "closed"}] /\ entered \subseteq Staffers
    /\ alarm \in [Alarms -> AlarmType] /\ marshal \in [Marshals -> MarshalType]
    /\ ticks \subseteq Alarms \X People /\ blurred \subseteq Alarms
    /\ \A a \in Alarms : alarm[a] \in AlarmType /\ NothingYet(a) /\ (a \in blurred \/ TicksOf(a))
    /\ \A m \in Marshals : marshal[m] \in MarshalType /\ CarriedBy(marshal[m])
    /\ OneRuns
    /\ \A a \in Alarms \ blurred : alarm[a].row = "ended" => CountKept(a)
<1> SUFFICES ASSUME RollInv
             PROVE  /\ visit \in [Guests -> {"none", "open", "closed"}] /\ entered \subseteq Staffers
                    /\ alarm \in [Alarms -> AlarmType] /\ marshal \in [Marshals -> MarshalType]
                    /\ ticks \subseteq Alarms \X People /\ blurred \subseteq Alarms
                    /\ \A a \in Alarms : alarm[a] \in AlarmType /\ NothingYet(a) /\ (a \in blurred \/ TicksOf(a))
                    /\ \A m \in Marshals : marshal[m] \in MarshalType /\ CarriedBy(marshal[m])
                    /\ OneRuns
                    /\ \A a \in Alarms \ blurred : alarm[a].row = "ended" => CountKept(a)
  OBVIOUS
<1>1. /\ visit \in [Guests -> {"none", "open", "closed"}] /\ entered \subseteq Staffers
      /\ alarm \in [Alarms -> AlarmType] /\ marshal \in [Marshals -> MarshalType]
      /\ ticks \subseteq Alarms \X People /\ blurred \subseteq Alarms
  BY DEF RollInv, RollTypeOK, AlarmType, MarshalType
<1>2. \A a \in Alarms : NothingYet(a) /\ (a \in blurred \/ TicksOf(a))
  BY DEF RollInv, MarshalsCarried, NothingYet, TicksListed, TicksOf
<1>3. ASSUME NEW m \in Marshals PROVE CarriedBy(marshal[m])
  BY DEF RollInv, MarshalsCarried, CarriedBy, TicksListed, Doing
<1>4. \A a \in Alarms \ blurred : alarm[a].row = "ended" => CountKept(a)
  BY DEF RollInv, RollCallKept, CountKept, Safe
<1> QED BY <1>1, <1>2, <1>3, <1>4 DEF RollInv

LEMMA RollFollows ==
  ASSUME visit' \in [Guests -> {"none", "open", "closed"}], entered' \subseteq Staffers,
         alarm' \in [Alarms -> AlarmType], marshal' \in [Marshals -> MarshalType],
         ticks' \subseteq Alarms \X People, blurred' \subseteq Alarms,
         \A a \in Alarms : NothingYet(a)',
         \A a \in Alarms \ blurred' : TicksOf(a)',
         \A m \in Marshals : CarriedBy(marshal[m])',
         OneRuns',
         \A a \in Alarms \ blurred' : alarm'[a].row = "ended" => CountKept(a)'
  PROVE  RollInv'
<1>1. RollTypeOK'
  BY DEF RollTypeOK, AlarmType, MarshalType
<1>2. MarshalsCarried'
  BY DEF MarshalsCarried, CarriedBy, NothingYet
<1>3. TicksListed'
  <2>1. ASSUME NEW a \in Alarms \ blurred', NEW m \in Marshals, marshal'[m].op = "check", marshal'[m].of = a
        PROVE  marshal'[m].who \in Guests \cup entered'
    BY <2>1 DEF CarriedBy
  <2>2. ASSUME NEW a \in Alarms \ blurred', NEW m \in Marshals, Doing(m, "end", "update")', marshal'[m].of = a
        PROVE  marshal'[m].safe = Cardinality(Safe(a)') /\ marshal'[m].safe <= marshal'[m].people
    BY <2>2 DEF CarriedBy, Doing, Safe
  <2> QED BY <2>1, <2>2 DEF TicksListed, TicksOf
<1>4. RollCallKept'
  <2> DEFINE S == Running' \ blurred'
  <2>1. \A a, b \in S : a = b
    BY DEF OneRuns
  <2> HIDE DEF S
  <2>2. Cardinality(S) <= 1
    <3>1. CASE S = {}
      BY <3>1, PeopleFinite
    <3>2. ASSUME NEW a \in S PROVE Cardinality(S) <= 1
      <4>1. S = {a} /\ Cardinality({a}) = 1
        BY <2>1, PeopleFinite
      <4> QED BY <4>1
    <3> QED BY <3>1, <3>2
  <2> QED BY <2>2 DEF RollCallKept, CountKept, Safe, S
<1> QED BY <1>1, <1>2, <1>3, <1>4 DEF RollInv

LEMMA RestingIs ==
  /\ Resting \in MarshalType /\ Resting.op = "idle" /\ Resting.of = 0 /\ 0 \notin Alarms
  BY PeopleFinite, RollCallAssumption DEF Resting, MarshalType

LEMMA RollInits == RollInit => RollInv
<1> SUFFICES ASSUME RollInit PROVE RollInv
  OBVIOUS
<1>1. /\ \A a \in Alarms : alarm[a] = [row |-> "none", people |-> 0, safe |-> 0]
      /\ \A m \in Marshals : marshal[m] = Resting
      /\ ticks = {} /\ blurred = {} /\ entered = {}
  BY DEF RollInit
<1>2. RollTypeOK
  <2>1. alarm \in [Alarms -> [row : {"none", "running", "ended"}, people : 0..Cardinality(People), safe : 0..Cardinality(People)]]
    BY PeopleFinite DEF RollInit
  <2>2. marshal \in [Marshals -> MarshalType]
    BY RestingIs DEF RollInit
  <2> QED BY <2>1, <2>2 DEF RollInit, RollTypeOK, MarshalType
<1>3. MarshalsCarried
  BY <1>1, RestingIs DEF MarshalsCarried
<1>4. Running = {}
  BY <1>1 DEF Running
<1>5. OneRuns
  BY <1>4 DEF OneRuns
<1>6. TicksListed
  BY <1>1, RestingIs DEF TicksListed, Doing
<1>7. Running \ blurred = {} /\ Cardinality(Running \ blurred) = 0
  BY <1>4, PeopleFinite
<1>8. RollCallKept
  BY <1>1, <1>7 DEF RollCallKept
<1> QED BY <1>2, <1>3, <1>5, <1>6, <1>8 DEF RollInv

\* A request comes, goes on or ends; more may be blurred, and more people in.
LEMMA MarshalMoves ==
  ASSUME RollInv, UNCHANGED <<visit, entered, alarm, ticks>>, NEW m \in Marshals, NEW q \in MarshalType,
         marshal' = [marshal EXCEPT ![m] = q],
         blurred \subseteq blurred', blurred' \subseteq Alarms,
         q.op \in {"check", "end"} => q.of \in Alarms,
         q.of \in Alarms => alarm[q.of].row = "running" \/ marshal[m].of = q.of,
         q.op = "check" => q.who \in People /\ (q.of \notin blurred' => q.who \in Guests \cup entered),
         q.op = "end" /\ q.pc = "update" /\ q.of \notin blurred' =>
           q.safe = Cardinality(Safe(q.of)) /\ q.safe <= q.people
  PROVE  RollInv'
<1>1. /\ marshal' \in [Marshals -> MarshalType]
      /\ \A x \in Marshals : marshal'[x] = IF x = m THEN q ELSE marshal[x]
  BY RollTyped
<1>2. \A a \in Alarms : NothingYet(a)'
  <2> SUFFICES ASSUME NEW a \in Alarms, alarm[a].row = "none", NEW x \in Marshals, marshal'[x].of = a PROVE FALSE
    BY RollTyped DEF NothingYet
  <2>1. \A y \in Marshals : marshal[y].of # a
    BY RollTyped DEF NothingYet
  <2> QED BY <1>1, <2>1
<1>3. \A a \in Alarms : Safe(a)' = Safe(a)
  BY DEF Safe
<1>4. \A a \in Alarms \ blurred' : TicksOf(a)'
  <2> SUFFICES ASSUME NEW a \in Alarms \ blurred' PROVE TicksOf(a)'
    OBVIOUS
  <2>1. TicksOf(a)
    BY RollTyped
  <2>2. ~Ended(a)' => ~Ended(a)
    <3>1. ASSUME NEW x \in Marshals, marshal'[x].of = a PROVE ~Ended(a)
      BY <1>1, <3>1 DEF Ended
    <3> QED BY <3>1 DEF Ended
  <2> QED BY <2>1, <2>2 DEF TicksOf
<1>5. ASSUME NEW x \in Marshals PROVE CarriedBy(marshal[x])'
  <2>1. CASE x = m
    BY <1>1, <1>3, <2>1 DEF CarriedBy
  <2>2. CASE x # m
    <3>1. marshal'[x] = marshal[x] /\ CarriedBy(marshal[x])
      BY <1>1, <2>2, RollTyped
    <3> QED BY <1>3, <3>1 DEF CarriedBy
  <2> QED BY <2>1, <2>2
<1>6. OneRuns'
  BY RollTyped DEF OneRuns, Running
<1>7. \A a \in Alarms \ blurred' : alarm'[a].row = "ended" => CountKept(a)'
  BY <1>3, RollTyped DEF CountKept
<1> QED BY <1>1, <1>2, <1>4, <1>5, <1>6, <1>7, RollTyped, RollFollows

\* People come and go, and the list of those inside does not get shorter.
LEMMA PeopleMove ==
  ASSUME RollInv, UNCHANGED <<alarm, ticks, marshal, blurred>>,
         visit' \in [Guests -> {"none", "open", "closed"}], entered \subseteq entered', entered' \subseteq Staffers
  PROVE  RollInv'
<1>1. \A a \in Alarms : NothingYet(a)' /\ (Ended(a)' <=> Ended(a)) /\ Safe(a)' = Safe(a)
  BY RollTyped DEF NothingYet, Ended, Safe
<1>2. \A a \in Alarms \ blurred' : TicksOf(a)'
  BY <1>1, RollTyped DEF TicksOf
<1>3. \A m \in Marshals : CarriedBy(marshal[m])'
  BY <1>1, RollTyped DEF CarriedBy
<1>4. OneRuns'
  BY RollTyped DEF OneRuns, Running
<1>5. \A a \in Alarms \ blurred' : alarm'[a].row = "ended" => CountKept(a)'
  BY <1>1, RollTyped DEF CountKept
<1> QED BY <1>1, <1>2, <1>3, <1>4, <1>5, RollTyped, RollFollows

LEMMA CountKeepsRoll ==
  ASSUME RollInv, NEW m \in Marshals, EndCounts(m)
  PROVE  RollInv'
<1> DEFINE a == marshal[m].of
           listed == marshal[m].listed \cup Ticked(a)
           safe == {p \in listed : <<a, p>> \in ticks}
           q == [marshal[m] EXCEPT !.pc = "update", !.listed = {}, !.people = Cardinality(listed), !.safe = Cardinality(safe)]
<1>1. /\ marshal[m].op = "end" /\ UNCHANGED <<visit, entered, alarm, ticks>>
      /\ marshal' = [marshal EXCEPT ![m].pc = "update", ![m].listed = {}, ![m].people = Cardinality(listed),
                                    ![m].safe = Cardinality(safe)]
      /\ blurred' = IF \E s \in entered \ listed : <<a, s>> \in ticks THEN blurred \cup {a} ELSE blurred
  BY DEF EndCounts, Doing
<1>2. /\ marshal[m] \in MarshalType /\ CarriedBy(marshal[m]) /\ marshal \in [Marshals -> MarshalType]
      /\ entered \subseteq Staffers /\ blurred \subseteq Alarms
  BY RollTyped
<1>3. a \in Alarms
  BY <1>1, <1>2 DEF CarriedBy
<1>4. listed \in SUBSET People /\ safe \in SUBSET listed /\ {} \in SUBSET People
  BY <1>2 DEF Ticked, People, MarshalType
<1>6. a \notin blurred' => safe = Safe(a)
  <2> SUFFICES ASSUME a \notin blurred' PROVE safe = Safe(a)
    OBVIOUS
  <2>1. a \notin blurred /\ \A s \in entered : <<a, s>> \in ticks => s \in listed
    BY <1>1
  <2>2. ~Ended(a)
    BY DEF Ended
  <2>3. \A s \in Staffers \ Guests : <<a, s>> \in ticks => s \in entered
    BY <1>3, <2>1, <2>2, RollTyped DEF TicksOf
  <2>4. \A g \in Guests : <<a, g>> \in ticks => g \in listed
    BY DEF Ticked
  <2>5. \A p \in People : <<a, p>> \in ticks => p \in listed
    BY <2>1, <2>3, <2>4 DEF People
  <2> QED BY <1>4, <2>5 DEF Safe
<1> HIDE DEF listed, safe
<1>5. /\ Cardinality(listed) \in 0..Cardinality(People) /\ Cardinality(safe) \in 0..Cardinality(People)
      /\ Cardinality(safe) <= Cardinality(listed)
  <2>1. People \in SUBSET People /\ safe \in SUBSET People
    BY <1>4
  <2> QED BY <1>4, <2>1, PeopleFinite
<1>7. q \in MarshalType /\ q.op = "end" /\ q.of = a /\ q.safe = Cardinality(safe) /\ q.people = Cardinality(listed)
  BY <1>1, <1>2, <1>4, <1>5 DEF MarshalType
<1>8. marshal' = [marshal EXCEPT ![m] = q]
  BY <1>1, <1>2
<1>9. blurred \subseteq blurred' /\ blurred' \subseteq Alarms
  BY <1>1, <1>2, <1>3
<1> HIDE DEF q, a
<1>10. marshal[m].of = a
  BY DEF a
<1>11. /\ q.of \in Alarms /\ marshal[m].of = q.of /\ q.op # "check" /\ q.safe <= q.people
       /\ q.of \notin blurred' => q.safe = Cardinality(Safe(q.of))
  BY <1>3, <1>5, <1>6, <1>7, <1>10
<1> QED BY <1>1, <1>7, <1>8, <1>9, <1>11, MarshalMoves

LEMMA TickKeepsRoll ==
  ASSUME RollInv, NEW m \in Marshals, CheckWrites(m)
  PROVE  RollInv'
<1> DEFINE a == marshal[m].of
           who == marshal[m].who
<1>1. /\ marshal[m].op = "check" /\ marshal' = [marshal EXCEPT ![m] = Resting] /\ UNCHANGED <<visit, entered, alarm>>
      /\ ticks' \in {ticks \cup {<<a, who>>}, ticks \ {<<a, who>>}}
      /\ blurred' = IF Counted(a) THEN blurred \cup {a} ELSE blurred
  BY DEF CheckWrites, Doing, HasDone
<1>2. /\ marshal \in [Marshals -> MarshalType] /\ CarriedBy(marshal[m])
      /\ ticks \subseteq Alarms \X People /\ blurred \subseteq Alarms
      /\ \A b \in Alarms : alarm[b] \in AlarmType
  BY RollTyped
<1>3. a \in Alarms /\ who \in People /\ (a \notin blurred => who \in Guests \cup entered) /\ ~Ended(a)
  BY <1>1, <1>2 DEF CarriedBy, Ended
<1> HIDE DEF who
<1>4. /\ marshal' \in [Marshals -> MarshalType]
      /\ \A x \in Marshals : marshal'[x] = IF x = m THEN Resting ELSE marshal[x]
  BY <1>1, <1>2, RestingIs
<1>5. ticks' \subseteq Alarms \X People /\ blurred' \subseteq Alarms /\ blurred \subseteq blurred'
  BY <1>1, <1>2, <1>3
<1>6. /\ \A p \in People : <<a, p>> \in ticks' => <<a, p>> \in ticks \/ p = who
      /\ \A b \in Alarms \ {a} : \A p \in People : <<b, p>> \in ticks' <=> <<b, p>> \in ticks
  BY <1>1
<1>7. alarm[a].row # "none"
  BY <1>3, RollTyped DEF NothingYet
<1>8. \A b \in Alarms : NothingYet(b)'
  <2> SUFFICES ASSUME NEW b \in Alarms, alarm[b].row = "none"
               PROVE  (\A p \in People : <<b, p>> \notin ticks') /\ (\A x \in Marshals : marshal'[x].of # b)
    BY <1>1 DEF NothingYet
  <2>1. b # a /\ (\A p \in People : <<b, p>> \notin ticks) /\ (\A x \in Marshals : marshal[x].of # b)
    BY <1>7, RollTyped DEF NothingYet
  <2> QED BY <1>4, <1>6, <2>1, RestingIs
<1>9. \A b \in Alarms : Ended(b) => Ended(b)'
  <2> SUFFICES ASSUME NEW b \in Alarms, Ended(b) PROVE Ended(b)'
    OBVIOUS
  <2>1. \A x \in Marshals : marshal'[x].of # b
    BY <1>4, RestingIs DEF Ended
  <2> QED BY <1>1, <2>1 DEF Ended
<1>10. ASSUME NEW b \in Alarms \ blurred' PROVE TicksOf(b)'
  <2>1. TicksOf(b) /\ b \notin blurred
    BY <1>5, RollTyped
  <2>2. CASE b = a
    <3>1. \A s \in Staffers \ Guests : <<b, s>> \in ticks => s \in entered
      BY <1>3, <2>1, <2>2 DEF TicksOf
    <3>2. \A s \in Staffers \ Guests : s = who => s \in entered
      BY <1>3, <2>1, <2>2
    <3>3. \A s \in Staffers \ Guests : <<b, s>> \in ticks' => s \in entered
      BY <1>6, <2>2, <3>1, <3>2 DEF People
    <3> QED BY <1>1, <3>3 DEF TicksOf
  <2>3. CASE b # a
    <3>1. \A s \in Staffers \ Guests : <<b, s>> \in ticks' <=> <<b, s>> \in ticks
      BY <1>6, <2>3 DEF People
    <3> QED BY <1>1, <1>9, <2>1, <3>1 DEF TicksOf
  <2> QED BY <2>2, <2>3
<1>11. \A b \in Alarms \ {a} : Safe(b)' = Safe(b)
  BY <1>6 DEF Safe
<1>12. a \notin blurred' => ~Counted(a) /\ a \notin blurred
  BY <1>1
<1>13. ASSUME NEW x \in Marshals PROVE CarriedBy(marshal[x])'
  <2>1. CASE x = m
    BY <1>4, <2>1, RestingIs DEF CarriedBy
  <2>2. CASE x # m
    <3>1. marshal'[x] = marshal[x] /\ CarriedBy(marshal[x])
      BY <1>4, <2>2, RollTyped
    <3>2. marshal[x].op = "end" /\ marshal[x].pc = "update" /\ marshal[x].of \notin blurred' =>
            marshal[x].of \in Alarms \ {a}
      BY <1>12, <3>1 DEF CarriedBy, Counted, Doing
    <3> QED BY <1>1, <1>5, <1>11, <3>1, <3>2 DEF CarriedBy
  <2> QED BY <2>1, <2>2
<1>14. OneRuns'
  BY <1>1, <1>5, RollTyped DEF OneRuns, Running
<1>15. ASSUME NEW b \in Alarms \ blurred', alarm'[b].row = "ended" PROVE CountKept(b)'
  <2>1. b # a
    BY <1>1, <1>12, <1>15 DEF Counted
  <2>2. CountKept(b)
    BY <1>1, <1>5, <1>15, RollTyped
  <2> QED BY <1>1, <1>11, <2>1, <2>2 DEF CountKept
<1>16. /\ visit' \in [Guests -> {"none", "open", "closed"}] /\ entered' \subseteq Staffers
       /\ alarm' \in [Alarms -> AlarmType]
  BY <1>1, RollTyped
<1> QED BY <1>4, <1>5, <1>8, <1>10, <1>13, <1>14, <1>15, <1>16, RollFollows

LEMMA StartKeepsRoll ==
  ASSUME RollInv, NEW m \in Marshals, StartCommits(m)
  PROVE  RollInv'
<1>1. PICK a \in Alarms :
        /\ alarm[a].row = "none" /\ alarm' = [alarm EXCEPT ![a].row = "running"]
        /\ blurred' = IF Running # {} THEN blurred \cup {a} ELSE blurred
  BY DEF StartCommits
<1>2. marshal' = [marshal EXCEPT ![m] = Resting] /\ UNCHANGED <<visit, entered, ticks>>
  BY DEF StartCommits, HasDone
<1>3. /\ marshal \in [Marshals -> MarshalType] /\ alarm \in [Alarms -> AlarmType] /\ blurred \subseteq Alarms
      /\ \A b \in Alarms : alarm[b] \in AlarmType
  BY RollTyped
<1>4. /\ marshal' \in [Marshals -> MarshalType]
      /\ \A x \in Marshals : marshal'[x] = IF x = m THEN Resting ELSE marshal[x]
  BY <1>2, <1>3, RestingIs
<1>5. /\ alarm' \in [Alarms -> AlarmType] /\ alarm'[a].row = "running"
      /\ \A b \in Alarms \ {a} : alarm'[b] = alarm[b]
  BY <1>1, <1>3 DEF AlarmType
<1>6. blurred \subseteq blurred' /\ blurred' \subseteq Alarms
  BY <1>1, <1>3
<1>7. (\A p \in People : <<a, p>> \notin ticks) /\ (\A x \in Marshals : marshal[x].of # a)
  BY <1>1, RollTyped DEF NothingYet
<1>8. \A b \in Alarms : NothingYet(b)'
  <2> SUFFICES ASSUME NEW b \in Alarms, alarm'[b].row = "none"
               PROVE  (\A p \in People : <<b, p>> \notin ticks) /\ (\A x \in Marshals : marshal'[x].of # b)
    BY <1>2 DEF NothingYet
  <2>1. alarm[b].row = "none"
    BY <1>5
  <2>2. (\A p \in People : <<b, p>> \notin ticks) /\ (\A x \in Marshals : marshal[x].of # b)
    BY <2>1, RollTyped DEF NothingYet
  <2> QED BY <1>4, <2>2, RestingIs
<1>9. \A b \in Alarms : Safe(b)' = Safe(b)
  BY <1>2 DEF Safe
<1>10. ASSUME NEW b \in Alarms \ blurred' PROVE TicksOf(b)'
  <2>1. CASE b = a
    BY <1>2, <1>7, <2>1 DEF TicksOf, People
  <2>2. CASE b # a
    <3>1. TicksOf(b)
      BY <1>6, RollTyped
    <3>2. ~Ended(b)' => ~Ended(b)
      <4>1. ASSUME NEW x \in Marshals, marshal'[x].of = b PROVE ~Ended(b)
        BY <1>4, <4>1, RestingIs DEF Ended
      <4> QED BY <1>5, <2>2, <4>1 DEF Ended
    <3> QED BY <1>2, <3>1, <3>2 DEF TicksOf
  <2> QED BY <2>1, <2>2
<1>11. ASSUME NEW x \in Marshals PROVE CarriedBy(marshal[x])'
  <2>1. CASE x = m
    BY <1>4, <2>1, RestingIs DEF CarriedBy
  <2>2. CASE x # m
    <3>1. marshal'[x] = marshal[x] /\ CarriedBy(marshal[x])
      BY <1>4, <2>2, RollTyped
    <3> QED BY <1>2, <1>6, <1>9, <3>1 DEF CarriedBy
  <2> QED BY <2>1, <2>2
<1>12. OneRuns'
  <2>1. Running' = Running \cup {a}
    BY <1>5 DEF Running
  <2>2. CASE Running = {}
    BY <2>1, <2>2 DEF OneRuns
  <2>3. CASE Running # {}
    <3>1. Running' \ blurred' \subseteq Running \ blurred
      BY <1>1, <1>6, <2>1, <2>3
    <3> QED BY <3>1, RollTyped DEF OneRuns
  <2> QED BY <2>2, <2>3
<1>13. ASSUME NEW b \in Alarms \ blurred', alarm'[b].row = "ended" PROVE CountKept(b)'
  <2>1. alarm'[b] = alarm[b] /\ CountKept(b)
    BY <1>5, <1>6, <1>13, RollTyped
  <2> QED BY <1>9, <2>1 DEF CountKept
<1>14. visit' \in [Guests -> {"none", "open", "closed"}] /\ entered' \subseteq Staffers /\ ticks' \subseteq Alarms \X People
  BY <1>2, RollTyped
<1> QED BY <1>4, <1>5, <1>6, <1>8, <1>10, <1>11, <1>12, <1>13, <1>14, RollFollows

LEMMA EndKeepsRoll ==
  ASSUME RollInv, NEW m \in Marshals, EndUpdates(m)
  PROVE  RollInv'
<1> DEFINE q == marshal[m]
           a == q.of
<1>1. /\ q.op = "end" /\ q.pc = "update" /\ marshal' = [marshal EXCEPT ![m] = Resting]
      /\ UNCHANGED <<visit, entered, ticks, blurred>>
      /\ alarm' = [alarm EXCEPT ![a] = [row |-> "ended", people |-> q.people, safe |-> q.safe]]
  BY DEF EndUpdates, HasDone, Doing
<1>2. /\ marshal \in [Marshals -> MarshalType] /\ alarm \in [Alarms -> AlarmType]
      /\ q \in MarshalType /\ CarriedBy(q)
  BY RollTyped
<1>3. /\ a \in Alarms /\ ~Ended(a) /\ alarm[a].row # "none"
      /\ a \notin blurred => q.safe = Cardinality(Safe(a)) /\ q.safe <= q.people
  <2>1. a \in Alarms
    BY <1>1, <1>2 DEF CarriedBy
  <2>2. alarm[a].row # "none"
    BY <2>1, RollTyped DEF NothingYet
  <2> QED BY <1>1, <1>2, <2>1, <2>2 DEF CarriedBy, Ended
<1>4. /\ marshal' \in [Marshals -> MarshalType]
      /\ \A x \in Marshals : marshal'[x] = IF x = m THEN Resting ELSE marshal[x]
  BY <1>1, <1>2, RestingIs
<1>5. /\ alarm' \in [Alarms -> AlarmType] /\ alarm'[a] = [row |-> "ended", people |-> q.people, safe |-> q.safe]
      /\ \A b \in Alarms \ {a} : alarm'[b] = alarm[b]
  BY <1>1, <1>2, <1>3 DEF AlarmType, MarshalType
<1>6. alarm'[a].row = "ended" /\ alarm'[a].people = q.people /\ alarm'[a].safe = q.safe
  BY <1>5
<1>7. \A b \in Alarms : Safe(b)' = Safe(b)
  BY <1>1 DEF Safe
<1>8. \A b \in Alarms : NothingYet(b)'
  <2> SUFFICES ASSUME NEW b \in Alarms, alarm'[b].row = "none"
               PROVE  (\A p \in People : <<b, p>> \notin ticks) /\ (\A x \in Marshals : marshal'[x].of # b)
    BY <1>1 DEF NothingYet
  <2>1. alarm[b].row = "none"
    BY <1>5, <1>6
  <2>2. (\A p \in People : <<b, p>> \notin ticks) /\ (\A x \in Marshals : marshal[x].of # b)
    BY <2>1, RollTyped DEF NothingYet
  <2> QED BY <1>4, <2>2, RestingIs
<1>9. ASSUME NEW b \in Alarms \ blurred' PROVE TicksOf(b)'
  <2>1. TicksOf(b)
    BY <1>1, RollTyped
  <2>2. ~Ended(b)' => ~Ended(b)
    <3>1. ASSUME NEW x \in Marshals, marshal'[x].of = b PROVE ~Ended(b)
      BY <1>4, <3>1, RestingIs DEF Ended
    <3>2. alarm'[b].row = "running" => ~Ended(b)
      BY <1>5, <1>6 DEF Ended
    <3> QED BY <3>1, <3>2 DEF Ended
  <2> QED BY <1>1, <2>1, <2>2 DEF TicksOf
<1>10. ASSUME NEW x \in Marshals PROVE CarriedBy(marshal[x])'
  <2>1. CASE x = m
    BY <1>4, <2>1, RestingIs DEF CarriedBy
  <2>2. CASE x # m
    <3>1. marshal'[x] = marshal[x] /\ CarriedBy(marshal[x])
      BY <1>4, <2>2, RollTyped
    <3> QED BY <1>1, <1>7, <3>1 DEF CarriedBy
  <2> QED BY <2>1, <2>2
<1>11. OneRuns'
  <2>1. Running' \subseteq Running
    BY <1>5, <1>6 DEF Running
  <2> QED BY <1>1, <2>1, RollTyped DEF OneRuns
<1> HIDE DEF q, a
<1>12. ASSUME NEW b \in Alarms \ blurred', alarm'[b].row = "ended" PROVE CountKept(b)'
  <2>1. CASE b = a
    BY <1>1, <1>3, <1>6, <1>7, <2>1 DEF CountKept
  <2>2. CASE b # a
    <3>1. alarm'[b] = alarm[b] /\ CountKept(b)
      BY <1>1, <1>5, <1>12, <2>2, RollTyped
    <3> QED BY <1>7, <3>1 DEF CountKept
  <2> QED BY <2>1, <2>2
<1>13. /\ visit' \in [Guests -> {"none", "open", "closed"}] /\ entered' \subseteq Staffers
       /\ ticks' \subseteq Alarms \X People /\ blurred' \subseteq Alarms
  BY <1>1, RollTyped
<1> QED BY <1>4, <1>5, <1>8, <1>9, <1>10, <1>11, <1>12, <1>13, RollFollows

LEMMA MidnightKeepsRoll == ASSUME RollInv, Midnight PROVE RollInv'
<1>1. /\ entered' = {} /\ UNCHANGED <<visit, alarm, ticks, marshal>>
      /\ blurred' = blurred \cup Running \cup {a \in Alarms : \E m \in Marshals : marshal[m].of = a}
  BY DEF Midnight
<1>2. \A a \in Alarms : NothingYet(a)' /\ (Ended(a)' <=> Ended(a)) /\ Safe(a)' = Safe(a)
  BY <1>1, RollTyped DEF NothingYet, Ended, Safe
<1>3. ASSUME NEW a \in Alarms \ blurred' PROVE Ended(a) /\ (\A m \in Marshals : marshal[m].of # a)
  <2>1. a \notin Running /\ \A m \in Marshals : marshal[m].of # a
    BY <1>1
  <2> QED BY <2>1 DEF Running, Ended
<1>4. \A a \in Alarms \ blurred' : TicksOf(a)'
  BY <1>2, <1>3 DEF TicksOf
<1>5. ASSUME NEW m \in Marshals PROVE CarriedBy(marshal[m])'
  <2>1. CarriedBy(marshal[m])
    BY RollTyped
  <2>2. marshal[m].of \in Alarms => marshal[m].of \in blurred'
    BY <1>1
  <2> QED BY <1>1, <2>1, <2>2 DEF CarriedBy
<1>6. OneRuns'
  BY <1>1, RollTyped DEF OneRuns, Running
<1>7. \A a \in Alarms \ blurred' : alarm'[a].row = "ended" => CountKept(a)'
  BY <1>1, <1>2, RollTyped DEF CountKept
<1>8. blurred' \subseteq Alarms
  BY <1>1, RollTyped DEF Running
<1>9. /\ visit' \in [Guests -> {"none", "open", "closed"}] /\ entered' \subseteq Staffers
      /\ alarm' \in [Alarms -> AlarmType] /\ marshal' \in [Marshals -> MarshalType] /\ ticks' \subseteq Alarms \X People
  BY <1>1, RollTyped
<1> QED BY <1>2, <1>4, <1>5, <1>6, <1>7, <1>8, <1>9, RollFollows

LEMMA RollStep == ASSUME RollInv, [RollNext]_rollVars PROVE RollInv'
<1>1. /\ visit \in [Guests -> {"none", "open", "closed"}] /\ entered \subseteq Staffers
      /\ marshal \in [Marshals -> MarshalType] /\ blurred \subseteq Alarms
  BY RollTyped
<1>2. CASE UNCHANGED rollVars
  BY <1>1, <1>2, PeopleMove DEF rollVars
<1>3. ASSUME NEW g \in Guests, GuestArrives(g) \/ GuestLeaves(g) PROVE RollInv'
  <2>1. /\ \E now \in {"open", "closed"} : visit' = [visit EXCEPT ![g] = now]
        /\ UNCHANGED <<entered, alarm, ticks, marshal, blurred>>
    BY <1>3 DEF GuestArrives, GuestLeaves
  <2>2. visit' \in [Guests -> {"none", "open", "closed"}]
    BY <1>1, <2>1
  <2> QED BY <1>1, <2>1, <2>2, PeopleMove
<1>4. ASSUME NEW s \in Staffers, PassesDoor(s) PROVE RollInv'
  BY <1>1, <1>4, PeopleMove DEF PassesDoor
<1>5. ASSUME NEW m \in Marshals, StartReads(m) PROVE RollInv'
  <2> DEFINE q == [Resting EXCEPT !.op = "start", !.pc = "insert"]
  <2>1. marshal' = [marshal EXCEPT ![m] = q] /\ UNCHANGED <<visit, entered, alarm, ticks, blurred>>
    BY <1>5 DEF StartReads, Does
  <2>2. q \in MarshalType /\ q.op = "start" /\ q.of \notin Alarms
    BY RestingIs DEF MarshalType
  <2> HIDE DEF q
  <2> QED BY <1>1, <2>1, <2>2, MarshalMoves
<1>6. ASSUME NEW m \in Marshals, CheckReads(m) PROVE RollInv'
  <2>1. PICK a \in Running, p \in Known :
          marshal' = [marshal EXCEPT ![m] = [Resting EXCEPT !.op = "check", !.pc = "write", !.of = a, !.who = p]]
    BY <1>6 DEF CheckReads, Does
  <2> DEFINE q == [Resting EXCEPT !.op = "check", !.pc = "write", !.of = a, !.who = p]
  <2>2. a \in Alarms /\ alarm[a].row = "running" /\ p \in Guests \cup entered /\ p \in People
    BY <1>1 DEF Running, Known, People
  <2>3. q \in MarshalType /\ q.op = "check" /\ q.of = a /\ q.who = p
    BY <2>2, RestingIs DEF MarshalType
  <2>4. UNCHANGED <<visit, entered, alarm, ticks, blurred>>
    BY <1>6 DEF CheckReads
  <2>5. marshal' = [marshal EXCEPT ![m] = q]
    BY <2>1
  <2> HIDE DEF q
  <2> QED BY <1>1, <2>2, <2>3, <2>4, <2>5, MarshalMoves
<1>7. ASSUME NEW m \in Marshals, EndReads(m) PROVE RollInv'
  <2>1. PICK a \in Running : marshal' = [marshal EXCEPT ![m] = [Resting EXCEPT !.op = "end", !.pc = "visits", !.of = a]]
    BY <1>7 DEF EndReads, Does
  <2> DEFINE q == [Resting EXCEPT !.op = "end", !.pc = "visits", !.of = a]
  <2>2. a \in Alarms /\ alarm[a].row = "running"
    BY DEF Running
  <2>3. q \in MarshalType /\ q.op = "end" /\ q.of = a /\ q.pc = "visits"
    BY <2>2, RestingIs DEF MarshalType
  <2>4. UNCHANGED <<visit, entered, alarm, ticks, blurred>>
    BY <1>7 DEF EndReads
  <2>5. marshal' = [marshal EXCEPT ![m] = q]
    BY <2>1
  <2> HIDE DEF q
  <2> QED BY <1>1, <2>2, <2>3, <2>4, <2>5, MarshalMoves
<1>8. ASSUME NEW m \in Marshals, EndReadsVisits(m) \/ EndReadsDoors(m) PROVE RollInv'
  <2>1. /\ marshal[m].op = "end" /\ UNCHANGED <<visit, entered, alarm, ticks, blurred>>
        /\ \E pc \in {"doors", "checks"}, listed \in SUBSET People :
             marshal' = [marshal EXCEPT ![m].pc = pc, ![m].listed = listed]
    <3>1. {g \in Guests : visit[g] = "open"} \in SUBSET People /\ marshal[m].listed \cup entered \in SUBSET People
      BY <1>1 DEF MarshalType, People
    <3>2. ASSUME EndReadsVisits(m)
          PROVE  \E pc \in {"doors", "checks"}, listed \in SUBSET People :
                   marshal' = [marshal EXCEPT ![m].pc = pc, ![m].listed = listed]
      BY <3>1, <3>2 DEF EndReadsVisits
    <3>3. ASSUME EndReadsDoors(m)
          PROVE  \E pc \in {"doors", "checks"}, listed \in SUBSET People :
                   marshal' = [marshal EXCEPT ![m].pc = pc, ![m].listed = listed]
      <4>1. marshal' = [marshal EXCEPT ![m].pc = "checks", ![m].listed = marshal[m].listed \cup entered]
        BY <1>1, <3>3 DEF EndReadsDoors, MarshalType
      <4> QED BY <3>1, <4>1
    <3> QED BY <1>8, <3>2, <3>3 DEF EndReadsVisits, EndReadsDoors, Doing
  <2>2. PICK pc \in {"doors", "checks"}, listed \in SUBSET People :
          marshal' = [marshal EXCEPT ![m].pc = pc, ![m].listed = listed]
    BY <2>1
  <2> DEFINE q == [marshal[m] EXCEPT !.pc = pc, !.listed = listed]
  <2>3. q \in MarshalType /\ q.op = "end" /\ q.of = marshal[m].of /\ q.pc # "update"
    <3>1. /\ marshal[m] \in MarshalType /\ marshal[m].op = "end"
          /\ pc \in {"idle", "insert", "write", "visits", "doors", "checks", "update"} /\ pc # "update"
      BY <1>1, <2>1
    <3>2. q \in MarshalType /\ q.op = marshal[m].op /\ q.of = marshal[m].of /\ q.pc = pc
      BY <3>1 DEF MarshalType
    <3> QED BY <3>1, <3>2
  <2>4. marshal' = [marshal EXCEPT ![m] = q]
    BY <1>1, <2>2
  <2>5. marshal[m].of \in Alarms
    BY <2>1, RollTyped DEF CarriedBy
  <2> HIDE DEF q
  <2> QED BY <1>1, <2>1, <2>3, <2>4, <2>5, MarshalMoves
<1> QED BY <1>2, <1>3, <1>4, <1>5, <1>6, <1>7, <1>8, MidnightKeepsRoll, StartKeepsRoll, TickKeepsRoll, CountKeepsRoll,
        EndKeepsRoll DEF RollNext

-----------------------------------------------------------------------------
(* Enrolment: proofs *)

InstallerType == [op : {"idle", "code", "pair", "site", "reopen"}, kind : {"tablet", "reader"},
                  of : Codes \cup Places \cup {0}, over : BOOLEAN]
CodeType == [state : {"absent", "issued", "used", "expired"}, kind : {"tablet", "reader"}]
DeviceType == [row : {"absent", "live", "revoked"}, kind : {"tablet", "reader"}, of : Codes \cup {0}]

\* Requests that have counted the tablets, or the sites, and were not crossed; and those
\* that carry a code.
CountsTablets(r) == installer[r].op = "code" /\ installer[r].kind = "tablet" /\ ~installer[r].over
CountsSites(r) == installer[r].op \in {"site", "reopen"} /\ ~installer[r].over
Carries(r, c) == installer[r].op = "pair" /\ installer[r].of = c

DevicesOfCodes ==
  \A d \in Devices : device[d].row # "absent" =>
    /\ code[device[d].of].kind = device[d].kind
    /\ \A e \in Devices \ {d} : device[e].row # "absent" => device[e].of # device[d].of
TabletsPlanned ==
  /\ \A r \in Installers : CountsTablets(r) => Cardinality(Tablets) < MaxDevices
  /\ \A c, x \in Redeemable : c = x
  /\ Redeemable # {} => Cardinality(Enrolled) < MaxDevices
  /\ Cardinality(Enrolled) <= MaxDevices
SitesPlanned ==
  /\ \A r \in Installers : CountsSites(r) => Cardinality(InUse) < MaxSites
  /\ Cardinality(InUse \ crowded) <= MaxSites

LEMMA PairParts ==
  /\ PairInv <=> (PairTypeOK /\ CodesCarried /\ DevicesOfCodes /\ TabletsPlanned /\ SitesPlanned)
  /\ PairInv' <=> (PairTypeOK' /\ CodesCarried' /\ DevicesOfCodes' /\ TabletsPlanned' /\ SitesPlanned')
<1>1. PairInv <=> (PairTypeOK /\ CodesCarried /\ DevicesOfCodes /\ TabletsPlanned /\ SitesPlanned)
  BY DEF PairInv, PlanCounted, PlanHolds, DevicesOfCodes, TabletsPlanned, SitesPlanned, CountsTablets, CountsSites, Enrolled
<1> QED BY <1>1, PTL

LEMMA PairTyped ==
  PairTypeOK =>
    /\ code \in [Codes -> CodeType] /\ device \in [Devices -> DeviceType]
    /\ place \in [Places -> {"absent", "active", "off"}] /\ installer \in [Installers -> InstallerType]
    /\ promised \subseteq Codes /\ crowded \subseteq Places
    /\ \A c \in Codes : code[c] \in CodeType
    /\ \A d \in Devices : device[d] \in DeviceType
    /\ \A r \in Installers : installer[r] \in InstallerType
  BY DEF PairTypeOK, CodeType, DeviceType, InstallerType

LEMMA PairTypes ==
  ASSUME code' \in [Codes -> CodeType], device' \in [Devices -> DeviceType],
         place' \in [Places -> {"absent", "active", "off"}], installer' \in [Installers -> InstallerType],
         promised' \subseteq Codes, crowded' \subseteq Places
  PROVE  PairTypeOK'
  BY DEF PairTypeOK, CodeType, DeviceType, InstallerType

LEMMA OffIs ==
  /\ Off \in InstallerType /\ Off.op = "idle" /\ Off.kind = "tablet" /\ Off.of = 0 /\ Off.over = FALSE
  BY DEF Off, InstallerType

LEMMA PlanFinite ==
  /\ MaxDevices \in Nat /\ MaxSites \in Nat /\ 0 < MaxDevices /\ 0 < MaxSites
  /\ \A S \in SUBSET Devices : \A T \in SUBSET S :
       Cardinality(S) \in Nat /\ Cardinality(T) \in Nat /\ Cardinality(T) <= Cardinality(S)
  /\ \A S \in SUBSET Places : \A T \in SUBSET S :
       Cardinality(S) \in Nat /\ Cardinality(T) \in Nat /\ Cardinality(T) <= Cardinality(S)
  /\ \A S \in SUBSET Devices : \A d \in Devices : Cardinality(S \cup {d}) <= Cardinality(S) + 1
  /\ \A S \in SUBSET Places : \A s \in Places : Cardinality(S \cup {s}) <= Cardinality(S) + 1
<1>1. IsFiniteSet(Devices) /\ IsFiniteSet(Places) /\ MaxDevices \in Nat \ {0} /\ MaxSites \in Nat \ {0}
  BY PairingAssumption
<1>2. \A S \in SUBSET Devices : IsFiniteSet(S)
  BY <1>1, FS_Subset
<1>3. \A S \in SUBSET Places : IsFiniteSet(S)
  BY <1>1, FS_Subset
<1>4. \A S : IsFiniteSet(S) => Cardinality(S) \in Nat
  BY FS_CardinalityType
<1>5. \A S : IsFiniteSet(S) => \A x : Cardinality(S \cup {x}) <= Cardinality(S) + 1
  <2> SUFFICES ASSUME NEW S, IsFiniteSet(S), NEW x PROVE Cardinality(S \cup {x}) <= Cardinality(S) + 1
    OBVIOUS
  <2>1. Cardinality(S \cup {x}) = IF x \in S THEN Cardinality(S) ELSE Cardinality(S) + 1
    BY FS_AddElement
  <2> QED BY <1>4, <2>1
<1>6. \A S : IsFiniteSet(S) => \A T \in SUBSET S : Cardinality(T) \in Nat /\ Cardinality(T) <= Cardinality(S)
  BY <1>4, FS_Subset
<1>7. \A S \in SUBSET Devices : \A T \in SUBSET S :
        Cardinality(S) \in Nat /\ Cardinality(T) \in Nat /\ Cardinality(T) <= Cardinality(S)
  BY <1>2, <1>4, <1>6
<1>8. \A S \in SUBSET Places : \A T \in SUBSET S :
        Cardinality(S) \in Nat /\ Cardinality(T) \in Nat /\ Cardinality(T) <= Cardinality(S)
  BY <1>3, <1>4, <1>6
<1>9. \A S \in SUBSET Devices : \A d \in Devices : Cardinality(S \cup {d}) <= Cardinality(S) + 1
  BY <1>2, <1>5
<1>10. \A S \in SUBSET Places : \A s \in Places : Cardinality(S \cup {s}) <= Cardinality(S) + 1
  BY <1>3, <1>5
<1> QED BY <1>1, <1>7, <1>8, <1>9, <1>10

LEMMA PairInits == PairInit => PairInv
<1> SUFFICES ASSUME PairInit PROVE PairInv
  OBVIOUS
<1>1. /\ \A c \in Codes : code[c] = [state |-> "absent", kind |-> "tablet"]
      /\ \A d \in Devices : device[d] = [row |-> "absent", kind |-> "tablet", of |-> 0]
      /\ \A s \in Places : place[s] = "absent"
      /\ \A r \in Installers : installer[r] = Off
  BY DEF PairInit
<1>2. PairTypeOK
  BY OffIs DEF PairInit, PairTypeOK, InstallerType
<1>3. CodesCarried
  BY <1>1, OffIs DEF CodesCarried
<1>4. Tablets = {} /\ Enrolled = {} /\ Redeemable = {} /\ InUse = {} /\ InUse \ crowded = {}
  BY <1>1 DEF Tablets, Enrolled, Redeemable, InUse
<1>5. DevicesOfCodes
  BY <1>1 DEF DevicesOfCodes
<1>6. TabletsPlanned /\ SitesPlanned
  BY <1>1, <1>4, FS_EmptySet, PlanFinite DEF TabletsPlanned, SitesPlanned
<1> QED BY <1>2, <1>3, <1>5, <1>6, PairParts

-----------------------------------------------------------------------------
(* What changes no plan *)

LEMMA FewerTablets ==
  ASSUME PairInv, Tablets' \subseteq Tablets, Enrolled' \subseteq Enrolled, Redeemable' \subseteq Redeemable,
         \A r \in Installers : CountsTablets(r)' => CountsTablets(r) \/ RoomForTablet
  PROVE  TabletsPlanned'
<1>1. TabletsPlanned
  BY PairParts
<1>2. Tablets \in SUBSET Devices /\ Enrolled \in SUBSET Devices
  BY DEF Tablets, Enrolled
<1>3. /\ Cardinality(Tablets') <= Cardinality(Tablets) /\ Cardinality(Enrolled') <= Cardinality(Enrolled)
      /\ Cardinality(Tablets') \in Nat /\ Cardinality(Tablets) \in Nat
      /\ Cardinality(Enrolled') \in Nat /\ Cardinality(Enrolled) \in Nat /\ MaxDevices \in Nat
  BY <1>2, PlanFinite
<1>4. \A r \in Installers : CountsTablets(r)' => Cardinality(Tablets') < MaxDevices
  BY <1>1, <1>3 DEF TabletsPlanned, RoomForTablet
<1> QED BY <1>1, <1>3, <1>4 DEF TabletsPlanned

LEMMA FewerSites ==
  ASSUME PairInv, InUse' \subseteq InUse, (InUse \ crowded)' \subseteq InUse \ crowded,
         \A r \in Installers : CountsSites(r)' => CountsSites(r) \/ RoomForSite
  PROVE  SitesPlanned'
<1>1. SitesPlanned
  BY PairParts
<1>2. InUse \in SUBSET Places /\ InUse \ crowded \in SUBSET Places
  BY DEF InUse
<1>3. /\ Cardinality(InUse') <= Cardinality(InUse) /\ Cardinality((InUse \ crowded)') <= Cardinality(InUse \ crowded)
      /\ Cardinality(InUse') \in Nat /\ Cardinality(InUse) \in Nat
      /\ Cardinality((InUse \ crowded)') \in Nat /\ Cardinality(InUse \ crowded) \in Nat /\ MaxSites \in Nat
  BY <1>2, PlanFinite
<1>4. \A r \in Installers : CountsSites(r)' => Cardinality(InUse') < MaxSites
  BY <1>1, <1>3 DEF SitesPlanned, RoomForSite
<1> QED BY <1>1, <1>3, <1>4 DEF SitesPlanned

\* A request comes or ends, and the tables stay.
LEMMA RequestKeepsPlan ==
  ASSUME PairInv, UNCHANGED <<code, device, place, promised, crowded>>, NEW r \in Installers, NEW q \in InstallerType,
         installer' = [installer EXCEPT ![r] = q],
         q.op = "code" /\ q.kind = "tablet" => RoomForTablet,
         q.op \in {"site", "reopen"} => RoomForSite /\ q.of \in Places,
         q.op = "pair" => q.of \in Codes /\ code[q.of] = [state |-> "issued", kind |-> q.kind]
  PROVE  PairInv'
<1>1. PairTypeOK /\ CodesCarried /\ DevicesOfCodes /\ installer \in [Installers -> InstallerType]
  BY PairParts, PairTyped
<1>2. \A x \in Installers : installer'[x] = IF x = r THEN q ELSE installer[x]
  BY <1>1
<1>3. PairTypeOK'
  BY <1>1, PairTyped, PairTypes
<1>4. CodesCarried'
  <2>1. ASSUME NEW x \in Installers, installer'[x].op = "pair"
        PROVE  installer'[x].of \in Codes /\ code'[installer'[x].of].state # "absent"
               /\ code'[installer'[x].of].kind = installer'[x].kind
    BY <1>1, <1>2, <2>1 DEF CodesCarried
  <2>2. ASSUME NEW x \in Installers, installer'[x].op \in {"site", "reopen"} PROVE installer'[x].of \in Places
    BY <1>1, <1>2, <2>2 DEF CodesCarried
  <2> QED BY <1>1, <2>1, <2>2 DEF CodesCarried
<1>5. DevicesOfCodes'
  BY <1>1 DEF DevicesOfCodes
<1>6. Tablets' = Tablets /\ Enrolled' = Enrolled /\ InUse' = InUse /\ (InUse \ crowded)' = InUse \ crowded
  BY DEF Tablets, Enrolled, InUse
<1>7. Redeemable' \subseteq Redeemable
  <2>1. ASSUME NEW c \in Codes, code[c].state = "expired", NEW x \in Installers, Carries(x, c)' PROVE Carries(x, c)
    BY <1>2, <2>1 DEF Carries
  <2> QED BY <2>1 DEF Redeemable, Carries
<1>8. \A x \in Installers : CountsTablets(x)' => CountsTablets(x) \/ RoomForTablet
  BY <1>2 DEF CountsTablets
<1>9. \A x \in Installers : CountsSites(x)' => CountsSites(x) \/ RoomForSite
  BY <1>2 DEF CountsSites
<1>10. TabletsPlanned'
  BY <1>6, <1>7, <1>8, FewerTablets
<1>11. SitesPlanned'
  BY <1>6, <1>9, FewerSites
<1> QED BY <1>3, <1>4, <1>5, <1>10, <1>11, PairParts

\* A request ends and the others of its kind are crossed.
LEMMA ClosesIs ==
  ASSUME PairInv, NEW r \in Installers, NEW op, Closes(r, op)
  PROVE  /\ installer' \in [Installers -> InstallerType]
         /\ \A x \in Installers \ {r} :
              /\ installer'[x].op = installer[x].op /\ installer'[x].kind = installer[x].kind
              /\ installer'[x].of = installer[x].of
              /\ ~installer'[x].over => ~installer[x].over /\ installer[x].op \notin op
         /\ installer'[r].op = "idle"
<1>1. \A x \in Installers : installer[x] \in InstallerType
  BY PairParts, PairTyped
<1>2. \A x \in Installers :
        installer'[x] = IF x = r THEN Off ELSE IF installer[x].op \in op THEN [installer[x] EXCEPT !.over = TRUE] ELSE installer[x]
  BY DEF Closes
<1>3. ASSUME NEW x \in Installers \ {r}
      PROVE  /\ installer'[x] \in InstallerType
             /\ installer'[x].op = installer[x].op /\ installer'[x].kind = installer[x].kind
             /\ installer'[x].of = installer[x].of
             /\ ~installer'[x].over => ~installer[x].over /\ installer[x].op \notin op
  <2>1. CASE installer[x].op \in op
    <3>1. installer'[x] = [installer[x] EXCEPT !.over = TRUE]
      BY <1>2, <2>1
    <3> QED BY <1>1, <3>1 DEF InstallerType
  <2>2. CASE installer[x].op \notin op
    BY <1>1, <1>2, <2>2
  <2> QED BY <2>1, <2>2
<1>4. installer' = [x \in Installers |-> installer'[x]]
  BY DEF Closes
<1>5. installer' \in [Installers -> InstallerType]
  BY <1>2, <1>3, <1>4, OffIs
<1> QED BY <1>2, <1>3, <1>5, OffIs

LEMMA CodeSaveKeepsPlan ==
  ASSUME PairInv, NEW r \in Installers, CodeSaves(r)
  PROVE  PairInv'
<1>1. /\ PairTypeOK /\ CodesCarried /\ DevicesOfCodes /\ TabletsPlanned
      /\ installer \in [Installers -> InstallerType] /\ code \in [Codes -> CodeType]
      /\ \A x \in Codes : code[x] \in CodeType
      /\ installer[r] \in InstallerType /\ promised \subseteq Codes
  BY PairParts, PairTyped
<1>2. PICK c \in Codes :
        /\ code[c].state = "absent" /\ code' = [code EXCEPT ![c] = [state |-> "issued", kind |-> installer[r].kind]]
        /\ promised' = IF installer[r].kind = "tablet" /\ (Outstanding # {} \/ installer[r].over)
                       THEN promised \cup {c} ELSE promised
  BY DEF CodeSaves
<1>3. /\ installer[r].op = "code" /\ installer' = [installer EXCEPT ![r] = Off] /\ UNCHANGED <<device, place, crowded>>
  BY DEF CodeSaves
<1>4. \A x \in Installers : installer'[x] = IF x = r THEN Off ELSE installer[x]
  BY <1>1, <1>3
<1>5. /\ code' \in [Codes -> CodeType] /\ code'[c].state = "issued" /\ code'[c].kind = installer[r].kind
      /\ \A x \in Codes \ {c} : code'[x] = code[x]
  BY <1>1, <1>2 DEF CodeType, InstallerType
<1>6. PairTypeOK'
  <2>1. installer' \in [Installers -> InstallerType] /\ promised' \subseteq Codes
    BY <1>1, <1>2, <1>3, OffIs
  <2> QED BY <1>1, <1>3, <1>5, <2>1, PairTyped, PairTypes
<1>7. \A d \in Devices : device[d].row # "absent" => device[d].of \in Codes \ {c}
  BY <1>1, <1>2 DEF CodesCarried
<1>8. \A x \in Installers : installer[x].op = "pair" => installer[x].of \in Codes \ {c}
  BY <1>1, <1>2 DEF CodesCarried
<1>9. CodesCarried'
  <2>1. \A d \in Devices : device'[d].row # "absent" => device'[d].of \in Codes /\ code'[device'[d].of].state = "used"
    BY <1>1, <1>3, <1>5, <1>7 DEF CodesCarried
  <2>2. ASSUME NEW x \in Installers, installer'[x].op = "pair"
        PROVE  installer'[x].of \in Codes /\ code'[installer'[x].of].state # "absent"
               /\ code'[installer'[x].of].kind = installer'[x].kind
    BY <1>1, <1>4, <1>5, <1>8, <2>2, OffIs DEF CodesCarried
  <2>3. ASSUME NEW x \in Installers, installer'[x].op \in {"site", "reopen"} PROVE installer'[x].of \in Places
    BY <1>1, <1>4, <2>3, OffIs DEF CodesCarried
  <2> QED BY <2>1, <2>2, <2>3 DEF CodesCarried
<1>10. DevicesOfCodes'
  BY <1>1, <1>3, <1>5, <1>7 DEF DevicesOfCodes
<1>11. /\ Tablets' = Tablets /\ Enrolled' \subseteq Enrolled /\ InUse' = InUse /\ (InUse \ crowded)' = InUse \ crowded
  BY <1>2, <1>3 DEF Tablets, Enrolled, InUse
<1>12. /\ \A x \in Installers : CountsTablets(x)' => CountsTablets(x)
       /\ \A x \in Installers : CountsSites(x)' => CountsSites(x)
  BY <1>4, OffIs DEF CountsTablets, CountsSites
<1>13. Redeemable' \subseteq Redeemable \cup {c}
  <2>1. \A y \in Installers, x \in Codes : Carries(y, x)' => Carries(y, x)
    BY <1>4, OffIs DEF Carries
  <2> QED BY <1>2, <1>5, <2>1 DEF Redeemable, Carries
<1>14. CASE c \in promised' \/ installer[r].kind # "tablet"
  <2>1. Redeemable' \subseteq Redeemable
    BY <1>5, <1>13, <1>14 DEF Redeemable
  <2>2. TabletsPlanned'
    BY <1>11, <1>12, <2>1, FewerTablets
  <2>3. SitesPlanned'
    BY <1>11, <1>12, FewerSites
  <2> QED BY <1>6, <1>9, <1>10, <2>2, <2>3, PairParts
<1>15. CASE c \notin promised' /\ installer[r].kind = "tablet"
  <2>1. Outstanding = {} /\ ~installer[r].over
    BY <1>2, <1>15
  <2>2. Redeemable \subseteq Outstanding
    BY DEF Redeemable, Outstanding
  <2>3. Redeemable' \subseteq {c}
    BY <1>13, <2>1, <2>2
  <2>4. Cardinality(Tablets) < MaxDevices
    BY <1>1, <1>3, <1>15, <2>1 DEF TabletsPlanned, CountsTablets
  <2>5. Cardinality(Enrolled') < MaxDevices /\ Cardinality(Enrolled') <= MaxDevices
    <3>1. Tablets \in SUBSET Devices /\ Enrolled' \in SUBSET Tablets
      BY <1>11 DEF Tablets, Enrolled
    <3>2. /\ Cardinality(Enrolled') <= Cardinality(Tablets) /\ Cardinality(Enrolled') \in Nat
          /\ Cardinality(Tablets) \in Nat /\ MaxDevices \in Nat
      BY <3>1, PlanFinite
    <3> QED BY <2>4, <3>2
  <2>6. TabletsPlanned'
    BY <1>11, <2>3, <2>4, <2>5 DEF TabletsPlanned
  <2>7. SitesPlanned'
    BY <1>11, <1>12, FewerSites
  <2> QED BY <1>6, <1>9, <1>10, <2>6, <2>7, PairParts
<1> QED BY <1>14, <1>15

LEMMA PairingKeepsPlan ==
  ASSUME PairInv, NEW r \in Installers, PairCommits(r)
  PROVE  PairInv'
<1> DEFINE c == installer[r].of
           kind == installer[r].kind
<1>1. /\ PairTypeOK /\ CodesCarried /\ DevicesOfCodes /\ TabletsPlanned
      /\ installer \in [Installers -> InstallerType] /\ code \in [Codes -> CodeType] /\ device \in [Devices -> DeviceType]
      /\ \A x \in Codes : code[x] \in CodeType
      /\ \A d \in Devices : device[d] \in DeviceType
      /\ installer[r] \in InstallerType
  BY PairParts, PairTyped
<1>2. installer[r].op = "pair" /\ UNCHANGED <<place, promised, crowded>>
  BY DEF PairCommits
<1>3. c \in Codes /\ code[c].state # "absent" /\ code[c].kind = kind /\ kind \in {"tablet", "reader"}
  BY <1>1, <1>2 DEF CodesCarried, InstallerType
<1>4. CASE ~Unused(c)
  <2>1. installer' = [installer EXCEPT ![r] = Off] /\ UNCHANGED <<code, device>>
    BY <1>4 DEF PairCommits
  <2> QED BY <1>2, <2>1, OffIs, RequestKeepsPlan
<1>5. CASE Unused(c)
  <2>1. PICK d \in Devices : /\ device[d].row = "absent"
                             /\ device' = [device EXCEPT ![d] = [row |-> "live", kind |-> kind, of |-> c]]
    BY <1>5 DEF PairCommits
  <2>2. code' = [code EXCEPT ![c].state = "used"] /\ Closes(r, {"code"})
    BY <1>5 DEF PairCommits
  <2> HIDE DEF c, kind
  <2>3. /\ code' \in [Codes -> CodeType] /\ code'[c].state = "used" /\ code'[c].kind = kind
        /\ \A x \in Codes \ {c} : code'[x] = code[x]
    BY <1>1, <1>3, <2>2 DEF CodeType
  <2>4. /\ device' \in [Devices -> DeviceType] /\ device'[d].row = "live" /\ device'[d].kind = kind /\ device'[d].of = c
        /\ \A e \in Devices \ {d} : device'[e] = device[e]
    BY <1>1, <1>3, <2>1 DEF DeviceType
  <2>5. /\ installer' \in [Installers -> InstallerType]
        /\ \A x \in Installers \ {r} :
             /\ installer'[x].op = installer[x].op /\ installer'[x].kind = installer[x].kind
             /\ installer'[x].of = installer[x].of
             /\ ~installer'[x].over => ~installer[x].over /\ installer[x].op # "code"
        /\ installer'[r].op = "idle"
    BY <2>2, ClosesIs
  <2>6. PairTypeOK'
    BY <1>1, <1>2, <2>3, <2>4, <2>5, PairTyped, PairTypes
  <2>7. \A e \in Devices : device[e].row # "absent" => e # d /\ device[e].of \in Codes \ {c}
    BY <1>1, <1>5, <2>1 DEF CodesCarried, Unused
  <2>8. CodesCarried'
    <3>1. \A e \in Devices : device'[e].row # "absent" => device'[e].of \in Codes /\ code'[device'[e].of].state = "used"
      BY <1>1, <1>3, <2>3, <2>4, <2>7 DEF CodesCarried
    <3>2. ASSUME NEW x \in Installers, installer'[x].op = "pair"
          PROVE  installer'[x].of \in Codes /\ code'[installer'[x].of].state # "absent"
                 /\ code'[installer'[x].of].kind = installer'[x].kind
      BY <1>1, <1>3, <2>3, <2>5, <3>2 DEF CodesCarried
    <3>3. ASSUME NEW x \in Installers, installer'[x].op \in {"site", "reopen"} PROVE installer'[x].of \in Places
      BY <1>1, <2>5, <3>3 DEF CodesCarried
    <3> QED BY <3>1, <3>2, <3>3 DEF CodesCarried
  <2>9. DevicesOfCodes'
    <3>1. ASSUME NEW e \in Devices, device'[e].row # "absent" PROVE code'[device'[e].of].kind = device'[e].kind
      BY <1>1, <2>3, <2>4, <2>7, <3>1 DEF DevicesOfCodes
    <3>2. ASSUME NEW e \in Devices, NEW g \in Devices \ {e}, device'[e].row # "absent", device'[g].row # "absent"
          PROVE  device'[g].of # device'[e].of
      BY <1>1, <2>4, <2>7, <3>2 DEF DevicesOfCodes
    <3> QED BY <3>1, <3>2 DEF DevicesOfCodes
  <2>10. \A x \in Installers : ~CountsTablets(x)'
    BY <2>5 DEF CountsTablets
  <2>11. SitesPlanned'
    <3>1. InUse' = InUse /\ (InUse \ crowded)' = InUse \ crowded
      BY <1>2 DEF InUse
    <3>2. \A x \in Installers : CountsSites(x)' => CountsSites(x)
      BY <2>5 DEF CountsSites
    <3> QED BY <3>1, <3>2, FewerSites
  <2>12. Redeemable' \subseteq Redeemable \ {c}
    <3>1. \A x \in Codes \ {c}, y \in Installers : Carries(y, x)' => Carries(y, x)
      BY <2>5 DEF Carries
    <3>2. c \notin Redeemable'
      BY <2>3 DEF Redeemable
    <3>3. \A x \in Codes \ {c} : x \in Redeemable' => x \in Redeemable
      BY <1>2, <2>3, <3>1 DEF Redeemable, Carries
    <3> QED BY <3>2, <3>3 DEF Redeemable
  <2>13. Enrolled \in SUBSET Devices /\ Enrolled' \in SUBSET Devices /\ Enrolled' \subseteq Enrolled \cup {d}
    BY <1>2, <2>4 DEF Enrolled, Tablets
  <2>14. /\ Cardinality(Enrolled) \in Nat /\ Cardinality(Enrolled') \in Nat /\ MaxDevices \in Nat
         /\ Cardinality(Enrolled') <= Cardinality(Enrolled) + 1
    <3>1. Enrolled \cup {d} \in SUBSET Devices /\ Enrolled' \in SUBSET (Enrolled \cup {d})
      BY <2>13
    <3>2. Cardinality(Enrolled') <= Cardinality(Enrolled \cup {d}) /\ Cardinality(Enrolled \cup {d}) \in Nat
          /\ Cardinality(Enrolled') \in Nat
      BY <3>1, PlanFinite
    <3>3. Cardinality(Enrolled \cup {d}) <= Cardinality(Enrolled) + 1 /\ Cardinality(Enrolled) \in Nat /\ MaxDevices \in Nat
      BY <2>13, PlanFinite
    <3> QED BY <3>2, <3>3
  <2>15. TabletsPlanned'
    <3>1. CASE c \in Redeemable
      <4>1. Redeemable' = {} /\ Cardinality(Enrolled) < MaxDevices
        BY <1>1, <2>12, <3>1 DEF TabletsPlanned
      <4> QED BY <2>10, <2>14, <4>1 DEF TabletsPlanned
    <3>2. CASE c \notin Redeemable
      <4>1. c \in promised \/ kind # "tablet"
        BY <1>1, <1>2, <1>3, <1>5, <3>2 DEF Redeemable, Unused, CodeType, c
      <4>2. d \notin Enrolled'
        BY <1>2, <2>4, <4>1 DEF Enrolled, Tablets
      <4>3. Enrolled' \subseteq Enrolled
        BY <2>13, <4>2
      <4>4. Cardinality(Enrolled') <= Cardinality(Enrolled)
        BY <2>13, <4>3, PlanFinite
      <4> QED BY <1>1, <2>10, <2>12, <2>14, <4>4 DEF TabletsPlanned
    <3> QED BY <3>1, <3>2
  <2> QED BY <2>6, <2>8, <2>9, <2>11, <2>15, PairParts
<1> QED BY <1>4, <1>5

LEMMA SiteSaveKeepsPlan ==
  ASSUME PairInv, NEW r \in Installers, SiteSaves(r)
  PROVE  PairInv'
<1> DEFINE s == installer[r].of
<1>1. /\ PairTypeOK /\ CodesCarried /\ DevicesOfCodes /\ SitesPlanned
      /\ place \in [Places -> {"absent", "active", "off"}] /\ crowded \subseteq Places
  BY PairParts, PairTyped
<1>2. /\ installer[r].op \in {"site", "reopen"} /\ place' = [place EXCEPT ![s] = "active"]
      /\ crowded' = IF installer[r].over THEN crowded \cup {s} ELSE crowded \ {s}
      /\ Closes(r, {"site", "reopen"}) /\ UNCHANGED <<code, device, promised>>
  BY DEF SiteSaves
<1>3. s \in Places
  BY <1>1, <1>2 DEF CodesCarried
<1> HIDE DEF s
<1>4. /\ place' \in [Places -> {"absent", "active", "off"}] /\ crowded' \subseteq Places
      /\ InUse' = InUse \cup {s}
  BY <1>1, <1>2, <1>3 DEF InUse
<1>5. /\ installer' \in [Installers -> InstallerType]
      /\ \A x \in Installers \ {r} :
           /\ installer'[x].op = installer[x].op /\ installer'[x].kind = installer[x].kind
           /\ installer'[x].of = installer[x].of
           /\ ~installer'[x].over => ~installer[x].over /\ installer[x].op \notin {"site", "reopen"}
      /\ installer'[r].op = "idle"
  BY <1>2, ClosesIs
<1>6. PairTypeOK'
  BY <1>1, <1>2, <1>4, <1>5, PairTyped, PairTypes
<1>7. CodesCarried'
  <2>1. ASSUME NEW x \in Installers, installer'[x].op = "pair"
        PROVE  installer'[x].of \in Codes /\ code'[installer'[x].of].state # "absent"
               /\ code'[installer'[x].of].kind = installer'[x].kind
    BY <1>1, <1>2, <1>5, <2>1 DEF CodesCarried
  <2>2. ASSUME NEW x \in Installers, installer'[x].op \in {"site", "reopen"} PROVE installer'[x].of \in Places
    BY <1>1, <1>5, <2>2 DEF CodesCarried
  <2> QED BY <1>1, <1>2, <2>1, <2>2 DEF CodesCarried
<1>8. DevicesOfCodes'
  BY <1>1, <1>2 DEF DevicesOfCodes
<1>9. TabletsPlanned'
  <2>1. Tablets' = Tablets /\ Enrolled' = Enrolled
    BY <1>2 DEF Tablets, Enrolled
  <2>2. \A x \in Installers : \A c \in Codes : Carries(x, c)' => Carries(x, c)
    BY <1>5 DEF Carries
  <2>3. Redeemable' \subseteq Redeemable
    BY <1>2, <2>2 DEF Redeemable, Carries
  <2>4. \A x \in Installers : CountsTablets(x)' => CountsTablets(x)
    BY <1>5 DEF CountsTablets
  <2> QED BY <2>1, <2>3, <2>4, FewerTablets
<1>10. \A x \in Installers : ~CountsSites(x)'
  BY <1>5 DEF CountsSites
<1>11. Cardinality((InUse \ crowded)') <= MaxSites
  <2>1. InUse \in SUBSET Places /\ InUse \ crowded \in SUBSET Places
    BY DEF InUse
  <2>2. CASE installer[r].over
    <3>1. (InUse \ crowded)' \in SUBSET (InUse \ crowded)
      BY <1>2, <1>4, <2>2
    <3>2. /\ Cardinality((InUse \ crowded)') <= Cardinality(InUse \ crowded) /\ MaxSites \in Nat
          /\ Cardinality((InUse \ crowded)') \in Nat /\ Cardinality(InUse \ crowded) \in Nat
      BY <2>1, <3>1, PlanFinite
    <3> QED BY <1>1, <3>2 DEF SitesPlanned
  <2>3. CASE ~installer[r].over
    <3>1. Cardinality(InUse) < MaxSites
      BY <1>1, <1>2, <2>3 DEF SitesPlanned, CountsSites
    <3>2. InUse \cup {s} \in SUBSET Places /\ (InUse \ crowded)' \in SUBSET (InUse \cup {s})
      BY <1>3, <1>4, <2>1
    <3>3. /\ Cardinality((InUse \ crowded)') <= Cardinality(InUse \cup {s}) /\ Cardinality((InUse \ crowded)') \in Nat
          /\ Cardinality(InUse \cup {s}) \in Nat
      BY <3>2, PlanFinite
    <3>4. Cardinality(InUse \cup {s}) <= Cardinality(InUse) + 1 /\ Cardinality(InUse) \in Nat /\ MaxSites \in Nat
      BY <1>3, <2>1, PlanFinite
    <3> QED BY <3>1, <3>3, <3>4
  <2> QED BY <2>2, <2>3
<1>12. SitesPlanned'
  BY <1>10, <1>11 DEF SitesPlanned
<1> QED BY <1>6, <1>7, <1>8, <1>9, <1>12, PairParts

LEMMA PairStep == ASSUME PairInv, [PairNext]_pairVars PROVE PairInv'
<1>1. /\ PairTypeOK /\ CodesCarried /\ DevicesOfCodes /\ SitesPlanned /\ TabletsPlanned
      /\ code \in [Codes -> CodeType] /\ device \in [Devices -> DeviceType]
      /\ place \in [Places -> {"absent", "active", "off"}] /\ installer \in [Installers -> InstallerType]
      /\ promised \subseteq Codes /\ crowded \subseteq Places
      /\ \A c \in Codes : code[c] \in CodeType
      /\ \A d \in Devices : device[d] \in DeviceType
  BY PairParts, PairTyped
<1>2. CASE UNCHANGED pairVars
  <2>1. UNCHANGED <<code, device, place, installer, promised, crowded>>
    BY <1>2 DEF pairVars
  <2>2. PairTypeOK' /\ CodesCarried' /\ DevicesOfCodes'
    BY <1>1, <2>1 DEF PairTypeOK, CodesCarried, DevicesOfCodes
  <2>3. TabletsPlanned' /\ SitesPlanned'
    BY <1>1, <2>1 DEF TabletsPlanned, SitesPlanned, CountsTablets, CountsSites, Tablets, Redeemable, Enrolled, InUse
  <2> QED BY <2>2, <2>3, PairParts
<1>3. ASSUME NEW c \in Codes, CodeExpires(c) PROVE PairInv'
  <2>1. /\ code[c].state = "issued" /\ code' = [code EXCEPT ![c].state = "expired"]
        /\ UNCHANGED <<device, place, installer, promised, crowded>>
    BY <1>3 DEF CodeExpires
  <2>2. /\ code' \in [Codes -> CodeType] /\ code'[c].state = "expired" /\ code'[c].kind = code[c].kind
        /\ \A x \in Codes \ {c} : code'[x] = code[x]
    BY <1>1, <2>1 DEF CodeType
  <2>3. PairTypeOK'
    BY <1>1, <2>1, <2>2, PairTypes
  <2>4. CodesCarried'
    BY <1>1, <2>1, <2>2 DEF CodesCarried
  <2>5. DevicesOfCodes'
    BY <1>1, <2>1, <2>2 DEF DevicesOfCodes, CodesCarried
  <2>6. Tablets' = Tablets /\ Enrolled' = Enrolled /\ InUse' = InUse /\ (InUse \ crowded)' = InUse \ crowded
    BY <2>1 DEF Tablets, Enrolled, InUse
  <2>7. Redeemable' \subseteq Redeemable
    BY <2>1, <2>2 DEF Redeemable
  <2>8. \A x \in Installers : (CountsTablets(x)' => CountsTablets(x)) /\ (CountsSites(x)' => CountsSites(x))
    BY <2>1 DEF CountsTablets, CountsSites
  <2>9. TabletsPlanned' /\ SitesPlanned'
    BY <2>6, <2>7, <2>8, FewerTablets, FewerSites
  <2> QED BY <2>3, <2>4, <2>5, <2>9, PairParts
<1>4. ASSUME NEW d \in Devices, Revokes(d) PROVE PairInv'
  <2>1. /\ device[d].row = "live" /\ device' = [device EXCEPT ![d].row = "revoked"]
        /\ UNCHANGED <<code, place, installer, promised, crowded>>
    BY <1>4 DEF Revokes
  <2>2. /\ device' \in [Devices -> DeviceType] /\ device'[d].row = "revoked"
        /\ \A e \in Devices : /\ device'[e].kind = device[e].kind /\ device'[e].of = device[e].of
                              /\ e # d => device'[e].row = device[e].row
    BY <1>1, <2>1 DEF DeviceType
  <2>3. \A e \in Devices : /\ device'[e].row # "absent" => device[e].row # "absent"
                           /\ device'[e].row = "live" => device[e].row = "live"
    BY <2>1, <2>2
  <2>4. PairTypeOK'
    BY <1>1, <2>1, <2>2, PairTypes
  <2>5. CodesCarried'
    BY <1>1, <2>1, <2>2, <2>3 DEF CodesCarried
  <2>6. DevicesOfCodes'
    BY <1>1, <2>1, <2>2, <2>3 DEF DevicesOfCodes
  <2>7. Tablets' \subseteq Tablets /\ InUse' = InUse /\ (InUse \ crowded)' = InUse \ crowded
    BY <2>1, <2>2, <2>3 DEF Tablets, InUse
  <2>8. Enrolled' \subseteq Enrolled /\ Redeemable' \subseteq Redeemable
    BY <2>1, <2>2, <2>7 DEF Enrolled, Redeemable
  <2>9. \A x \in Installers : (CountsTablets(x)' => CountsTablets(x)) /\ (CountsSites(x)' => CountsSites(x))
    BY <2>1 DEF CountsTablets, CountsSites
  <2>10. TabletsPlanned' /\ SitesPlanned'
    BY <2>7, <2>8, <2>9, FewerTablets, FewerSites
  <2> QED BY <2>4, <2>5, <2>6, <2>10, PairParts
<1>5. ASSUME NEW s \in Places, SiteCloses(s) PROVE PairInv'
  <2>1. /\ place' = [place EXCEPT ![s] = "off"] /\ UNCHANGED <<code, device, installer, promised, crowded>>
    BY <1>5 DEF SiteCloses
  <2>2. PairTypeOK'
    <3>1. place' \in [Places -> {"absent", "active", "off"}]
      BY <1>1, <2>1
    <3> QED BY <1>1, <2>1, <3>1, PairTypes
  <2>3. CodesCarried' /\ DevicesOfCodes'
    BY <1>1, <2>1 DEF CodesCarried, DevicesOfCodes
  <2>4. Tablets' = Tablets /\ Enrolled' = Enrolled /\ Redeemable' = Redeemable
    BY <2>1 DEF Tablets, Enrolled, Redeemable
  <2>5. InUse' \subseteq InUse /\ (InUse \ crowded)' \subseteq InUse \ crowded
    BY <1>1, <2>1 DEF InUse
  <2>6. \A x \in Installers : (CountsTablets(x)' => CountsTablets(x)) /\ (CountsSites(x)' => CountsSites(x))
    BY <2>1 DEF CountsTablets, CountsSites
  <2>7. TabletsPlanned' /\ SitesPlanned'
    BY <2>4, <2>5, <2>6, FewerTablets, FewerSites
  <2> QED BY <2>2, <2>3, <2>7, PairParts
<1>6. ASSUME NEW r \in Installers, CodeCounts(r) \/ ReaderCode(r) PROVE PairInv'
  <2>1. /\ UNCHANGED <<code, device, place, promised, crowded>>
        /\ \/ RoomForTablet /\ installer' = [installer EXCEPT ![r] = [Off EXCEPT !.op = "code"]]
           \/ installer' = [installer EXCEPT ![r] = [Off EXCEPT !.op = "code", !.kind = "reader"]]
    BY <1>6 DEF CodeCounts, ReaderCode, Begins
  <2>2. PICK kind \in {"tablet", "reader"} :
          /\ installer' = [installer EXCEPT ![r] = [op |-> "code", kind |-> kind, of |-> 0, over |-> FALSE]]
          /\ kind = "tablet" => RoomForTablet
    BY <2>1 DEF Off
  <2> DEFINE q == [op |-> "code", kind |-> kind, of |-> 0, over |-> FALSE]
  <2>3. q \in InstallerType /\ q.op = "code" /\ q.kind = kind
    BY DEF InstallerType
  <2> HIDE DEF q
  <2>4. installer' = [installer EXCEPT ![r] = q]
    BY <2>2 DEF q
  <2> QED BY <2>1, <2>2, <2>3, <2>4, RequestKeepsPlan
<1>7. ASSUME NEW r \in Installers, NEW kind \in {"tablet", "reader"}, PairReads(r, kind) PROVE PairInv'
  <2>1. PICK c \in Codes : /\ code[c] = [state |-> "issued", kind |-> kind]
                           /\ installer' = [installer EXCEPT ![r] = [Off EXCEPT !.op = "pair", !.kind = kind, !.of = c]]
    BY <1>7 DEF PairReads, Begins
  <2> DEFINE q == [Off EXCEPT !.op = "pair", !.kind = kind, !.of = c]
  <2>2. installer' = [installer EXCEPT ![r] = q]
    BY <2>1
  <2>3. q \in InstallerType /\ q.op = "pair" /\ q.kind = kind /\ q.of = c
    BY OffIs DEF InstallerType
  <2> HIDE DEF q
  <2> QED BY <1>7, <2>1, <2>2, <2>3, RequestKeepsPlan DEF PairReads
<1>8. ASSUME NEW r \in Installers, NEW s \in Places, SiteCounts(r, s) \/ ReopenCounts(r, s) PROVE PairInv'
  <2>1. /\ RoomForSite /\ UNCHANGED <<code, device, place, promised, crowded>>
        /\ \E op \in {"site", "reopen"} : installer' = [installer EXCEPT ![r] = [Off EXCEPT !.op = op, !.of = s]]
    BY <1>8 DEF SiteCounts, ReopenCounts, Begins
  <2>2. PICK op \in {"site", "reopen"} : installer' = [installer EXCEPT ![r] = [Off EXCEPT !.op = op, !.of = s]]
    BY <2>1
  <2> DEFINE q == [Off EXCEPT !.op = op, !.of = s]
  <2>3. installer' = [installer EXCEPT ![r] = q]
    BY <2>2
  <2>4. q \in InstallerType /\ q.op = op /\ q.of = s
    BY OffIs DEF InstallerType
  <2> HIDE DEF q
  <2> QED BY <2>1, <2>3, <2>4, RequestKeepsPlan
<1>9. ASSUME NEW r \in Installers, SiteRefused(r) PROVE PairInv'
  <2>1. installer' = [installer EXCEPT ![r] = Off] /\ UNCHANGED <<code, device, place, promised, crowded>>
    BY <1>9 DEF SiteRefused
  <2> QED BY <2>1, OffIs, RequestKeepsPlan
<1> QED BY <1>2, <1>3, <1>4, <1>5, <1>6, <1>7, <1>8, <1>9, CodeSaveKeepsPlan, PairingKeepsPlan, SiteSaveKeepsPlan
        DEF PairNext

-----------------------------------------------------------------------------
(* Texts: proofs *)

LEMMA TextsInit == TextInit => TextInv
<1> SUFFICES ASSUME TextInit PROVE TextInv
  OBVIOUS
<1>1. TextTypeOK
  BY TextsAssumption DEF TextInit, TextTypeOK, Away, Blank
<1>2. TextShapes
  BY TextsAssumption DEF TextInit, TextShapes, GuestRequest, Away, Blank
<1>3. GuestKnows /\ AcceptedInForce
  BY DEF TextInit, GuestKnows, AcceptedInForce, Away
<1> QED BY <1>1, <1>2, <1>3 DEF TextInv

LEMMA InForceTyped ==
  ASSUME NEW docs \in [Docs -> [row : {"absent", "active", "off"}, version : 0..MaxVersion]]
  PROVE  InForce(docs) \subseteq Texts /\ Named(InForce(docs)) \subseteq Docs
<1>1. InForce(docs) \subseteq Texts
  BY TextsAssumption DEF InForce, Texts
<1> QED BY <1>1 DEF Named, Texts

\* A text of a document that is in force is its latest one.
LEMMA InForceIs ==
  ASSUME NEW docs, NEW d \in Docs
  PROVE  /\ d \in Named(InForce(docs)) <=> docs[d].row = "active" /\ docs[d].version > 0
         /\ docs[d].row = "active" /\ docs[d].version > 0 => <<d, docs[d].version>> \in InForce(docs)
<1> DEFINE shown == {x \in Docs : docs[x].row = "active" /\ docs[x].version > 0}
<1>1. InForce(docs) = {<<x, docs[x].version>> : x \in shown}
  BY DEF InForce
<1>2. d \in shown => <<d, docs[d].version>> \in InForce(docs)
  BY <1>1
<1>3. d \in shown => d \in Named(InForce(docs))
  <2>1. <<d, docs[d].version>>[1] = d
    OBVIOUS
  <2> QED BY <1>2, <2>1 DEF Named
<1>4. \A t \in InForce(docs) : t[1] \in shown
  BY <1>1
<1>5. d \in Named(InForce(docs)) => d \in shown
  BY <1>4 DEF Named
<1> QED BY <1>2, <1>3, <1>5

\* What the texts of the site may do while a guest's request goes on.
TextsMove ==
  /\ notice' >= notice /\ notice' \in 1..MaxVersion
  /\ doc' \in [Docs -> [row : {"absent", "active", "off"}, version : 0..MaxVersion]]
  /\ \A d \in Docs : doc'[d].version >= doc[d].version
  /\ editor' \in [Editors -> [what : Docs \cup {"notice", "none"}, last : 0..MaxVersion]]
  /\ \A e \in Editors : editor'[e].what # "none" => editor'[e].last < MaxVersion
  /\ UNCHANGED <<screen, pre>>
  /\ (Notes(doc') \/ UNCHANGED <<doc, guest>>)

LEMMA ConsoleMoves ==
  ASSUME TextInv,
         \/ \E d \in Docs : DocCreated(d) \/ DocSwitched(d)
         \/ \E e \in Editors : PublishReads(e) \/ PublishInserts(e)
  PROVE  TextsMove
<1>1. /\ notice \in 1..MaxVersion /\ MaxVersion \in Nat
      /\ doc \in [Docs -> [row : {"absent", "active", "off"}, version : 0..MaxVersion]]
      /\ editor \in [Editors -> [what : Docs \cup {"notice", "none"}, last : 0..MaxVersion]]
      /\ \A e \in Editors : editor[e].what # "none" => editor[e].last < MaxVersion
  BY TextsAssumption DEF TextInv, TextTypeOK, TextShapes
<1>2. ASSUME NEW d \in Docs, DocCreated(d) \/ DocSwitched(d) PROVE TextsMove
  BY <1>1, <1>2 DEF DocCreated, DocSwitched, TextsMove
<1>3. ASSUME NEW e \in Editors, PublishReads(e) PROVE TextsMove
  <2>1. PICK what \in Docs \cup {"notice"} :
          LET last == IF what = "notice" THEN notice ELSE doc[what].version IN
          last < MaxVersion /\ editor' = [editor EXCEPT ![e] = [what |-> what, last |-> last]]
    BY <1>3 DEF PublishReads
  <2>2. (IF what = "notice" THEN notice ELSE doc[what].version) \in 0..MaxVersion
    BY <1>1
  <2> QED BY <1>1, <1>3, <2>1, <2>2 DEF PublishReads, TextsMove
<1>4. ASSUME NEW e \in Editors, PublishInserts(e) PROVE TextsMove
  <2>1. /\ editor' = [editor EXCEPT ![e] = Blank] /\ UNCHANGED <<screen, pre>> /\ Notes(doc')
        /\ editor[e].what # "none"
    BY <1>4 DEF PublishInserts
  <2>2. /\ editor' \in [Editors -> [what : Docs \cup {"notice", "none"}, last : 0..MaxVersion]]
        /\ \A x \in Editors : editor'[x].what # "none" => editor'[x].last < MaxVersion
    BY <1>1, <2>1 DEF Blank
  <2>3. editor[e].last \in 0..MaxVersion /\ editor[e].last < MaxVersion
    BY <1>1, <2>1
  <2>4. /\ notice' >= notice /\ notice' \in 1..MaxVersion
        /\ doc' \in [Docs -> [row : {"absent", "active", "off"}, version : 0..MaxVersion]]
        /\ \A d \in Docs : doc'[d].version >= doc[d].version
    <3>1. CASE editor[e].what = "notice" /\ doc' = doc
               /\ notice' = (IF editor[e].last = notice THEN editor[e].last + 1 ELSE notice)
      BY <1>1, <2>3, <3>1
    <3>2. CASE /\ editor[e].what \in Docs /\ notice' = notice
               /\ doc' = IF editor[e].last = doc[editor[e].what].version
                         THEN [doc EXCEPT ![editor[e].what].version = editor[e].last + 1] ELSE doc
      BY <1>1, <2>3, <3>2
    <3> QED BY <1>4, <3>1, <3>2 DEF PublishInserts
  <2> QED BY <2>1, <2>2, <2>4 DEF TextsMove
<1> QED BY <1>2, <1>3, <1>4

LEMMA MoveKeepsTexts == ASSUME TextInv, TextsMove PROVE TextInv'
<1>1. /\ notice \in 1..MaxVersion /\ MaxVersion \in Nat
      /\ doc \in [Docs -> [row : {"absent", "active", "off"}, version : 0..MaxVersion]]
      /\ guest \in GuestRequest
      /\ screen \in [notice : 0..MaxVersion, texts : SUBSET Texts]
      /\ pre \in [done : BOOLEAN, texts : SUBSET Texts]
  BY TextsAssumption DEF TextInv, TextTypeOK, TextShapes
<1>2. /\ notice' >= notice /\ notice' \in 1..MaxVersion
      /\ doc' \in [Docs -> [row : {"absent", "active", "off"}, version : 0..MaxVersion]]
      /\ \A d \in Docs : doc'[d].version >= doc[d].version
      /\ screen' = screen /\ pre' = pre
  BY DEF TextsMove
<1>3. InForce(doc') \subseteq Texts /\ Named(InForce(doc')) \subseteq Docs
  BY <1>2, InForceTyped
<1>4. /\ guest'.op = guest.op /\ guest'.pc = guest.pc /\ guest'.asked = guest.asked /\ guest'.from = guest.from
      /\ guest' \in GuestRequest /\ (guest = Away <=> guest' = Away)
      /\ guest.seen \subseteq guest'.seen /\ guest'.always \subseteq guest.always
      /\ guest # Away => InForce(doc') \subseteq guest'.seen /\ guest'.always \subseteq Named(InForce(doc'))
  <2>1. (guest.op = "idle") <=> (guest = Away)
    BY DEF TextInv, GuestKnows
  <2>2. CASE guest.op = "idle"
    <3>1. guest = Away /\ guest' = guest
      BY <2>1, <2>2 DEF TextsMove, Notes
    <3> QED BY <3>1, <1>1
  <2>3. CASE guest.op # "idle" /\ Notes(doc')
    <3>1. guest' = [guest EXCEPT !.seen = @ \cup InForce(doc'), !.always = @ \cap Named(InForce(doc'))]
      BY <2>3 DEF Notes
    <3>2. guest' \in GuestRequest
      BY <1>1, <1>3, <3>1 DEF GuestRequest
    <3>3. /\ guest'.op = guest.op /\ guest'.pc = guest.pc /\ guest'.asked = guest.asked /\ guest'.from = guest.from
          /\ guest'.seen = guest.seen \cup InForce(doc') /\ guest'.always = guest.always \cap Named(InForce(doc'))
      BY <1>1, <3>1 DEF GuestRequest
    <3>4. guest # Away /\ guest' # Away
      BY <2>1, <2>3, <3>3 DEF Away
    <3> QED BY <3>2, <3>3, <3>4
  <2>4. CASE guest.op # "idle" /\ UNCHANGED <<doc, guest>>
    BY <1>1, <2>1, <2>4 DEF TextInv, GuestKnows
  <2> QED BY <2>2, <2>3, <2>4 DEF TextsMove
<1>5. TextTypeOK' /\ TextShapes'
  BY <1>1, <1>2, <1>4 DEF TextInv, TextTypeOK, TextShapes, TextsMove, GuestRequest
<1>6. GuestKnows'
  <2>1. \A t \in screen.texts : t[1] \in Docs /\ t[2] \in Nat
    BY <1>1 DEF Texts
  <2>2. \A t \in screen.texts : t[2] <= doc'[t[1]].version
    BY <1>1, <1>2, <2>1 DEF TextInv, GuestKnows
  <2>3. guest.pc = "texts" =>
          \A t \in screen.texts : t[1] \in guest.asked /\ t[2] = doc'[t[1]].version => t \in guest'.seen
    <3>1. guest.pc = "texts" =>
            \A t \in screen.texts : t[1] \in guest.asked /\ t[2] = doc[t[1]].version => t \in guest.seen
      BY DEF TextInv, GuestKnows
    <3>2. \A t \in screen.texts : t[2] <= doc[t[1]].version
      BY DEF TextInv, GuestKnows
    <3>3. \A t \in screen.texts : t[2] = doc'[t[1]].version => t[2] = doc[t[1]].version
      <4>1. \A d \in Docs : doc[d].version \in Nat /\ doc'[d].version \in Nat /\ doc'[d].version >= doc[d].version
        BY <1>1, <1>2
      <4> SUFFICES ASSUME NEW t \in screen.texts, t[2] = doc'[t[1]].version PROVE t[2] = doc[t[1]].version
        OBVIOUS
      <4> QED BY <2>1, <3>2, <4>1
    <3> QED BY <1>4, <3>1, <3>3
  <2>4. guest.from \in Nat /\ screen.notice \in Nat
    BY <1>1 DEF GuestRequest
  <2> QED BY <1>1, <1>2, <1>4, <2>2, <2>3, <2>4 DEF TextInv, GuestKnows
<1>7. AcceptedInForce'
  <2>1. guest.from \in Nat /\ screen.notice \in Nat
    BY <1>1 DEF GuestRequest
  <2> QED BY <1>1, <1>2, <1>4, <2>1 DEF TextInv, AcceptedInForce
<1> QED BY <1>5, <1>6, <1>7 DEF TextInv

LEMMA GuestKeepsTexts ==
  ASSUME TextInv,
         Loads \/ Invited \/ Submits \/ CheckIn \/ Arrives \/ ReadsNotice \/ ReadsDocs \/ ReadsTexts \/ Persists
  PROVE  TextInv'
<1>1. /\ notice \in 1..MaxVersion /\ MaxVersion \in Nat
      /\ doc \in [Docs -> [row : {"absent", "active", "off"}, version : 0..MaxVersion]]
      /\ guest \in GuestRequest
      /\ screen \in [notice : 0..MaxVersion, texts : SUBSET Texts]
      /\ pre \in [done : BOOLEAN, texts : SUBSET Texts]
  BY TextsAssumption DEF TextInv, TextTypeOK, TextShapes
<1>2. InForce(doc) \subseteq Texts /\ Named(InForce(doc)) \subseteq Docs
  BY <1>1, InForceTyped
<1>3. Away \in GuestRequest
  BY <1>1 DEF Away, GuestRequest
<1>4. UNCHANGED <<notice, doc, editor>>
  BY DEF Loads, Invited, Submits, CheckIn, Arrives, Enters, ReadsNotice, ReadsDocs, ReadsTexts, Persists
<1>5. ASSUME guest' \in GuestRequest, screen' \in [notice : 0..MaxVersion, texts : SUBSET Texts],
             pre' \in [done : BOOLEAN, texts : SUBSET Texts]
      PROVE  TextTypeOK' /\ TextShapes'
  BY <1>4, <1>5 DEF TextInv, TextTypeOK, TextShapes, GuestRequest
<1>6. CASE Loads
  <2>1. guest = Away /\ guest' = guest /\ pre' = pre /\ screen' = [notice |-> notice, texts |-> InForce(doc)]
    BY <1>6 DEF Loads, TextInv, GuestKnows
  <2>2. screen' \in [notice : 0..MaxVersion, texts : SUBSET Texts]
    BY <1>1, <1>2, <2>1
  <2>3. \A t \in InForce(doc) : t[2] <= doc[t[1]].version
    BY <1>1 DEF InForce
  <2>4. GuestKnows' /\ AcceptedInForce'
    BY <1>4, <2>1, <2>3 DEF GuestKnows, AcceptedInForce, Away
  <2> QED BY <1>1, <1>5, <2>1, <2>2, <2>4 DEF TextInv
<1>7. CASE Invited
  <2>1. guest = Away /\ guest' = guest /\ screen' = screen /\ pre' = [done |-> FALSE, texts |-> {}]
    BY <1>7 DEF Invited, TextInv, GuestKnows
  <2>2. GuestKnows' /\ AcceptedInForce'
    BY <1>4, <2>1 DEF TextInv, GuestKnows, AcceptedInForce, Away
  <2> QED BY <1>1, <1>5, <2>1, <2>2 DEF TextInv
<1>8. ASSUME NEW op \in {"submit", "checkin", "arrive"}, NEW pc \in {"notice", "docs"}, Enters(op, pc),
             (pc = "notice") <=> (op # "arrive")
      PROVE  TextInv'
  <2>1. /\ guest' = [op |-> op, pc |-> pc, asked |-> {}, from |-> notice, seen |-> InForce(doc),
                     always |-> Named(InForce(doc))]
        /\ screen' = screen /\ pre' = pre
    BY <1>8 DEF Enters
  <2>2. guest' \in GuestRequest
    BY <1>1, <1>2, <2>1 DEF GuestRequest
  <2>3. GuestKnows' /\ AcceptedInForce'
    BY <1>1, <1>4, <1>8, <2>1 DEF TextInv, GuestKnows, AcceptedInForce, Away
  <2> QED BY <1>1, <1>5, <2>1, <2>2, <2>3 DEF TextInv
<1>9. CASE ReadsNotice
  <2>1. screen' = screen /\ pre' = pre /\ guest.pc = "notice" /\ guest # Away
    BY <1>9 DEF ReadsNotice, Away
  <2>2. CASE guest' = [guest EXCEPT !.pc = "docs"] /\ CurrentNotice
    <3>1. guest' \in GuestRequest
      BY <1>1, <2>2 DEF GuestRequest
    <3>2. /\ guest'.op = guest.op /\ guest'.pc = "docs" /\ guest'.from = guest.from /\ guest'.seen = guest.seen
          /\ guest'.always = guest.always /\ guest' # Away
      BY <1>1, <2>2 DEF GuestRequest, Away
    <3>3. guest.from \in 0..notice /\ screen.notice = notice
      BY <1>1, <2>1, <2>2 DEF TextInv, GuestKnows, CurrentNotice, GuestRequest
    <3>4. guest.op # "idle"
      BY <2>1 DEF TextInv, GuestKnows
    <3>5. GuestKnows' /\ AcceptedInForce'
      BY <1>1, <1>4, <2>1, <3>2, <3>3, <3>4 DEF TextInv, GuestKnows, AcceptedInForce
    <3> QED BY <1>1, <1>5, <2>1, <3>1, <3>5 DEF TextInv
  <2>3. CASE guest' = Away
    <3>1. GuestKnows' /\ AcceptedInForce'
      BY <1>4, <2>1, <2>3 DEF TextInv, GuestKnows, AcceptedInForce, Away
    <3> QED BY <1>1, <1>3, <1>5, <2>1, <2>3, <3>1 DEF TextInv
  <2> QED BY <1>9, <2>2, <2>3 DEF ReadsNotice
<1>10. CASE ReadsDocs
  <2>1. /\ screen' = screen /\ pre' = pre /\ guest.pc = "docs" /\ guest # Away
        /\ guest' = [guest EXCEPT !.pc = "texts", !.asked = {d \in Docs : doc[d].row = "active"}]
    BY <1>10 DEF ReadsDocs, Away
  <2>2. guest' \in GuestRequest
    BY <1>1, <2>1 DEF GuestRequest
  <2>3. /\ guest'.op = guest.op /\ guest'.pc = "texts" /\ guest'.from = guest.from /\ guest'.seen = guest.seen
        /\ guest'.always = guest.always /\ guest'.asked = {d \in Docs : doc[d].row = "active"} /\ guest' # Away
    BY <1>1, <2>1 DEF GuestRequest, Away
  <2>4. guest.always \subseteq {d \in Docs : doc[d].row = "active"}
    <3>1. guest.always \subseteq Named(InForce(doc))
      BY <2>1 DEF TextInv, GuestKnows
    <3> QED BY <1>2, <3>1, InForceIs
  <2>5. \A t \in screen.texts : doc[t[1]].row = "active" /\ t[2] = doc[t[1]].version => t \in guest.seen
    <3>1. \A t \in Texts : t = <<t[1], t[2]>> /\ t[1] \in Docs /\ t[2] > 0
      BY DEF Texts
    <3>2. InForce(doc) \subseteq guest.seen
      BY <2>1 DEF TextInv, GuestKnows
    <3> QED BY <1>1, <3>1, <3>2, InForceIs
  <2>6. guest.op # "idle"
    BY <2>1 DEF TextInv, GuestKnows
  <2>7. GuestKnows' /\ AcceptedInForce'
    BY <1>1, <1>4, <2>1, <2>3, <2>4, <2>5, <2>6 DEF TextInv, GuestKnows, AcceptedInForce
  <2> QED BY <1>1, <1>5, <2>1, <2>2, <2>7 DEF TextInv
<1>11. CASE ReadsTexts
  <2>1. screen' = screen /\ pre' = pre /\ guest.pc = "texts" /\ guest # Away
    BY <1>11 DEF ReadsTexts, Away
  <2>2. CASE guest' = Away
    <3>1. GuestKnows' /\ AcceptedInForce'
      BY <1>4, <2>1, <2>2 DEF TextInv, GuestKnows, AcceptedInForce, Away
    <3> QED BY <1>1, <1>3, <1>5, <2>1, <2>2, <3>1 DEF TextInv
  <2>3. ASSUME guest' = [guest EXCEPT !.pc = "persist"],
               IF guest.op = "arrive" THEN Covers(Required, pre.texts) ELSE AssertAccepted(Required, screen.texts)
        PROVE  TextInv'
    <3>1. guest' \in GuestRequest
      BY <1>1, <2>3 DEF GuestRequest
    <3>2. /\ guest'.op = guest.op /\ guest'.pc = "persist" /\ guest'.from = guest.from /\ guest'.seen = guest.seen
          /\ guest'.always = guest.always /\ guest' # Away
      BY <1>1, <2>3 DEF GuestRequest, Away
    <3>3. guest.always \subseteq Named(Required)
      <4>1. guest.always \subseteq Named(InForce(doc)) /\ guest.always \subseteq guest.asked /\ guest.always \subseteq Docs
        BY <1>1, <2>1 DEF TextInv, GuestKnows, GuestRequest
      <4>2. \A d \in guest.always : d \in guest.asked /\ doc[d].version > 0
        BY <4>1, InForceIs
      <4>3. \A d \in guest.always : <<d, doc[d].version>> \in Required /\ <<d, doc[d].version>>[1] = d
        BY <4>1, <4>2 DEF Required
      <4> QED BY <4>3 DEF Named
    <3>4. guest.op = "arrive" => guest.always \subseteq Named(pre.texts)
      BY <2>3, <3>3 DEF Covers
    <3>5. guest.op # "arrive" => guest.always \subseteq Named(screen.texts) /\ screen.texts \subseteq guest.seen
      <4> SUFFICES ASSUME guest.op # "arrive"
                   PROVE  guest.always \subseteq Named(screen.texts) /\ screen.texts \subseteq guest.seen
        OBVIOUS
      <4>1. screen.texts = Required
        BY <2>3 DEF AssertAccepted
      <4>2. \A t \in Required : t[1] \in guest.asked /\ t[2] = doc[t[1]].version
        BY DEF Required
      <4>3. \A t \in screen.texts : t[1] \in guest.asked /\ t[2] = doc[t[1]].version => t \in guest.seen
        BY <2>1 DEF TextInv, GuestKnows
      <4> QED BY <3>3, <4>1, <4>2, <4>3
    <3>6. guest.op # "arrive" => screen.notice \in guest.from..notice
      BY <2>1 DEF TextInv, GuestKnows
    <3>7. guest.op # "idle"
      BY <2>1 DEF TextInv, GuestKnows
    <3>8. GuestKnows'
      BY <1>1, <1>4, <2>1, <3>2, <3>6, <3>7 DEF TextInv, GuestKnows
    <3>9. AcceptedInForce'
      BY <1>4, <2>1, <3>2, <3>4, <3>5, <3>6 DEF AcceptedInForce
    <3> QED BY <1>1, <1>5, <2>1, <3>1, <3>8, <3>9 DEF TextInv
  <2> QED BY <1>11, <2>2, <2>3 DEF ReadsTexts
<1>12. CASE Persists
  <2>1. guest' = Away /\ screen' = screen /\ pre' \in {pre, [done |-> TRUE, texts |-> screen.texts]}
    BY <1>12 DEF Persists
  <2>2. pre' \in [done : BOOLEAN, texts : SUBSET Texts]
    <3>1. [done |-> TRUE, texts |-> screen.texts] \in [done : BOOLEAN, texts : SUBSET Texts]
      BY <1>1
    <3> QED BY <1>1, <2>1, <3>1
  <2>3. GuestKnows' /\ AcceptedInForce'
    BY <1>4, <2>1 DEF TextInv, GuestKnows, AcceptedInForce, Away
  <2> QED BY <1>1, <1>3, <1>5, <2>1, <2>2, <2>3 DEF TextInv
<1> QED BY <1>6, <1>7, <1>8, <1>9, <1>10, <1>11, <1>12 DEF Submits, CheckIn, Arrives

LEMMA TextsStep == ASSUME TextInv, [TextNext]_textVars PROVE TextInv'
<1>1. CASE UNCHANGED textVars
  BY <1>1 DEF textVars, TextInv, TextTypeOK, TextShapes, GuestKnows, AcceptedInForce, InForce
<1>2. CASE TextNext
  BY <1>2, ConsoleMoves, MoveKeepsTexts, GuestKeepsTexts DEF TextNext
<1> QED BY <1>1, <1>2

-----------------------------------------------------------------------------
(* The directory: proofs *)

ReadType == [sites : SUBSET Offices, employee : Workers \cup {"none"}, name : 0..MaxName]
RequestType == [op : {"idle", "create", "update"}, pc : {"idle", "employee", "save"},
                id : HostIds \cup {"none"}, sees : SUBSET Offices, read : ReadType,
                employee : Workers \cup {"keep"}, name : 0..MaxName, over : BOOLEAN]
HostType == [row : BOOLEAN, sites : SUBSET Offices, employee : Workers \cup {"none"}, name : 0..MaxName]
WorkerType == [row : BOOLEAN, name : 0..MaxName]

\* What one request that is not outdated is about to save.
FreshRequest(q) ==
  /\ (q.op = "idle") <=> (q.pc = "idle")
  /\ q.op # "idle" => q.id \in HostIds
  /\ q.pc = "employee" => q.employee \in Workers
  /\ q.pc = "save" /\ ~q.over =>
       /\ q.employee \in Workers => worker[q.employee].row /\ worker[q.employee].name = q.name
       /\ q.employee = "keep" /\ q.read.employee # "none" =>
            worker[q.read.employee].row /\ worker[q.read.employee].name = q.read.name

LEMMA DirectoryIs ==
  /\ DirectoryInv =>
       /\ worker \in [Workers -> WorkerType] /\ host \in [HostIds -> HostType]
       /\ manager \in [Managers -> RequestType]
       /\ outdated \subseteq HostIds /\ unlinked = {}
       /\ \A m \in Managers : manager[m] \in RequestType /\ FreshRequest(manager[m])
       /\ \A h \in HostIds : host[h] \in HostType
       /\ \A w \in Workers : worker[w] \in WorkerType
       /\ DirectoryHolds
  /\ Quiet \in RequestType /\ FreshRequest(Quiet)
<1>1. Quiet \in RequestType
  BY DirectoryAssumption DEF Quiet, RequestType, ReadType
<1>2. FreshRequest(Quiet)
  BY DEF FreshRequest, Quiet
<1>3. ASSUME DirectoryInv
      PROVE  /\ worker \in [Workers -> WorkerType] /\ host \in [HostIds -> HostType]
             /\ manager \in [Managers -> RequestType]
             /\ outdated \subseteq HostIds /\ DirectoryHolds /\ unlinked = {}
  BY <1>3 DEF DirectoryInv, DirectoryTypeOK, ManagerRequests, WorkerType, HostType, RequestType, ReadType, DirectoryHolds
<1>4. ASSUME DirectoryInv PROVE \A m \in Managers : FreshRequest(manager[m])
  BY <1>4 DEF DirectoryInv, SavesFresh, FreshRequest
<1> QED BY <1>1, <1>2, <1>3, <1>4

LEMMA DirectoryFollows ==
  ASSUME worker' \in [Workers -> WorkerType], host' \in [HostIds -> HostType],
         manager' \in [Managers -> RequestType], outdated' \subseteq HostIds,
         \A m \in Managers : FreshRequest(manager[m])', DirectoryHolds'
  PROVE  DirectoryInv'
<1>1. ManagerRequests'
  BY DEF ManagerRequests, RequestType, ReadType
<1>2. SavesFresh'
  BY DEF SavesFresh, FreshRequest
<1>3. /\ worker' \in [Workers -> [row : BOOLEAN, name : 0..MaxName]]
      /\ host' \in [HostIds -> [row : BOOLEAN, sites : SUBSET Offices, employee : Workers \cup {"none"}, name : 0..MaxName]]
  BY DEF WorkerType, HostType
<1>4. ASSUME NEW m \in Managers
      PROVE  /\ manager'[m].op \in {"idle", "create", "update"} /\ manager'[m].pc \in {"idle", "employee", "save"}
             /\ manager'[m].id \in HostIds \cup {"none"} /\ manager'[m].sees \subseteq Offices
             /\ manager'[m].employee \in Workers \cup {"keep"} /\ manager'[m].name \in 0..MaxName
             /\ manager'[m].over \in BOOLEAN
  BY DEF RequestType
<1>5. unlinked' = {}
  BY DEF DirectoryHolds
<1>6. DirectoryTypeOK'
  BY <1>3, <1>4, <1>5 DEF DirectoryTypeOK
<1> QED BY <1>1, <1>2, <1>6 DEF DirectoryInv

LEMMA DirectoryInits == DirectoryInit => DirectoryInv
<1> SUFFICES ASSUME DirectoryInit PROVE DirectoryInv
  OBVIOUS
<1>1. MaxName \in Nat
  BY DirectoryAssumption
<1>2. \A m \in Managers : manager[m] = Quiet
  BY DEF DirectoryInit
<1>3. DirectoryTypeOK
  <2>1. worker \in [Workers -> [row : BOOLEAN, name : 0..MaxName]]
    BY <1>1 DEF DirectoryInit
  <2>2. host \in [HostIds -> [row : BOOLEAN, sites : SUBSET Offices, employee : Workers \cup {"none"}, name : 0..MaxName]]
    BY <1>1 DEF DirectoryInit, NoHost
  <2>3. \A m \in Managers :
          /\ manager[m].op \in {"idle", "create", "update"} /\ manager[m].pc \in {"idle", "employee", "save"}
          /\ manager[m].id \in HostIds \cup {"none"} /\ manager[m].sees \subseteq Offices
          /\ manager[m].employee \in Workers \cup {"keep"} /\ manager[m].name \in 0..MaxName
          /\ manager[m].over \in BOOLEAN
    BY <1>2, DirectoryIs DEF RequestType
  <2> QED BY <2>1, <2>2, <2>3 DEF DirectoryInit, DirectoryTypeOK
<1>4. ManagerRequests
  BY DirectoryIs DEF DirectoryInit, ManagerRequests, RequestType, ReadType
<1>5. SavesFresh
  BY <1>2, DirectoryIs DEF SavesFresh, FreshRequest
<1>6. DirectoryHolds
  BY DEF DirectoryInit, DirectoryHolds, NoHost
<1> QED BY <1>3, <1>4, <1>5, <1>6 DEF DirectoryInv

\* A change of the HR system outdates the requests it crosses.
LEMMA CrossingIs ==
  ASSUME DirectoryInv, NEW w \in Workers, manager' = Crossing(w),
         \A v \in Workers \ {w} : worker'[v] = worker[v]
  PROVE  /\ manager' \in [Managers -> RequestType]
         /\ \A m \in Managers : FreshRequest(manager[m])'
<1> SUFFICES ASSUME NEW m \in Managers PROVE manager'[m] \in RequestType /\ FreshRequest(manager[m])'
  BY DEF Crossing
<1>1. manager[m] \in RequestType /\ FreshRequest(manager[m])
  BY DirectoryIs
<1>2. CASE manager[m].pc = "save" /\ w \in {manager[m].read.employee, manager[m].employee}
  <2>1. manager'[m] = [manager[m] EXCEPT !.over = TRUE]
    BY <1>2 DEF Crossing
  <2>2. /\ manager'[m] \in RequestType /\ manager'[m].over = TRUE /\ manager'[m].op = manager[m].op
        /\ manager'[m].pc = manager[m].pc /\ manager'[m].id = manager[m].id
    BY <1>1, <2>1 DEF RequestType
  <2> QED BY <1>1, <1>2, <2>2 DEF FreshRequest
<1>3. CASE ~(manager[m].pc = "save" /\ w \in {manager[m].read.employee, manager[m].employee})
  <2>1. manager'[m] = manager[m]
    BY <1>3 DEF Crossing
  <2>2. manager[m].employee \in Workers \cup {"keep"} /\ manager[m].read.employee \in Workers \cup {"none"}
    BY <1>1 DEF RequestType, ReadType
  <2>3. manager[m].pc = "save" => manager[m].employee # w /\ manager[m].read.employee # w
    BY <1>3
  <2> QED BY <1>1, <2>1, <2>2, <2>3 DEF FreshRequest
<1> QED BY <1>2, <1>3

\* A request comes, goes on or ends, and the tables stay.
LEMMA RequestMoves ==
  ASSUME DirectoryInv, UNCHANGED <<worker, host, outdated, unlinked>>, NEW m \in Managers,
         NEW q \in RequestType, FreshRequest(q), manager' = [manager EXCEPT ![m] = q]
  PROVE  DirectoryInv'
<1>1. \A x \in Managers : manager'[x] = IF x = m THEN q ELSE manager[x]
  BY DirectoryIs
<1>2. \A x \in Managers : FreshRequest(manager[x])'
  BY <1>1, DirectoryIs DEF FreshRequest
<1>3. manager' \in [Managers -> RequestType]
  BY DirectoryIs
<1>4. DirectoryHolds'
  BY DirectoryIs DEF DirectoryHolds
<1> QED BY <1>2, <1>3, <1>4, DirectoryIs, DirectoryFollows

LEMMA PutKeepsDirectory ==
  ASSUME DirectoryInv, NEW w \in Workers, PutWorker(w)
  PROVE  DirectoryInv'
<1> DEFINE name == IF worker[w].row THEN worker[w].name + 1 ELSE worker[w].name
<1>1. /\ name <= MaxName /\ worker' = [worker EXCEPT ![w] = [row |-> TRUE, name |-> name]]
      /\ host' = [h \in HostIds |-> IF host[h].employee = w THEN [host[h] EXCEPT !.name = name] ELSE host[h]]
      /\ outdated' = {h \in outdated : host[h].employee # w} /\ manager' = Crossing(w) /\ unlinked' = unlinked
  BY DEF PutWorker
<1>2. name \in 0..MaxName
  <2>1. worker[w].name \in 0..MaxName
    BY DirectoryIs DEF WorkerType
  <2> QED BY <1>1, <2>1, DirectoryAssumption
<1> HIDE DEF name
<1>3. /\ worker' \in [Workers -> WorkerType] /\ worker'[w].row /\ worker'[w].name = name
      /\ \A v \in Workers \ {w} : worker'[v] = worker[v]
  BY <1>1, <1>2, DirectoryIs DEF WorkerType
<1>4. \A h \in HostIds :
        /\ host'[h] \in HostType /\ host'[h].row = host[h].row /\ host'[h].sites = host[h].sites
        /\ host'[h].employee = host[h].employee
        /\ host[h].employee = w => host'[h].name = name
        /\ host[h].employee # w => host'[h] = host[h]
  BY <1>1, <1>2, DirectoryIs DEF HostType
<1>5. host' \in [HostIds -> HostType]
  BY <1>1, <1>4
<1>6. \A h \in HostIds \ outdated' : host'[h].employee # "none" =>
        worker'[host'[h].employee].row /\ worker'[host'[h].employee].name = host'[h].name
  <2> SUFFICES ASSUME NEW h \in HostIds \ outdated', host'[h].employee # "none"
               PROVE  worker'[host'[h].employee].row /\ worker'[host'[h].employee].name = host'[h].name
    OBVIOUS
  <2>1. CASE host[h].employee = w
    BY <1>3, <1>4, <2>1
  <2>2. CASE host[h].employee # w
    <3>1. h \notin outdated /\ host[h].employee \in Workers \ {w} /\ host'[h] = host[h]
      BY <1>1, <1>4, <2>2, DirectoryIs DEF HostType
    <3> QED BY <1>3, <3>1, DirectoryIs DEF DirectoryHolds
  <2> QED BY <2>1, <2>2
<1>7. DirectoryHolds'
  BY <1>1, <1>4, <1>6, DirectoryIs DEF DirectoryHolds
<1> QED BY <1>1, <1>3, <1>5, <1>7, CrossingIs, DirectoryIs, DirectoryFollows

LEMMA DeleteKeepsDirectory ==
  ASSUME DirectoryInv, NEW w \in Workers, DeleteWorker(w)
  PROVE  DirectoryInv'
<1>1. /\ worker' = [worker EXCEPT ![w].row = FALSE]
      /\ host' = [h \in HostIds |-> IF host[h].employee = w THEN [host[h] EXCEPT !.employee = "none", !.name = 0] ELSE host[h]]
      /\ outdated' = {h \in outdated : host[h].employee # w} /\ manager' = Crossing(w) /\ unlinked' = unlinked
  BY DEF DeleteWorker
<1>2. worker' \in [Workers -> WorkerType] /\ \A v \in Workers \ {w} : worker'[v] = worker[v]
  BY <1>1, DirectoryIs DEF WorkerType
<1>3. \A h \in HostIds :
        /\ host'[h] \in HostType /\ host'[h].row = host[h].row /\ host'[h].sites = host[h].sites
        /\ host[h].employee = w => host'[h].employee = "none"
        /\ host[h].employee # w => host'[h] = host[h]
  <2> SUFFICES ASSUME NEW h \in HostIds
               PROVE  /\ host'[h] \in HostType /\ host'[h].row = host[h].row /\ host'[h].sites = host[h].sites
                      /\ host[h].employee = w => host'[h].employee = "none"
                      /\ host[h].employee # w => host'[h] = host[h]
    OBVIOUS
  <2>1. host[h] \in HostType /\ 0 \in 0..MaxName
    BY DirectoryIs, DirectoryAssumption
  <2>2. CASE host[h].employee = w
    <3>1. host'[h] = [host[h] EXCEPT !.employee = "none", !.name = 0]
      BY <1>1, <2>2
    <3> QED BY <2>1, <2>2, <3>1 DEF HostType
  <2>3. CASE host[h].employee # w
    BY <1>1, <2>1, <2>3
  <2> QED BY <2>2, <2>3
<1>4. host' \in [HostIds -> HostType]
  BY <1>1, <1>3
<1>5. \A h \in HostIds \ outdated' : host'[h].employee # "none" =>
        worker'[host'[h].employee].row /\ worker'[host'[h].employee].name = host'[h].name
  <2> SUFFICES ASSUME NEW h \in HostIds \ outdated', host'[h].employee # "none"
               PROVE  worker'[host'[h].employee].row /\ worker'[host'[h].employee].name = host'[h].name
    OBVIOUS
  <2>1. host[h].employee # w /\ host'[h] = host[h]
    BY <1>3
  <2>2. h \notin outdated /\ host[h].employee \in Workers \ {w}
    BY <1>1, <2>1, DirectoryIs DEF HostType
  <2> QED BY <1>2, <2>1, <2>2, DirectoryIs DEF DirectoryHolds
<1>6. DirectoryHolds'
  <2>1. \A h \in HostIds : host'[h].row => host'[h].sites # {}
    BY <1>3, DirectoryIs DEF DirectoryHolds
  <2>2. ASSUME NEW g \in HostIds, NEW h \in HostIds, g # h, host'[g].employee # "none"
        PROVE  host'[g].employee # host'[h].employee
    <3>1. host'[g].employee = host[g].employee /\ host[g].employee # "none"
      BY <1>3, <2>2
    <3>2. host'[h].employee \in {host[h].employee, "none"} /\ host[g].employee # host[h].employee
      BY <1>3, <2>2, <3>1, DirectoryIs DEF DirectoryHolds
    <3> QED BY <2>2, <3>1, <3>2
  <2>3. unlinked' = {}
    BY <1>1, DirectoryIs
  <2> QED BY <1>5, <2>1, <2>2, <2>3 DEF DirectoryHolds
<1> QED BY <1>1, <1>2, <1>4, <1>6, CrossingIs, DirectoryIs, DirectoryFollows

LEMMA SaveKeepsDirectory ==
  ASSUME DirectoryInv, NEW m \in Managers, NEW now \in Saved(manager[m]), Saves(m, now)
  PROVE  DirectoryInv'
<1> DEFINE q == manager[m]
           h == q.id
           removed == {s \in q.read.sites \cap host[h].sites : s \notin now.sites /\ s \notin q.sees}
           taken == now.employee # "none" /\ \E g \in HostIds \ {h} : host[g].employee = now.employee
<1>1. /\ q.pc = "save" /\ now.sites # {} /\ manager' = [manager EXCEPT ![m] = Quiet] /\ worker' = worker
      /\ taken => UNCHANGED <<host, outdated, unlinked>>
      /\ ~taken => /\ host' = [host EXCEPT ![h] = now]
                   /\ unlinked' = unlinked \cup {<<h, s>> : s \in removed}
                   /\ outdated' = IF q.over THEN outdated \cup {h} ELSE outdated \ {h}
  BY DEF Saves, Managing
<1>2. q \in RequestType /\ FreshRequest(q) /\ h \in HostIds
  BY <1>1, DirectoryIs DEF FreshRequest
<1>3. CASE taken
  BY <1>1, <1>3, RequestMoves, DirectoryIs
<1>4. CASE ~taken
  <2>1. PICK sites \in {Hidden(q) \cup given : given \in SUBSET q.sees} \cup {q.read.sites},
             link \in IF q.employee # "keep" THEN {[employee |-> q.employee, name |-> q.name]}
                      ELSE {[employee |-> "none", name |-> 0], [employee |-> q.read.employee, name |-> q.read.name]} :
               now = [row |-> TRUE, sites |-> sites, employee |-> link.employee, name |-> link.name]
    BY DEF Saved
  <2>2. /\ q.employee \in Workers \cup {"keep"} /\ q.name \in 0..MaxName /\ q.sees \subseteq Offices
        /\ q.read.sites \subseteq Offices /\ q.read.employee \in Workers \cup {"none"} /\ q.read.name \in 0..MaxName
    BY <1>2 DEF RequestType, ReadType
  <2>3. Hidden(q) \subseteq sites /\ sites \subseteq Offices
    BY <2>1, <2>2 DEF Hidden
  <2>4. /\ link.employee \in Workers \cup {"none"} /\ link.name \in 0..MaxName
        /\ link.employee # "none" /\ ~q.over => worker[link.employee].row /\ worker[link.employee].name = link.name
    <3>1. CASE q.employee # "keep"
      BY <1>1, <1>2, <2>1, <2>2, <3>1 DEF FreshRequest
    <3>2. CASE q.employee = "keep"
      BY <1>1, <1>2, <2>1, <2>2, <3>2, DirectoryAssumption DEF FreshRequest
    <3> QED BY <3>1, <3>2
  <2>5. now \in HostType /\ now.sites = sites /\ now.employee = link.employee /\ now.name = link.name
    BY <2>1, <2>3, <2>4 DEF HostType
  <2>6. removed = {}
    BY <2>3, <2>5 DEF Hidden
  <2> HIDE DEF q, removed
  <2>7. /\ host' = [host EXCEPT ![h] = now] /\ unlinked' = unlinked
        /\ outdated' = IF q.over THEN outdated \cup {h} ELSE outdated \ {h}
    BY <1>1, <1>4, <2>6
  <2>8. host' \in [HostIds -> HostType] /\ host'[h] = now /\ \A g \in HostIds \ {h} : host'[g] = host[g]
    BY <1>2, <2>5, <2>7, DirectoryIs
  <2>9. outdated' \subseteq HostIds /\ \A g \in HostIds \ outdated' : (g = h /\ ~q.over) \/ (g # h /\ g \notin outdated)
    BY <1>2, <2>7, DirectoryIs
  <2>10. \A g \in HostIds \ outdated' : host'[g].employee # "none" =>
           worker'[host'[g].employee].row /\ worker'[host'[g].employee].name = host'[g].name
    BY <1>1, <2>4, <2>5, <2>8, <2>9, DirectoryIs DEF DirectoryHolds
  <2>11. \A g, k \in HostIds : g # k /\ host'[g].employee # "none" => host'[g].employee # host'[k].employee
    BY <1>4, <2>8, DirectoryIs DEF DirectoryHolds
  <2>12. DirectoryHolds'
    BY <1>1, <2>7, <2>8, <2>10, <2>11, DirectoryIs DEF DirectoryHolds
  <2>13. manager' \in [Managers -> RequestType] /\ \A x \in Managers : manager'[x] = IF x = m THEN Quiet ELSE manager[x]
    BY <1>1, DirectoryIs
  <2>14. \A x \in Managers : FreshRequest(manager[x])'
    BY <1>1, <2>13, DirectoryIs DEF FreshRequest
  <2>15. worker' \in [Workers -> WorkerType]
    BY <1>1, DirectoryIs
  <2> QED BY <2>8, <2>9, <2>12, <2>13, <2>14, <2>15, DirectoryFollows
<1> QED BY <1>3, <1>4

LEMMA DirectoryStep == ASSUME DirectoryInv, [DirectoryNext]_directoryVars PROVE DirectoryInv'
<1>1. CASE UNCHANGED directoryVars
  <2>1. UNCHANGED <<worker, host, manager, outdated, unlinked>>
    BY <1>1 DEF directoryVars
  <2>2. \A x \in Managers : FreshRequest(manager[x])'
    BY <2>1, DirectoryIs DEF FreshRequest
  <2>3. DirectoryHolds'
    BY <2>1, DirectoryIs DEF DirectoryHolds
  <2> QED BY <2>1, <2>2, <2>3, DirectoryIs, DirectoryFollows
<1>2. ASSUME NEW m \in Managers, ReadsWorker(m) PROVE DirectoryInv'
  <2> DEFINE q == manager[m]
  <2>1. UNCHANGED <<worker, host, outdated, unlinked>> /\ q.pc = "employee"
    BY <1>2 DEF ReadsWorker, Managing
  <2>2. q \in RequestType /\ FreshRequest(q) /\ q.employee \in Workers /\ q.op # "idle"
    BY <2>1, DirectoryIs DEF FreshRequest
  <2>3. CASE /\ worker[q.employee].row
             /\ manager' = [manager EXCEPT ![m].pc = "save", ![m].name = worker[q.employee].name]
    <3> DEFINE next == [q EXCEPT !.pc = "save", !.name = worker[q.employee].name]
    <3>1. worker[q.employee].name \in 0..MaxName
      BY <2>2, DirectoryIs DEF WorkerType
    <3>2. next \in RequestType
      BY <2>2, <3>1 DEF RequestType
    <3>3. /\ next.pc = "save" /\ next.op = q.op /\ next.id = q.id /\ next.employee = q.employee
          /\ next.name = worker[q.employee].name
      BY <2>2 DEF RequestType
    <3>4. manager' = [manager EXCEPT ![m] = next]
      BY <2>3, DirectoryIs
    <3> HIDE DEF next
    <3>5. FreshRequest(next)
      BY <2>2, <2>3, <3>3, DirectoryAssumption DEF FreshRequest
    <3> QED BY <2>1, <3>2, <3>4, <3>5, RequestMoves
  <2>4. CASE manager' = [manager EXCEPT ![m] = Quiet]
    BY <2>1, <2>4, RequestMoves, DirectoryIs
  <2> QED BY <1>2, <2>3, <2>4 DEF ReadsWorker
<1>3. ASSUME NEW m \in Managers, NEW h \in HostIds, CreateHost(m, h) PROVE DirectoryInv'
  <2>1. PICK e \in Given :
          manager' = [manager EXCEPT ![m] = [Quiet EXCEPT !.op = "create", !.pc = IF e = "keep" THEN "save" ELSE "employee",
                                                          !.id = h, !.sees = Offices, !.employee = e]]
    BY <1>3 DEF CreateHost, Manages
  <2> DEFINE pc == IF e = "keep" THEN "save" ELSE "employee"
             next == [Quiet EXCEPT !.op = "create", !.pc = pc, !.id = h, !.sees = Offices, !.employee = e]
  <2>2. /\ pc \in {"idle", "employee", "save"} /\ (e = "keep" => pc = "save") /\ (e # "keep" => pc = "employee")
        /\ e \in Workers \cup {"keep"} /\ Offices \in SUBSET Offices
    BY DEF Given
  <2>3. manager' = [manager EXCEPT ![m] = next]
    BY <2>1
  <2>4. Quiet \in RequestType /\ Quiet.read.employee = "none" /\ Quiet.over = FALSE
    BY DirectoryIs DEF Quiet
  <2> HIDE DEF pc
  <2>5. /\ next \in RequestType /\ next.op = "create" /\ next.pc = pc /\ next.id = h /\ next.employee = e
        /\ next.read = Quiet.read
    BY <2>2, <2>4 DEF RequestType
  <2> HIDE DEF next
  <2>6. FreshRequest(next)
    BY <2>2, <2>4, <2>5, DirectoryAssumption DEF FreshRequest
  <2> QED BY <1>3, <2>3, <2>5, <2>6, RequestMoves DEF CreateHost
<1>4. ASSUME NEW m \in Managers, NEW h \in HostIds, NEW sees \in Sights, UpdateReads(m, h, sees) PROVE DirectoryInv'
  <2>1. PICK e \in Given :
          manager' = [manager EXCEPT ![m] =
            [Quiet EXCEPT !.op = "update", !.pc = IF e \in Workers THEN "employee" ELSE "save", !.id = h, !.sees = sees,
                          !.read = [sites |-> host[h].sites, employee |-> host[h].employee, name |-> host[h].name],
                          !.employee = e, !.over = (e = "keep" /\ h \in outdated)]]
    BY <1>4 DEF UpdateReads, Manages
  <2> DEFINE over == e = "keep" /\ h \in outdated
             read == [sites |-> host[h].sites, employee |-> host[h].employee, name |-> host[h].name]
             pc == IF e \in Workers THEN "employee" ELSE "save"
             next == [Quiet EXCEPT !.op = "update", !.pc = pc, !.id = h, !.sees = sees, !.read = read,
                                   !.employee = e, !.over = over]
  <2>2. /\ pc \in {"idle", "employee", "save"} /\ (e = "keep" => pc = "save") /\ (e # "keep" => pc = "employee")
        /\ e \in Workers \cup {"keep"}
    BY DirectoryAssumption DEF Given
  <2>3. over \in BOOLEAN /\ sees \in SUBSET Offices /\ read \in ReadType
    BY DirectoryIs DEF Sights, HostType, ReadType
  <2>4. /\ read.employee = host[h].employee /\ read.name = host[h].name
        /\ (~over /\ e = "keep") => h \notin outdated
    OBVIOUS
  <2>5. manager' = [manager EXCEPT ![m] = next]
    BY <2>1
  <2>6. Quiet \in RequestType
    BY DirectoryIs
  <2> HIDE DEF over, read, pc
  <2>7. /\ next \in RequestType /\ next.op = "update" /\ next.pc = pc /\ next.id = h /\ next.employee = e
        /\ next.read = read /\ next.over = over
    BY <2>2, <2>3, <2>6 DEF RequestType
  <2> HIDE DEF next
  <2>8. FreshRequest(next)
    BY <2>2, <2>4, <2>7, DirectoryIs, DirectoryAssumption DEF FreshRequest, DirectoryHolds
  <2> QED BY <1>4, <2>5, <2>7, <2>8, RequestMoves DEF UpdateReads
<1> QED BY <1>1, <1>2, <1>3, <1>4, PutKeepsDirectory, DeleteKeepsDirectory, SaveKeepsDirectory DEF DirectoryNext

-----------------------------------------------------------------------------
(* The operator's commands: proofs *)

ReplicaType == [stage : 0..2, known : {"none", "active", "suspended"}, left : 0..ResolverTTL, keysLeft : 0..KeysTTL]
CommandType == [pc : {"idle", "shred", "erase", "save", "done"}, read : {"none", "old", "new"}]

LEMMA OperatorTyped ==
  OperatorTypeOK =>
    /\ stage \in 0..2 /\ revived \in BOOLEAN
    /\ tenant.status \in {"absent", "active", "suspended", "gone"} /\ tenant.wrapped \in {"none", "old", "new"}
    /\ replica \in [Replicas -> ReplicaType]
    /\ \A r \in Replicas :
         /\ replica[r] \in ReplicaType
         /\ replica[r].stage \in 0..2 /\ replica[r].known \in {"none", "active", "suspended"}
         /\ replica[r].left \in 0..ResolverTTL /\ replica[r].keysLeft \in 0..KeysTTL
    /\ command \in [Commands -> CommandType]
    /\ command["delete"] \in CommandType /\ command["rewrap"] \in CommandType /\ command["create"] \in CommandType
    /\ since.suspended \in -1..(KeysTTL + 1) /\ since.shredded \in -1..(KeysTTL + 1)
    /\ ResolverTTL \in Nat /\ KeysTTL \in Nat /\ 0 < ResolverTTL /\ ResolverTTL < KeysTTL
  BY OperatorAssumption DEF OperatorTypeOK, ReplicaType, CommandType, Never, Long, Commands

LEMMA OpensIs ==
  Opens(0) = {"old"} /\ Opens(1) = {"old", "new"} /\ Opens(2) = {"new"} /\ Active(0) = "old"
    /\ Active(1) = "new" /\ Active(2) = "new"
  BY DEF Opens, Active

LEMMA OperatorInits == OperatorInit => OperatorInv
<1> SUFFICES ASSUME OperatorInit PROVE OperatorInv
  OBVIOUS
<1>1. /\ ResolverTTL \in Nat /\ KeysTTL \in Nat /\ 0 < ResolverTTL /\ ResolverTTL < KeysTTL
  BY OperatorAssumption
<1>2. \A r \in Replicas : replica[r] = [stage |-> 0, known |-> "none", left |-> 0, keysLeft |-> 0]
  BY DEF OperatorInit, Fresh
<1>3. /\ command["rewrap"].pc = "idle" /\ since.suspended = -1 /\ since.shredded = -1
      /\ tenant.status = "absent" /\ tenant.wrapped = "none" /\ stage = 0 /\ revived = FALSE
  BY DEF OperatorInit, Commands, Never
<1>4. OperatorTypeOK
  <2>1. replica \in [Replicas -> [stage : 0..2, known : {"none", "active", "suspended"}, left : 0..ResolverTTL,
                                 keysLeft : 0..KeysTTL]]
    BY <1>1 DEF OperatorInit, Fresh
  <2>2. command \in [Commands -> [pc : {"idle", "shred", "erase", "save", "done"}, read : {"none", "old", "new"}]]
    BY DEF OperatorInit
  <2>3. since \in [suspended : Never..Long, shredded : Never..Long]
    BY <1>1 DEF OperatorInit, Never, Long
  <2>4. tenant \in [status : {"absent", "active", "suspended", "gone"}, wrapped : {"none", "old", "new"}]
    BY DEF OperatorInit
  <2>5. stage \in 0..2 /\ revived \in BOOLEAN
    <3>1. stage = 0 /\ revived = FALSE
      BY DEF OperatorInit
    <3>2. stage \in 0..2
      BY <3>1
    <3> QED BY <3>1, <3>2, Zenon
  <2> QED BY <2>1, <2>2, <2>3, <2>4, <2>5 DEF OperatorTypeOK
<1>5. Rotation /\ CachesEnd /\ ShreddedForGood
  BY <1>1, <1>2, <1>3 DEF Rotation, CachesEnd, ShreddedForGood, Never, HasKeys
<1> QED BY <1>4, <1>5 DEF OperatorInv

\* What is promised now follows from where the rotation and the caches are.
LEMMA RotationOpens ==
  ASSUME OperatorTypeOK', Rotation', CachesEnd',
         since'.shredded # Never /\ ~revived' => tenant'.wrapped = "none",
         tenant'.wrapped # "none" => \A r \in Replicas : tenant'.wrapped \in Opens(replica'[r].stage)
  PROVE  OperatorInv'
<1>1. /\ \A r \in Replicas : replica'[r].left \in 0..ResolverTTL /\ replica'[r].keysLeft \in 0..KeysTTL
      /\ since'.suspended \in -1..(KeysTTL + 1) /\ since'.shredded \in -1..(KeysTTL + 1)
      /\ ResolverTTL \in Nat /\ KeysTTL \in Nat
  BY OperatorAssumption DEF OperatorTypeOK, Never, Long
<1>2. \A r \in Replicas : HasKeys(r)' => replica'[r].keysLeft > 0
  BY DEF HasKeys
<1>3. since'.shredded # Never /\ ~revived' => \A r \in Replicas : HasKeys(r)' => since'.shredded < KeysTTL
  BY <1>1, <1>2 DEF CachesEnd
<1>4. since'.suspended # Never => \A r \in Replicas : replica'[r].known = "active" => since'.suspended <= ResolverTTL
  BY <1>1 DEF CachesEnd
<1>5. ShreddedForGood'
  BY <1>3, <1>4 DEF ShreddedForGood, Opens
<1> QED BY <1>5 DEF OperatorInv

LEMMA OlderIs ==
  ASSUME NEW age \in -1..(KeysTTL + 1), KeysTTL \in Nat
  PROVE  /\ Older(age) \in -1..(KeysTTL + 1)
         /\ (Older(age) = -1) <=> (age = -1)
         /\ Older(age) <= age + 1
  BY DEF Older, Never, Long

LEMMA OperatorStep == ASSUME OperatorInv, [OperatorNext]_operatorVars PROVE OperatorInv'
<1>1. /\ stage \in 0..2 /\ revived \in BOOLEAN
      /\ tenant.status \in {"absent", "active", "suspended", "gone"} /\ tenant.wrapped \in {"none", "old", "new"}
      /\ replica \in [Replicas -> ReplicaType]
      /\ \A r \in Replicas :
           /\ replica[r] \in ReplicaType
           /\ replica[r].stage \in 0..2 /\ replica[r].known \in {"none", "active", "suspended"}
           /\ replica[r].left \in 0..ResolverTTL /\ replica[r].keysLeft \in 0..KeysTTL
      /\ command \in [Commands -> CommandType]
      /\ command["delete"] \in CommandType /\ command["rewrap"] \in CommandType /\ command["create"] \in CommandType
      /\ since.suspended \in -1..(KeysTTL + 1) /\ since.shredded \in -1..(KeysTTL + 1)
      /\ ResolverTTL \in Nat /\ KeysTTL \in Nat /\ 0 < ResolverTTL /\ ResolverTTL < KeysTTL
  BY OperatorTyped DEF OperatorInv
<1>2. /\ Rotation /\ CachesEnd /\ ShreddedForGood /\ OperatorTypeOK
      /\ tenant \in [status : {"absent", "active", "suspended", "gone"}, wrapped : {"none", "old", "new"}]
      /\ since \in [suspended : -1..(KeysTTL + 1), shredded : -1..(KeysTTL + 1)]
  BY DEF OperatorInv, OperatorTypeOK, Never, Long
<1>3. CASE UNCHANGED operatorVars
  <2>1. UNCHANGED <<tenant, replica, stage, command, since, revived>>
    BY <1>3 DEF operatorVars
  <2> QED BY <1>2, <2>1 DEF OperatorInv, OperatorTypeOK, Rotation, CachesEnd, ShreddedForGood, HasKeys
<1>4. CASE MinutePasses
  <2>1. /\ UNCHANGED <<tenant, stage, command, revived>>
        /\ since' = [suspended |-> Older(since.suspended), shredded |-> Older(since.shredded)]
        /\ replica' = [r \in Replicas |->
             [replica[r] EXCEPT !.known = IF replica[r].left = 0 THEN "none" ELSE replica[r].known,
                                !.left = IF replica[r].left = 0 THEN 0 ELSE replica[r].left - 1,
                                !.keysLeft = IF replica[r].keysLeft = 0 THEN 0 ELSE replica[r].keysLeft - 1]]
    BY <1>1, <1>4 DEF MinutePasses, ReplicaType
  <2>2. /\ since'.suspended \in -1..(KeysTTL + 1) /\ since'.shredded \in -1..(KeysTTL + 1)
        /\ (since'.suspended = -1) <=> (since.suspended = -1)
        /\ (since'.shredded = -1) <=> (since.shredded = -1)
        /\ since'.suspended <= since.suspended + 1 /\ since'.shredded <= since.shredded + 1
        /\ since' \in [suspended : -1..(KeysTTL + 1), shredded : -1..(KeysTTL + 1)]
    BY <1>1, <2>1, OlderIs
  <2>3. \A r \in Replicas :
          /\ replica'[r] \in ReplicaType /\ replica'[r].stage = replica[r].stage
          /\ replica'[r].known = IF replica[r].left = 0 THEN "none" ELSE replica[r].known
          /\ replica'[r].left = IF replica[r].left = 0 THEN 0 ELSE replica[r].left - 1
          /\ replica'[r].keysLeft = IF replica[r].keysLeft = 0 THEN 0 ELSE replica[r].keysLeft - 1
    <3> SUFFICES ASSUME NEW r \in Replicas
                 PROVE  /\ replica'[r] \in ReplicaType /\ replica'[r].stage = replica[r].stage
                        /\ replica'[r].known = IF replica[r].left = 0 THEN "none" ELSE replica[r].known
                        /\ replica'[r].left = IF replica[r].left = 0 THEN 0 ELSE replica[r].left - 1
                        /\ replica'[r].keysLeft = IF replica[r].keysLeft = 0 THEN 0 ELSE replica[r].keysLeft - 1
      OBVIOUS
    <3> DEFINE k == IF replica[r].left = 0 THEN "none" ELSE replica[r].known
               l == IF replica[r].left = 0 THEN 0 ELSE replica[r].left - 1
               n == IF replica[r].keysLeft = 0 THEN 0 ELSE replica[r].keysLeft - 1
    <3>1. k \in {"none", "active", "suspended"} /\ l \in 0..ResolverTTL /\ n \in 0..KeysTTL
      BY <1>1
    <3>2. replica'[r] = [replica[r] EXCEPT !.known = k, !.left = l, !.keysLeft = n]
      BY <2>1
    <3> HIDE DEF k, l, n
    <3>3. replica'[r] \in ReplicaType /\ replica'[r].stage = replica[r].stage
          /\ replica'[r].known = k /\ replica'[r].left = l /\ replica'[r].keysLeft = n
      BY <1>1, <3>1, <3>2 DEF ReplicaType
    <3> QED BY <3>3 DEF k, l, n
  <2>4. replica' \in [Replicas -> ReplicaType]
    BY <2>1, <2>3
  <2>5. OperatorTypeOK'
    BY <1>2, <2>1, <2>2, <2>4 DEF OperatorTypeOK, ReplicaType, Never, Long
  <2>6. Rotation'
    <3>1. \A r \in Replicas : replica'[r].stage = replica[r].stage
      BY <2>3
    <3>2. tenant' = tenant /\ stage' = stage /\ command' = command
      BY <2>1
    <3> QED BY <1>2, <3>1, <3>2 DEF Rotation
  <2>7. CachesEnd'
    <3>1. /\ revived' => command'["rewrap"].pc = "done"
          /\ tenant'.status = "absent" => since'.suspended = Never /\ since'.shredded = Never
          /\ tenant'.status = "active" => since'.suspended = Never
      BY <1>2, <2>1, <2>2 DEF CachesEnd, Never
    <3>2. ASSUME since'.suspended # Never, NEW r \in Replicas, replica'[r].known = "active"
          PROVE  since'.suspended + replica'[r].left <= ResolverTTL
      <4>1. since.suspended # Never /\ replica[r].known = "active" /\ replica[r].left # 0
        BY <2>2, <2>3, <3>2 DEF Never
      <4>2. since.suspended + replica[r].left <= ResolverTTL /\ replica'[r].left = replica[r].left - 1
        BY <1>2, <2>3, <4>1 DEF CachesEnd
      <4> QED BY <1>1, <2>2, <4>2
    <3>3. ASSUME since'.shredded # Never, ~revived', NEW r \in Replicas, HasKeys(r)'
          PROVE  since'.shredded + replica'[r].keysLeft <= KeysTTL
      <4>1. /\ since.shredded # Never /\ ~revived
            /\ replica[r].keysLeft > 0 /\ replica'[r].keysLeft = replica[r].keysLeft - 1
        <5>1. replica[r].keysLeft \in 0..KeysTTL /\ replica'[r].keysLeft > 0
          BY <1>1, <3>3 DEF HasKeys
        <5>2. replica'[r].keysLeft = IF replica[r].keysLeft = 0 THEN 0 ELSE replica[r].keysLeft - 1
          BY <2>3
        <5>3. replica[r].keysLeft > 0 /\ replica'[r].keysLeft = replica[r].keysLeft - 1
          BY <5>1, <5>2
        <5>4. since.shredded # Never /\ ~revived
          BY <2>1, <2>2, <3>3 DEF Never
        <5> QED BY <5>3, <5>4
      <4>2. since.shredded + replica[r].keysLeft <= KeysTTL
        <5>1. HasKeys(r)
          BY <4>1 DEF HasKeys
        <5>2. \A x \in Replicas : HasKeys(x) => since.shredded + replica[x].keysLeft <= KeysTTL
          BY <1>2, <4>1 DEF CachesEnd
        <5> QED BY <5>1, <5>2
      <4> QED BY <1>1, <2>2, <4>1, <4>2
    <3> QED BY <3>1, <3>2, <3>3 DEF CachesEnd
  <2>8. /\ since'.shredded # Never /\ ~revived' => tenant'.wrapped = "none"
        /\ tenant'.wrapped # "none" => \A r \in Replicas : tenant'.wrapped \in Opens(replica'[r].stage)
    <3>1. since'.shredded # Never /\ ~revived' => tenant'.wrapped = "none"
      BY <1>2, <2>1, <2>2 DEF ShreddedForGood, Never
    <3>2. ASSUME tenant'.wrapped # "none", NEW r \in Replicas PROVE tenant'.wrapped \in Opens(replica'[r].stage)
      <4>1. replica'[r].stage = replica[r].stage /\ tenant' = tenant
        BY <2>1, <2>3
      <4>2. tenant.wrapped \in Opens(replica[r].stage)
        BY <1>2, <3>2, <4>1 DEF ShreddedForGood
      <4> QED BY <4>1, <4>2
    <3> QED BY <3>1, <3>2
  <2> QED BY <2>5, <2>6, <2>7, <2>8, RotationOpens
<1>5. ASSUME UNCHANGED <<replica, stage>>, OperatorTypeOK', command'["rewrap"] = command["rewrap"],
             tenant'.status = "absent" => since'.suspended = Never /\ since'.shredded = Never,
             tenant'.status = "active" => since'.suspended = Never,
             since'.suspended # Never => since'.suspended \in {0, since.suspended},
             \/ since'.shredded = since.shredded /\ revived' = revived
             \/ since'.shredded = 0 /\ revived' = FALSE /\ tenant'.wrapped = "none",
             tenant'.wrapped \in {"none", tenant.wrapped},
             tenant'.status = "gone" => tenant'.wrapped = "none"
      PROVE  OperatorInv'
  <2>1. Rotation'
    BY <1>2, <1>5 DEF Rotation
  <2>2. ASSUME since'.suspended # Never, NEW r \in Replicas, replica'[r].known = "active"
        PROVE  since'.suspended + replica'[r].left <= ResolverTTL
    <3>1. CASE since'.suspended = 0
      BY <1>1, <1>5, <3>1
    <3>2. CASE since'.suspended = since.suspended
      BY <1>2, <1>5, <2>2, <3>2 DEF CachesEnd
    <3> QED BY <1>5, <2>2, <3>1, <3>2
  <2>3. ASSUME since'.shredded # Never, ~revived', NEW r \in Replicas, HasKeys(r)'
        PROVE  since'.shredded + replica'[r].keysLeft <= KeysTTL
    <3>1. HasKeys(r) /\ replica' = replica
      BY <1>5, <2>3 DEF HasKeys
    <3>2. CASE since'.shredded = 0
      BY <1>1, <3>1, <3>2
    <3>3. CASE since'.shredded = since.shredded /\ revived' = revived
      BY <1>2, <2>3, <3>1, <3>3 DEF CachesEnd
    <3> QED BY <1>5, <3>2, <3>3
  <2>4. CachesEnd'
    BY <1>2, <1>5, <2>2, <2>3 DEF CachesEnd
  <2>5. /\ since'.shredded # Never /\ ~revived' => tenant'.wrapped = "none"
        /\ tenant'.wrapped # "none" => \A r \in Replicas : tenant'.wrapped \in Opens(replica'[r].stage)
    BY <1>2, <1>5 DEF ShreddedForGood
  <2> QED BY <1>5, <2>1, <2>4, <2>5, RotationOpens
<1>6. CASE Suspend
  <2>1. /\ tenant' = [tenant EXCEPT !.status = "suspended"] /\ since' = [since EXCEPT !.suspended = 0]
        /\ tenant.status = "active" /\ UNCHANGED <<replica, stage, command, revived>>
    BY <1>6 DEF Suspend
  <2>2. /\ tenant'.status = "suspended" /\ tenant'.wrapped = tenant.wrapped
        /\ since'.suspended = 0 /\ since'.shredded = since.shredded
    BY <1>2, <2>1
  <2>3. OperatorTypeOK'
    BY <1>1, <1>2, <2>1 DEF OperatorTypeOK, Never, Long
  <2> QED BY <1>5, <2>1, <2>2, <2>3
<1>7. CASE Activate
  <2>1. /\ tenant' = [tenant EXCEPT !.status = "active"] /\ since' = [since EXCEPT !.suspended = -1]
        /\ tenant.status = "suspended" /\ UNCHANGED <<replica, stage, command, revived>>
    BY <1>7 DEF Activate, Never
  <2>2. /\ tenant'.status = "active" /\ tenant'.wrapped = tenant.wrapped
        /\ since'.suspended = -1 /\ since'.shredded = since.shredded
    BY <1>2, <2>1
  <2>3. OperatorTypeOK'
    BY <1>1, <1>2, <2>1 DEF OperatorTypeOK, Never, Long
  <2> QED BY <1>5, <2>1, <2>2, <2>3 DEF Never
<1>8. ASSUME DeleteReads \/ DeleteDies PROVE OperatorInv'
  <2>1. /\ UNCHANGED <<tenant, replica, stage, since, revived>>
        /\ \E pc \in {"shred", "done"} : command' = [command EXCEPT !["delete"].pc = pc]
    BY <1>8 DEF DeleteReads, DeleteDies
  <2>2. PICK pc \in {"shred", "done"} : command' = [command EXCEPT !["delete"].pc = pc]
    BY <2>1
  <2>3. command' \in [Commands -> CommandType] /\ command'["rewrap"] = command["rewrap"]
    BY <1>1, <2>2 DEF Commands, CommandType
  <2>4. OperatorTypeOK'
    BY <1>2, <2>1, <2>3 DEF OperatorTypeOK, CommandType
  <2>5. /\ tenant'.status = "absent" => since'.suspended = Never /\ since'.shredded = Never
        /\ tenant'.status = "active" => since'.suspended = Never
        /\ tenant'.status = "gone" => tenant'.wrapped = "none"
    BY <1>2, <2>1 DEF CachesEnd, Rotation
  <2> QED BY <1>5, <2>1, <2>3, <2>4, <2>5
<1>9. CASE DeleteErases
  <2>1. /\ UNCHANGED <<replica, stage, since, revived>> /\ tenant' = [status |-> "gone", wrapped |-> "none"]
        /\ command' = [command EXCEPT !["delete"].pc = "done"]
    BY <1>9 DEF DeleteErases
  <2>2. command' \in [Commands -> CommandType] /\ command'["rewrap"] = command["rewrap"]
    BY <1>1, <2>1 DEF Commands, CommandType
  <2>3. OperatorTypeOK'
    BY <1>2, <2>1, <2>2 DEF OperatorTypeOK, CommandType
  <2>4. tenant'.status = "gone" /\ tenant'.wrapped = "none"
    BY <2>1
  <2> QED BY <1>5, <2>1, <2>2, <2>3, <2>4
<1>10. CASE DeleteShreds
  <2>1. /\ UNCHANGED <<replica, stage>> /\ tenant' = [status |-> "suspended", wrapped |-> "none"]
        /\ command' = [command EXCEPT !["delete"].pc = "erase"] /\ revived' = FALSE
        /\ since' = [suspended |-> IF since.suspended = -1 THEN 0 ELSE since.suspended, shredded |-> 0]
    BY <1>10 DEF DeleteShreds, Shreds, Never
  <2>2. command' \in [Commands -> CommandType] /\ command'["rewrap"] = command["rewrap"]
    BY <1>1, <2>1 DEF Commands, CommandType
  <2>3. /\ since' \in [suspended : -1..(KeysTTL + 1), shredded : -1..(KeysTTL + 1)]
        /\ since'.suspended \in {0, since.suspended} /\ since'.shredded = 0
    BY <1>1, <2>1
  <2>4. OperatorTypeOK'
    BY <1>2, <2>1, <2>2, <2>3 DEF OperatorTypeOK, CommandType, Never, Long
  <2>5. tenant'.status = "suspended" /\ tenant'.wrapped = "none"
    BY <2>1
  <2> QED BY <1>5, <2>1, <2>2, <2>3, <2>4, <2>5
<1>11. CASE Create
  <2>1. /\ UNCHANGED <<replica, stage, since, revived>> /\ tenant.status = "absent"
        /\ tenant' = [status |-> "active", wrapped |-> Active(stage)]
        /\ command' = [command EXCEPT !["create"].pc = "done"]
        /\ stage = 1 => \A r \in Replicas : replica[r].stage = 1
    BY <1>11 DEF Create
  <2>2. command' \in [Commands -> CommandType] /\ command'["rewrap"] = command["rewrap"]
    BY <1>1, <2>1 DEF Commands, CommandType
  <2>3. Active(stage) \in {"old", "new"} /\ ((Active(stage) = "old") <=> (stage = 0))
    BY <1>1, OpensIs
  <2>4. tenant'.status = "active" /\ tenant'.wrapped = Active(stage)
    BY <2>1
  <2>5. OperatorTypeOK'
    BY <1>2, <2>1, <2>2, <2>3 DEF OperatorTypeOK, CommandType
  <2>6. since'.suspended = Never /\ since'.shredded = Never
    BY <1>2, <2>1 DEF CachesEnd
  <2>7. CachesEnd'
    BY <1>2, <2>1, <2>2, <2>4, <2>6 DEF CachesEnd
  <2>8. command["rewrap"].pc = "done" => stage # 0
    BY <1>1, <1>2 DEF Rotation
  <2>9. Rotation'
    BY <1>2, <2>1, <2>2, <2>3, <2>4, <2>8 DEF Rotation
  <2>10. \A r \in Replicas : Active(stage) \in Opens(replica[r].stage)
    <3> SUFFICES ASSUME NEW r \in Replicas PROVE Active(stage) \in Opens(replica[r].stage)
      OBVIOUS
    <3>1. stage = 2 => replica[r].stage >= 1
      BY <1>2 DEF Rotation
    <3>2. replica[r].stage <= stage /\ replica[r].stage \in 0..2
      BY <1>1, <1>2 DEF Rotation
    <3>3. CASE stage = 0
      <4>1. replica[r].stage = 0
        BY <3>2, <3>3
      <4> QED BY <3>3, <4>1, OpensIs
    <3>4. CASE stage = 1
      BY <2>1, <3>4, OpensIs
    <3>5. CASE stage = 2
      <4>1. replica[r].stage \in {1, 2}
        BY <3>1, <3>2, <3>5
      <4> QED BY <3>5, <4>1, OpensIs
    <3> QED BY <1>1, <3>3, <3>4, <3>5
  <2> QED BY <2>1, <2>4, <2>5, <2>6, <2>7, <2>9, <2>10, RotationOpens
<1>12. CASE KeyAdded
  <2>1. /\ UNCHANGED <<tenant, replica, command, since, revived>> /\ stage = 0 /\ stage' = 1
    BY <1>12 DEF KeyAdded
  <2>2. OperatorTypeOK'
    BY <1>2, <2>1 DEF OperatorTypeOK
  <2>3. Rotation'
    BY <1>1, <1>2, <2>1 DEF Rotation
  <2>4. CachesEnd'
    BY <1>2, <2>1 DEF CachesEnd, HasKeys
  <2> QED BY <1>2, <2>1, <2>2, <2>3, <2>4, RotationOpens DEF ShreddedForGood
<1>13. CASE KeyRemoved
  <2>1. /\ UNCHANGED <<tenant, replica, command, since, revived>> /\ stage = 1 /\ stage' = 2
        /\ command["rewrap"].pc = "done"
    BY <1>13 DEF KeyRemoved, Commanding
  <2>2. OperatorTypeOK'
    BY <1>2, <2>1 DEF OperatorTypeOK
  <2>3. Rotation'
    BY <1>1, <1>2, <2>1 DEF Rotation
  <2>4. CachesEnd'
    BY <1>2, <2>1 DEF CachesEnd, HasKeys
  <2> QED BY <1>2, <2>1, <2>2, <2>3, <2>4, RotationOpens DEF ShreddedForGood
<1>14. CASE RewrapReads
  <2>1. /\ UNCHANGED <<tenant, replica, stage, since, revived>> /\ stage = 1
        /\ \A r \in Replicas : replica[r].stage = 1
        /\ command["rewrap"].pc = "idle"
        /\ command' = [command EXCEPT !["rewrap"] =
             IF tenant.wrapped = "none" THEN [pc |-> "done", read |-> "none"] ELSE [pc |-> "save", read |-> tenant.wrapped]]
    BY <1>14 DEF RewrapReads, Commanding
  <2>2. /\ command' \in [Commands -> CommandType]
        /\ command'["rewrap"].pc = IF tenant.wrapped = "none" THEN "done" ELSE "save"
    BY <1>1, <2>1 DEF Commands, CommandType
  <2>3. OperatorTypeOK'
    BY <1>2, <2>1, <2>2 DEF OperatorTypeOK, CommandType
  <2>4. Rotation'
    BY <1>1, <1>2, <2>1, <2>2 DEF Rotation
  <2>5. ~revived
    BY <1>2, <2>1 DEF CachesEnd
  <2>6. CachesEnd'
    BY <1>2, <2>1, <2>5 DEF CachesEnd, HasKeys
  <2> QED BY <1>2, <2>1, <2>3, <2>4, <2>6, RotationOpens DEF ShreddedForGood
<1>15. CASE RewrapSaves
  <2>1. /\ UNCHANGED <<replica, stage, since>> /\ command["rewrap"].pc = "save"
        /\ tenant' = IF tenant.status = "gone" THEN tenant ELSE [tenant EXCEPT !.wrapped = Active(stage)]
        /\ revived' = (tenant.status # "gone" /\ tenant.wrapped = "none")
        /\ command' = [command EXCEPT !["rewrap"] = [pc |-> "done", read |-> "none"]]
    BY <1>15 DEF RewrapSaves, Commanding
  <2>2. /\ command' \in [Commands -> CommandType] /\ command'["rewrap"].pc = "done"
    BY <1>1, <2>1 DEF Commands, CommandType
  <2>3. stage \in {1, 2} /\ \A r \in Replicas : replica[r].stage >= 1
    BY <1>1, <1>2, <2>1 DEF Rotation
  <2>4. stage = 1 /\ Active(stage) = "new"
    BY <1>2, <2>1, <2>3, OpensIs DEF Rotation
  <2>5. /\ tenant'.status = tenant.status
        /\ tenant'.wrapped = IF tenant.status = "gone" THEN tenant.wrapped ELSE "new"
        /\ tenant' \in [status : {"absent", "active", "suspended", "gone"}, wrapped : {"none", "old", "new"}]
    BY <1>2, <2>1, <2>4
  <2>6. OperatorTypeOK'
    BY <1>2, <2>1, <2>2, <2>5 DEF OperatorTypeOK, CommandType
  <2>7. Rotation'
    BY <1>1, <1>2, <2>1, <2>2, <2>3, <2>5 DEF Rotation
  <2>8. ~revived
    BY <1>2, <2>1 DEF CachesEnd
  <2>9. CachesEnd'
    BY <1>2, <2>1, <2>2, <2>5, <2>8 DEF CachesEnd, HasKeys
  <2>10. since'.shredded # Never /\ ~revived' => tenant'.wrapped = "none"
    BY <1>2, <2>1, <2>5, <2>8 DEF Rotation, ShreddedForGood
  <2>11. tenant'.wrapped # "none" => \A r \in Replicas : tenant'.wrapped \in Opens(replica'[r].stage)
    <3>1. ASSUME NEW r \in Replicas PROVE "new" \in Opens(replica[r].stage)
      <4>1. replica[r].stage \in {1, 2}
        BY <1>1, <2>3
      <4> QED BY <4>1, OpensIs
    <3>2. CASE tenant.status = "gone"
      BY <1>2, <2>5, <3>2 DEF Rotation
    <3>3. CASE tenant.status # "gone"
      BY <2>1, <2>5, <3>1, <3>3
    <3> QED BY <3>2, <3>3
  <2> QED BY <2>6, <2>7, <2>9, <2>10, <2>11, RotationOpens
<1>16. ASSUME NEW r \in Replicas, Restarts(r) PROVE OperatorInv'
  <2>1. /\ UNCHANGED <<tenant, stage, command, since, revived>>
        /\ replica' = [replica EXCEPT ![r] = [stage |-> stage, known |-> "none", left |-> 0, keysLeft |-> 0]]
    BY <1>16 DEF Restarts, Fresh
  <2>2. /\ replica' \in [Replicas -> ReplicaType]
        /\ \A q \in Replicas : q # r => replica'[q] = replica[q]
        /\ replica'[r].stage = stage /\ replica'[r].known = "none" /\ replica'[r].keysLeft = 0
    BY <1>1, <2>1 DEF ReplicaType
  <2>3. OperatorTypeOK'
    BY <1>2, <2>1, <2>2 DEF OperatorTypeOK, ReplicaType
  <2>4. Rotation'
    BY <1>1, <1>2, <2>1, <2>2 DEF Rotation
  <2>5. CachesEnd'
    BY <1>2, <2>1, <2>2 DEF CachesEnd, HasKeys
  <2>6. tenant.wrapped # "none" => tenant.wrapped \in Opens(stage)
    <3>1. /\ stage = 0 => tenant.wrapped # "new"
          /\ stage = 2 => tenant.wrapped # "old"
      BY <1>2 DEF Rotation
    <3>2. stage \in {0, 1, 2}
      BY <1>1
    <3> QED BY <1>1, <3>1, <3>2, OpensIs
  <2>7. tenant'.wrapped # "none" => \A q \in Replicas : tenant'.wrapped \in Opens(replica'[q].stage)
    BY <1>2, <2>1, <2>2, <2>6 DEF ShreddedForGood
  <2> QED BY <1>2, <2>1, <2>3, <2>4, <2>5, <2>7, RotationOpens DEF ShreddedForGood
<1>17. ASSUME NEW r \in Replicas, Resolves(r) PROVE OperatorInv'
  <2>1. /\ UNCHANGED <<tenant, stage, command, since, revived>> /\ tenant.status \in {"active", "suspended"}
        /\ replica' = [replica EXCEPT ![r].known = tenant.status, ![r].left = ResolverTTL]
    BY <1>17 DEF Resolves
  <2>2. /\ replica' \in [Replicas -> ReplicaType]
        /\ \A q \in Replicas : q # r => replica'[q] = replica[q]
        /\ replica'[r].stage = replica[r].stage /\ replica'[r].known = tenant.status
        /\ replica'[r].keysLeft = replica[r].keysLeft /\ replica'[r].left = ResolverTTL
    <3> DEFINE now == [replica[r] EXCEPT !.known = tenant.status, !.left = ResolverTTL]
    <3>1. replica[r] \in ReplicaType /\ ResolverTTL \in 0..ResolverTTL
      BY <1>1
    <3>2. /\ now \in ReplicaType /\ now.stage = replica[r].stage /\ now.known = tenant.status
          /\ now.keysLeft = replica[r].keysLeft /\ now.left = ResolverTTL
      BY <2>1, <3>1 DEF ReplicaType
    <3>3. replica' = [replica EXCEPT ![r] = now]
      BY <1>1, <2>1
    <3> HIDE DEF now
    <3> QED BY <1>1, <3>2, <3>3
  <2>3. OperatorTypeOK'
    BY <1>2, <2>1, <2>2 DEF OperatorTypeOK, ReplicaType
  <2>4. \A q \in Replicas : replica'[q].stage = replica[q].stage /\ replica'[q].keysLeft = replica[q].keysLeft
    BY <2>2
  <2>5. Rotation'
    BY <1>1, <1>2, <2>1, <2>4 DEF Rotation
  <2>6. CachesEnd'
    BY <1>2, <2>1, <2>2, <2>4 DEF CachesEnd, HasKeys
  <2>7. tenant'.wrapped # "none" => \A q \in Replicas : tenant'.wrapped \in Opens(replica'[q].stage)
    BY <1>2, <2>1, <2>4 DEF ShreddedForGood
  <2> QED BY <1>2, <2>1, <2>3, <2>5, <2>6, <2>7, RotationOpens DEF ShreddedForGood
<1>18. ASSUME NEW r \in Replicas, Unwraps(r) PROVE OperatorInv'
  <2>1. /\ UNCHANGED <<tenant, stage, command, since, revived>>
        /\ tenant.wrapped \in Opens(replica[r].stage)
        /\ replica' = [replica EXCEPT ![r].keysLeft = KeysTTL]
    BY <1>18 DEF Unwraps
  <2>2. /\ replica' \in [Replicas -> ReplicaType]
        /\ \A q \in Replicas : q # r => replica'[q] = replica[q]
        /\ replica'[r].stage = replica[r].stage /\ replica'[r].known = replica[r].known
        /\ replica'[r].left = replica[r].left
    BY <1>1, <2>1 DEF ReplicaType
  <2>3. OperatorTypeOK'
    BY <1>2, <2>1, <2>2 DEF OperatorTypeOK, ReplicaType
  <2>4. \A q \in Replicas : /\ replica'[q].stage = replica[q].stage /\ replica'[q].known = replica[q].known
                            /\ replica'[q].left = replica[q].left
    BY <2>2
  <2>5. Rotation'
    BY <1>1, <1>2, <2>1, <2>4 DEF Rotation
  <2>6. tenant.wrapped # "none"
    BY <1>1, <2>1 DEF Opens
  <2>7. since.shredded = Never \/ revived
    BY <1>2, <2>6 DEF ShreddedForGood
  <2>8. CachesEnd'
    BY <1>2, <2>1, <2>4, <2>7 DEF CachesEnd
  <2>9. tenant'.wrapped # "none" => \A q \in Replicas : tenant'.wrapped \in Opens(replica'[q].stage)
    BY <1>2, <2>1, <2>4 DEF ShreddedForGood
  <2> QED BY <1>2, <2>1, <2>3, <2>5, <2>8, <2>9, RotationOpens DEF ShreddedForGood
<1> QED BY <1>3, <1>4, <1>6, <1>7, <1>8, <1>9, <1>10, <1>11, <1>12, <1>13, <1>14, <1>15, <1>16, <1>17, <1>18 DEF OperatorNext

-----------------------------------------------------------------------------
(* The rate limit: proofs *)

CounterType == [row : BOOLEAN, hits : 0..Cardinality(Callers), until : 0..(LastTick + Window), blocked : 0..(LastTick + Window)]
CallerType == [pc : {"idle", "select", "block", "passed", "refused", "failed"}, of : 0..Cardinality(Callers), late : BOOLEAN]
EverCounted == {c \in Callers : caller[c].of # 0}

LEMMA CallersFinite ==
  /\ Cardinality(Callers) \in Nat
  /\ \A S \in SUBSET Callers : IsFiniteSet(S) /\ Cardinality(S) \in Nat /\ Cardinality(S) <= Cardinality(Callers)
  /\ \A S \in SUBSET Callers : \A T \in SUBSET S : Cardinality(T) <= Cardinality(S)
  /\ Cardinality({}) = 0 /\ \A c \in Callers : Cardinality({c}) = 1
  /\ \A S \in SUBSET Callers : \A c \in Callers \ S : Cardinality(S \cup {c}) = Cardinality(S) + 1
<1>1. IsFiniteSet(Callers)
  BY ThrottleAssumption
<1>2. \A S \in SUBSET Callers : IsFiniteSet(S) /\ Cardinality(S) <= Cardinality(Callers)
  BY <1>1, FS_Subset
<1>3. \A S \in SUBSET Callers : \A T \in SUBSET S : Cardinality(T) <= Cardinality(S)
  BY <1>2, FS_Subset
<1>4. \A S \in SUBSET Callers : Cardinality(S) \in Nat
  BY <1>2, FS_CardinalityType
<1>5. \A S \in SUBSET Callers : \A c \in Callers \ S : Cardinality(S \cup {c}) = Cardinality(S) + 1
  BY <1>2, FS_AddElement
<1> QED BY <1>1, <1>2, <1>3, <1>4, <1>5, FS_CardinalityType, FS_EmptySet, FS_Singleton

LEMMA ThrottleTyped ==
  ThrottleTypeOK =>
    /\ tick \in 0..LastTick /\ turn \in Nat /\ turn <= Cardinality(Callers)
    /\ counter \in CounterType /\ caller \in [Callers -> CallerType]
    /\ counter.row \in BOOLEAN /\ counter.hits \in Nat /\ counter.blocked \in 0..(LastTick + Window)
    /\ \A c \in Callers : caller[c] \in CallerType /\ caller[c].of \in Nat
    /\ Limit \in Nat /\ Window \in Nat /\ LastTick \in Nat /\ Cardinality(Callers) \in Nat
  BY ThrottleAssumption, CallersFinite DEF ThrottleTypeOK, CounterType, CallerType

LEMMA ThrottleInits == ThrottleInit => ThrottleInv
<1> SUFFICES ASSUME ThrottleInit PROVE ThrottleInv
  OBVIOUS
<1>1. Limit \in Nat /\ Window \in Nat /\ LastTick \in Nat /\ Cardinality(Callers) \in Nat
  BY ThrottleAssumption, CallersFinite
<1>2. counter = [row |-> FALSE, hits |-> 0, until |-> 0, blocked |-> 0] /\ turn = 0 /\ tick = 0
  BY DEF ThrottleInit, NoCounter
<1>3. \A c \in Callers : caller[c] = [pc |-> "idle", of |-> 0, late |-> FALSE]
  BY DEF ThrottleInit
<1>4. ThrottleTypeOK
  BY <1>1, <1>2 DEF ThrottleInit, ThrottleTypeOK
<1>5. HitsCounted
  <2>1. Cardinality({c \in Callers : caller[c].of # 0}) \in Nat
    BY CallersFinite
  <2> QED BY <1>2, <1>3, <2>1 DEF HitsCounted
<1>6. LimitHolds
  BY <1>2 DEF LimitHolds
<1> QED BY <1>4, <1>5, <1>6 DEF ThrottleInv

\* Nothing more is counted or let through.
LEMMA NothingCounted ==
  ASSUME ThrottleInv, ThrottleTypeOK', turn' = turn,
         counter'.row => counter.row /\ counter'.hits = counter.hits,
         \A c \in Callers : /\ caller'[c].of = caller[c].of
                            /\ caller'[c].pc = "idle" => caller[c].pc = "idle"
                            /\ caller'[c].pc = "passed" => caller'[c] = caller[c]
  PROVE  ThrottleInv'
<1>1. CountedIn(turn)' = CountedIn(turn) /\ {c \in Callers : caller'[c].of # 0} = {c \in Callers : caller[c].of # 0}
  BY DEF CountedIn
<1>2. HitsCounted'
  BY <1>1 DEF ThrottleInv, HitsCounted
<1>3. ASSUME NEW w \in 1..turn PROVE Cardinality(PassedIn(w)') <= Limit
  <2>1. PassedIn(w)' \subseteq PassedIn(w) /\ PassedIn(w) \in SUBSET Callers
    BY DEF PassedIn
  <2>2. Cardinality(PassedIn(w)) <= Limit
    BY DEF ThrottleInv, LimitHolds, PassedIn
  <2>3. Cardinality(PassedIn(w)') <= Cardinality(PassedIn(w)) /\ Cardinality(PassedIn(w)') \in Nat /\ Cardinality(PassedIn(w)) \in Nat
    BY <2>1, CallersFinite
  <2> QED BY <2>2, <2>3, ThrottleAssumption
<1>4. LimitHolds'
  BY <1>3 DEF LimitHolds, PassedIn
<1> QED BY <1>2, <1>4 DEF ThrottleInv

LEMMA UpsertKeepsLimit ==
  ASSUME ThrottleInv, NEW c \in Callers, Upserts(c)
  PROVE  ThrottleInv'
<1>1. /\ tick \in 0..LastTick /\ turn \in Nat /\ turn <= Cardinality(Callers)
      /\ counter \in CounterType /\ caller \in [Callers -> CallerType]
      /\ counter.row \in BOOLEAN /\ counter.hits \in Nat /\ counter.blocked \in 0..(LastTick + Window)
      /\ \A x \in Callers : caller[x] \in CallerType /\ caller[x].of \in Nat
      /\ Limit \in Nat /\ Window \in Nat /\ LastTick \in Nat /\ Cardinality(Callers) \in Nat
  BY ThrottleTyped DEF ThrottleInv
<1>2. /\ caller[c].pc = "idle" /\ counter' = NextCount /\ tick' = tick
      /\ turn' = IF ~counter.row \/ Over THEN turn + 1 ELSE turn
      /\ caller' = [caller EXCEPT ![c] = [pc |-> "select", of |-> turn', late |-> FALSE]]
  BY DEF Upserts
<1>3. /\ counter.row => turn >= 1 /\ counter.hits = Cardinality(CountedIn(turn))
      /\ \A x \in Callers : caller[x].of <= turn
      /\ caller[c].of = 0 /\ turn <= Cardinality(EverCounted)
  BY <1>2 DEF ThrottleInv, HitsCounted, EverCounted
<1>4. turn' \in Nat /\ turn' >= 1 /\ turn' >= turn
  BY <1>1, <1>2, <1>3
<1>5. /\ caller'[c] = [pc |-> "select", of |-> turn', late |-> FALSE]
      /\ \A x \in Callers \ {c} : caller'[x] = caller[x]
  BY <1>1, <1>2
<1>6. /\ EverCounted' = EverCounted \cup {c} /\ c \notin EverCounted /\ EverCounted \in SUBSET Callers /\ EverCounted' \in SUBSET Callers
  BY <1>1, <1>3, <1>4, <1>5 DEF EverCounted
<1>7. turn' <= Cardinality(EverCounted') /\ turn' <= Cardinality(Callers)
  <2>1. Cardinality(EverCounted') = Cardinality(EverCounted) + 1 /\ Cardinality(EverCounted) \in Nat
        /\ Cardinality(EverCounted') <= Cardinality(Callers)
    BY <1>6, CallersFinite
  <2> QED BY <1>1, <1>2, <1>3, <2>1
<1>8. /\ counter'.row = TRUE /\ counter'.hits = Cardinality(CountedIn(turn)') /\ counter' \in CounterType
  <2>0. CountedIn(turn)' \in SUBSET Callers
    BY DEF CountedIn
  <2>1. CASE ~counter.row \/ Over
    <3>1. counter' = [row |-> TRUE, hits |-> 1, until |-> tick + Window,
                      blocked |-> IF counter.row THEN counter.blocked ELSE 0]
      BY <1>2, <2>1 DEF NextCount
    <3>2. CountedIn(turn)' = {c}
      BY <1>1, <1>2, <1>3, <1>5, <2>1 DEF CountedIn
    <3>3. Cardinality(CountedIn(turn)') = 1 /\ 1 <= Cardinality(Callers)
      BY <1>1, <2>0, <3>2, CallersFinite
    <3>4. tick + Window \in 0..(LastTick + Window) /\ (IF counter.row THEN counter.blocked ELSE 0) \in 0..(LastTick + Window)
      BY <1>1
    <3> QED BY <1>1, <3>1, <3>3, <3>4 DEF CounterType
  <2>2. CASE counter.row /\ ~Over
    <3>1. counter' = [counter EXCEPT !.hits = counter.hits + 1] /\ turn' = turn
      BY <1>2, <2>2 DEF NextCount
    <3>2. CountedIn(turn)' = CountedIn(turn) \cup {c} /\ c \in Callers \ CountedIn(turn) /\ CountedIn(turn) \in SUBSET Callers
      BY <1>1, <1>3, <1>5, <2>2, <3>1 DEF CountedIn
    <3>3. Cardinality(CountedIn(turn)') = Cardinality(CountedIn(turn)) + 1
      BY <3>2, CallersFinite
    <3>4. Cardinality(CountedIn(turn)') <= Cardinality(Callers) /\ Cardinality(CountedIn(turn)') \in Nat
      BY <2>0, CallersFinite
    <3>5. counter.hits + 1 \in 0..Cardinality(Callers) /\ counter.hits + 1 = Cardinality(CountedIn(turn)')
      BY <1>1, <1>3, <2>2, <3>3, <3>4
    <3> QED BY <1>1, <2>2, <3>1, <3>5 DEF CounterType
  <2> QED BY <2>1, <2>2
<1>9. ThrottleTypeOK'
  <2>1. [pc |-> "select", of |-> turn', late |-> FALSE] \in CallerType
    BY <1>1, <1>4, <1>7 DEF CallerType
  <2>2. caller' \in [Callers -> CallerType]
    BY <1>1, <1>2, <2>1
  <2> QED BY <1>1, <1>2, <1>4, <1>7, <1>8, <2>2 DEF ThrottleTypeOK, CounterType, CallerType
<1>10. HitsCounted'
  <2>1. \A x \in Callers : caller'[x].of <= turn' /\ (caller'[x].pc = "idle" => caller'[x].of = 0)
    <3> SUFFICES ASSUME NEW x \in Callers PROVE caller'[x].of <= turn' /\ (caller'[x].pc = "idle" => caller'[x].of = 0)
      OBVIOUS
    <3>1. CASE x = c
      BY <1>4, <1>5, <3>1
    <3>2. CASE x # c
      <4>1. caller'[x] = caller[x] /\ caller[x].of <= turn /\ caller[x].of \in Nat
            /\ (caller[x].pc = "idle" => caller[x].of = 0)
        BY <1>1, <1>5, <3>2 DEF ThrottleInv, HitsCounted
      <4> QED BY <1>1, <1>4, <4>1
    <3> QED BY <3>1, <3>2
  <2> QED BY <1>4, <1>7, <1>8, <2>1 DEF HitsCounted, EverCounted
<1>11. ASSUME NEW w \in 1..turn' PROVE Cardinality(PassedIn(w)') <= Limit
  <2>1. PassedIn(w)' \subseteq PassedIn(w) /\ PassedIn(w) \in SUBSET Callers
    BY <1>5 DEF PassedIn
  <2>2. Cardinality(PassedIn(w)') <= Cardinality(PassedIn(w)) /\ Cardinality(PassedIn(w)') \in Nat /\ Cardinality(PassedIn(w)) \in Nat
    BY <2>1, CallersFinite
  <2>3. CASE w \in 1..turn
    <3>1. Cardinality(PassedIn(w)) <= Limit
      BY <2>3 DEF ThrottleInv, LimitHolds, PassedIn
    <3> QED BY <1>1, <2>2, <3>1
  <2>4. CASE w \notin 1..turn
    <3>1. w > turn
      BY <1>1, <1>4, <2>4
    <3>2. PassedIn(w) = {}
      BY <1>1, <1>3, <3>1 DEF PassedIn
    <3>3. Cardinality(PassedIn(w)) = 0
      BY <3>2, CallersFinite
    <3> QED BY <1>1, <2>2, <3>3
  <2> QED BY <2>3, <2>4
<1>12. LimitHolds'
  BY <1>11 DEF LimitHolds, PassedIn
<1> QED BY <1>9, <1>10, <1>12 DEF ThrottleInv

LEMMA SelectKeepsLimit ==
  ASSUME ThrottleInv, NEW c \in Callers, Selects(c)
  PROVE  ThrottleInv'
<1> DEFINE pc == IF ~counter.row THEN "failed" ELSE IF Blocked THEN "refused" ELSE IF PastLimit THEN "block" ELSE "passed"
           late == caller[c].of # turn
<1>1. /\ tick \in 0..LastTick /\ turn \in Nat /\ turn <= Cardinality(Callers)
      /\ counter \in CounterType /\ caller \in [Callers -> CallerType]
      /\ counter.row \in BOOLEAN /\ counter.hits \in Nat
      /\ \A x \in Callers : caller[x] \in CallerType /\ caller[x].of \in Nat
      /\ Limit \in Nat /\ Cardinality(Callers) \in Nat
  BY ThrottleTyped DEF ThrottleInv
<1>2. /\ caller[c].pc = "select" /\ UNCHANGED <<tick, counter, turn>>
      /\ caller' = [caller EXCEPT ![c].pc = pc, ![c].late = late]
  BY DEF Selects
<1>3. /\ pc \in {"failed", "refused", "block", "passed"} /\ late \in BOOLEAN
      /\ pc = "passed" => counter.row /\ counter.hits <= Limit
  BY <1>1 DEF PastLimit
<1>4. ~late => caller[c].of = turn
  OBVIOUS
<1> HIDE DEF pc, late
<1>5. /\ caller' \in [Callers -> CallerType]
      /\ caller'[c].pc = pc /\ caller'[c].late = late /\ caller'[c].of = caller[c].of
      /\ \A x \in Callers \ {c} : caller'[x] = caller[x]
  BY <1>1, <1>2, <1>3 DEF CallerType
<1>6. ThrottleTypeOK'
  BY <1>2, <1>5 DEF ThrottleInv, ThrottleTypeOK, CallerType
<1>7. CountedIn(turn)' = CountedIn(turn) /\ EverCounted' = EverCounted
  BY <1>2, <1>5 DEF CountedIn, EverCounted
<1>8. HitsCounted'
  <2>1. /\ counter.row => turn >= 1 /\ counter.hits = Cardinality(CountedIn(turn))
        /\ turn <= Cardinality(EverCounted)
        /\ \A x \in Callers : caller[x].of <= turn /\ (caller[x].pc = "idle" => caller[x].of = 0)
    BY DEF ThrottleInv, HitsCounted, EverCounted
  <2>2. \A x \in Callers : caller'[x].of <= turn /\ (caller'[x].pc = "idle" => caller'[x].of = 0)
    <3>1. caller'[c].of <= turn /\ caller'[c].pc # "idle"
      BY <1>3, <1>5, <2>1
    <3> QED BY <1>5, <2>1, <3>1
  <2> QED BY <1>2, <1>7, <2>1, <2>2 DEF HitsCounted, EverCounted
<1>9. ASSUME NEW w \in 1..turn PROVE Cardinality(PassedIn(w)') <= Limit
  <2>1. CASE pc = "passed" /\ ~late /\ w = turn
    <3>1. PassedIn(w)' \subseteq CountedIn(turn) /\ CountedIn(turn) \in SUBSET Callers
      BY <1>4, <1>5, <2>1 DEF PassedIn, CountedIn
    <3>2. Cardinality(CountedIn(turn)) <= Limit
      BY <1>3, <2>1 DEF ThrottleInv, HitsCounted
    <3>3. Cardinality(PassedIn(w)') <= Cardinality(CountedIn(turn)) /\ Cardinality(PassedIn(w)') \in Nat
          /\ Cardinality(CountedIn(turn)) \in Nat
      BY <3>1, CallersFinite
    <3> QED BY <1>1, <3>2, <3>3
  <2>2. CASE ~(pc = "passed" /\ ~late /\ w = turn)
    <3>1. PassedIn(w)' \subseteq PassedIn(w) /\ PassedIn(w) \in SUBSET Callers
      <4>1. c \notin PassedIn(w)'
        <5>1. caller'[c] = [pc |-> "passed", of |-> w, late |-> FALSE] => pc = "passed" /\ ~late /\ caller[c].of = w
          <6>1. caller'[c] = [pc |-> "passed", of |-> w, late |-> FALSE] =>
                  caller'[c].pc = "passed" /\ caller'[c].of = w /\ ~caller'[c].late
            OBVIOUS
          <6>2. /\ caller'[c].pc = pc /\ caller'[c].of = caller[c].of
                /\ ~caller'[c].late => ~late
            BY <1>5
          <6> QED BY <6>1, <6>2
        <5> QED BY <1>4, <2>2, <5>1 DEF PassedIn
      <4>2. \A x \in Callers \ {c} : x \in PassedIn(w)' => x \in PassedIn(w)
        BY <1>5 DEF PassedIn
      <4> QED BY <4>1, <4>2 DEF PassedIn
    <3>2. Cardinality(PassedIn(w)) <= Limit
      BY DEF ThrottleInv, LimitHolds, PassedIn
    <3>3. Cardinality(PassedIn(w)') <= Cardinality(PassedIn(w)) /\ Cardinality(PassedIn(w)') \in Nat
          /\ Cardinality(PassedIn(w)) \in Nat
      BY <3>1, CallersFinite
    <3> QED BY <1>1, <3>2, <3>3
  <2> QED BY <2>1, <2>2
<1>10. LimitHolds'
  BY <1>2, <1>9 DEF LimitHolds, PassedIn
<1> QED BY <1>6, <1>8, <1>10 DEF ThrottleInv

LEMMA ThrottleStep == ASSUME ThrottleInv, [ThrottleNext]_throttleVars PROVE ThrottleInv'
<1>1. /\ tick \in 0..LastTick /\ counter \in CounterType /\ caller \in [Callers -> CallerType] /\ ThrottleTypeOK
      /\ \A x \in Callers : caller[x] \in CallerType
      /\ Window \in Nat /\ LastTick \in Nat /\ Cardinality(Callers) \in Nat
  BY ThrottleTyped DEF ThrottleInv
<1>2. CASE UNCHANGED throttleVars
  <2>1. UNCHANGED <<tick, counter, turn, caller>>
    BY <1>2 DEF throttleVars
  <2>2. ThrottleTypeOK'
    BY <1>1, <2>1 DEF ThrottleTypeOK
  <2> QED BY <2>1, <2>2, NothingCounted
<1>3. CASE TickPasses
  <2>1. tick < LastTick /\ tick' = tick + 1 /\ UNCHANGED <<counter, turn, caller>>
    BY <1>3 DEF TickPasses
  <2>2. ThrottleTypeOK'
    BY <1>1, <2>1 DEF ThrottleTypeOK
  <2> QED BY <2>1, <2>2, NothingCounted
<1>4. CASE Forgets
  <2>1. counter' = [row |-> FALSE, hits |-> 0, until |-> 0, blocked |-> 0] /\ UNCHANGED <<tick, turn, caller>>
    BY <1>4 DEF Forgets, NoCounter
  <2>2. counter' \in CounterType /\ counter'.row = FALSE
    BY <1>1, <2>1 DEF CounterType
  <2>3. ThrottleTypeOK'
    BY <1>1, <2>1, <2>2 DEF ThrottleTypeOK, CounterType
  <2> QED BY <2>1, <2>2, <2>3, NothingCounted
<1>5. ASSUME NEW c \in Callers, Blocks(c) PROVE ThrottleInv'
  <2>1. /\ counter' = IF counter.row THEN [counter EXCEPT !.blocked = tick + Window] ELSE counter
        /\ caller' = [caller EXCEPT ![c].pc = "refused"] /\ UNCHANGED <<tick, turn>>
    BY <1>5 DEF Blocks
  <2>2. /\ counter' \in CounterType /\ counter'.row = counter.row /\ counter'.hits = counter.hits
    <3>1. tick + Window \in 0..(LastTick + Window)
      BY <1>1
    <3> QED BY <1>1, <2>1, <3>1 DEF CounterType
  <2>3. /\ caller' \in [Callers -> CallerType]
        /\ caller'[c].pc = "refused" /\ caller'[c].of = caller[c].of
        /\ \A x \in Callers \ {c} : caller'[x] = caller[x]
    BY <1>1, <2>1 DEF CallerType
  <2>4. ThrottleTypeOK'
    BY <1>1, <2>1, <2>2, <2>3 DEF ThrottleTypeOK, CounterType, CallerType
  <2> QED BY <2>1, <2>2, <2>3, <2>4, NothingCounted
<1> QED BY <1>2, <1>3, <1>4, <1>5, UpsertKeepsLimit, SelectKeepsLimit DEF ThrottleNext

-----------------------------------------------------------------------------
(* The parking page: proofs *)

CalendarType == [view : [lot : Lots \cup {NoLot}, open : SUBSET LotDays, held : SUBSET LotDays],
                 picked : Picks, spot : Lots \cup {NoLot}, busy : BOOLEAN]
BookType == [kind : {"book"}, lot : Lots \cup {NoLot}, picked : Picks, spot : Lots \cup {NoLot},
             answer : {"none", "ok", "refused"}]
ReleaseType == [kind : {"release"}, lot : Lots \cup {NoLot}, day : LotDays, answer : {"none", "ok"}]

LEMMA BookingKinds ==
  CalendarShapes =>
    /\ calendar \in CalendarType /\ booking \in {NoBooking} \cup BookType \cup ReleaseType
    /\ booking.kind = "book" => booking \in BookType
    /\ booking.kind = "release" => booking \in ReleaseType
    /\ (booking = NoBooking) <=> (booking.kind = "none")
  BY DEF CalendarShapes, CalendarType, BookType, ReleaseType, NoBooking

LEMMA CalendarsInit == CalendarInit => CalendarInv
<1> SUFFICES ASSUME CalendarInit PROVE CalendarInv
  OBVIOUS
<1>1. CalendarShapes
  BY DEF CalendarInit, CalendarShapes, Picks, NotPicked, NoneSeen, NoBooking, Ask
<1>2. PickedOnView /\ BookedWherePicked
  BY DEF CalendarInit, PickedOnView, Quietly, BookedWherePicked, NotPicked, NoneSeen, NoBooking, Ask
<1> QED BY <1>1, <1>2 DEF CalendarInv

\* Nothing picked, or nothing more than before.
LEMMA FewerPicked ==
  ASSUME CalendarInv, calendar' \in CalendarType, UNCHANGED <<booking, calendars>>,
         calendar'.view = calendar.view, calendar'.busy = calendar.busy,
         \A d \in LotDays : calendar'.picked[d] \in {NotPicked, calendar.picked[d]}
  PROVE  CalendarInv'
<1>1. CalendarShapes'
  BY DEF CalendarInv, CalendarShapes, CalendarType
<1>2. \A d \in LotDays : Quietly(d)' => Quietly(d) /\ calendar'.picked[d] = calendar.picked[d]
  BY DEF Quietly
<1>3. PickedOnView'
  BY <1>2 DEF CalendarInv, PickedOnView
<1>4. BookedWherePicked'
  BY DEF CalendarInv, BookedWherePicked
<1> QED BY <1>1, <1>3, <1>4 DEF CalendarInv

LEMMA ServerKeepsPicks ==
  ASSUME CalendarInv, BooksMany \/ CancelsDay
  PROVE  CalendarInv'
<1>1. UNCHANGED <<calendar, calendars>> /\ booking # NoBooking
  BY DEF BooksMany, CancelsDay, NoBooking
<1>2. CASE booking.kind = "book"
  <2>1. booking \in BookType
    BY <1>2, BookingKinds DEF CalendarInv
  <2>2. PICK a \in {"ok", "refused"} : booking' = [booking EXCEPT !.answer = a]
    BY <1>2 DEF BooksMany, CancelsDay
  <2>3. /\ booking' \in BookType /\ booking'.kind = "book"
        /\ booking'.lot = booking.lot /\ booking'.picked = booking.picked
    BY <2>1, <2>2 DEF BookType
  <2>4. CalendarShapes' /\ booking' # NoBooking
    BY <1>1, <2>3 DEF CalendarInv, CalendarShapes, BookType, NoBooking
  <2>5. PickedOnView'
    BY <1>1, <2>3, <2>4 DEF CalendarInv, PickedOnView, Quietly
  <2>6. BookedWherePicked'
    BY <1>2, <2>3 DEF CalendarInv, BookedWherePicked
  <2> QED BY <2>4, <2>5, <2>6 DEF CalendarInv
<1>3. CASE booking.kind = "release"
  <2>1. booking \in ReleaseType
    BY <1>3, BookingKinds DEF CalendarInv
  <2>2. booking' = [booking EXCEPT !.answer = "ok"]
    BY <1>3 DEF BooksMany, CancelsDay
  <2>3. booking' \in ReleaseType /\ booking'.kind = "release" /\ booking'.lot = booking.lot
    BY <2>1, <2>2 DEF ReleaseType
  <2>4. CalendarShapes' /\ booking' # NoBooking
    BY <1>1, <2>3 DEF CalendarInv, CalendarShapes, ReleaseType, NoBooking
  <2>5. PickedOnView'
    BY <1>1, <2>3, <2>4 DEF CalendarInv, PickedOnView, Quietly
  <2>6. BookedWherePicked'
    BY <2>3 DEF BookedWherePicked
  <2> QED BY <2>4, <2>5, <2>6 DEF CalendarInv
<1> QED BY <1>2, <1>3 DEF BooksMany, CancelsDay

LEMMA CalendarStep == ASSUME CalendarInv, [CalendarNext]_calendarVars PROVE CalendarInv'
<1>1. /\ calendar \in CalendarType /\ calendar.picked \in Picks /\ calendar.view.lot \in Lots \cup {NoLot}
      /\ calendar.view \in [lot : Lots \cup {NoLot}, open : SUBSET LotDays, held : SUBSET LotDays]
      /\ calendar.spot \in Lots \cup {NoLot} /\ calendar.busy \in BOOLEAN
      /\ booking \in {NoBooking} \cup BookType \cup ReleaseType
      /\ calendars \subseteq [lot : Lots \cup {NoLot}, last : BOOLEAN]
  BY BookingKinds DEF CalendarInv, CalendarShapes, CalendarType
<1>2. [d \in LotDays |-> NotPicked] \in Picks
  BY DEF Picks, NotPicked
<1>3. ASSUME NEW c \in CalendarType
      PROVE  /\ Unpicked(c) \in CalendarType /\ Unpicked(c).view = c.view /\ Unpicked(c).busy = c.busy
             /\ Unpicked(c).picked = [d \in LotDays |-> NotPicked]
             /\ [Unpicked(c) EXCEPT !.spot = NoLot] \in CalendarType
             /\ [Unpicked(c) EXCEPT !.spot = NoLot].view = c.view
             /\ [Unpicked(c) EXCEPT !.spot = NoLot].busy = c.busy
             /\ [Unpicked(c) EXCEPT !.spot = NoLot].picked = [d \in LotDays |-> NotPicked]
  BY <1>2 DEF Unpicked, CalendarType
<1> DEFINE Empty == [d \in LotDays |-> NotPicked]
           Cleared == [Unpicked(calendar) EXCEPT !.spot = NoLot]
<1>14. /\ Unpicked(calendar) \in CalendarType /\ Unpicked(calendar).view = calendar.view
       /\ Unpicked(calendar).busy = calendar.busy /\ Unpicked(calendar).picked = Empty
       /\ Cleared \in CalendarType /\ Cleared.view = calendar.view
       /\ Cleared.busy = calendar.busy /\ Cleared.picked = Empty
  BY <1>1, <1>3
<1>15. \A d \in LotDays : Empty[d] = NotPicked
  OBVIOUS
<1> HIDE DEF Empty
<1>16. ASSUME NEW l \in Lots \cup {NoLot}, NEW last \in BOOLEAN,
              calendars' = calendars \cup {[lot |-> l, last |-> last]}
       PROVE  calendars' \subseteq [lot : Lots \cup {NoLot}, last : BOOLEAN]
  <2>1. [lot |-> l, last |-> last] \in [lot : Lots \cup {NoLot}, last : BOOLEAN]
    BY <1>16
  <2>2. \A a \in calendars' : a \in calendars \/ a = [lot |-> l, last |-> last]
    BY <1>16
  <2> QED BY <1>1, <2>1, <2>2
<1>4. CASE UNCHANGED calendarVars
  <2>1. UNCHANGED <<calendar, booking, calendars>>
    BY <1>4 DEF calendarVars
  <2> QED BY <2>1 DEF CalendarInv, CalendarShapes, PickedOnView, Quietly, BookedWherePicked
<1>5. ASSUME NEW lot \in Lots, ChangesLot(lot) PROVE CalendarInv'
  <2>1. /\ calendar' = Unpicked(calendar) /\ booking' = booking
        /\ calendars' = calendars \cup {[lot |-> lot, last |-> FALSE]}
    BY <1>5 DEF ChangesLot, Reading, Ask
  <2>6. /\ calendar' \in CalendarType /\ calendar'.busy = calendar.busy
        /\ \A d \in LotDays : calendar'.picked[d] = NotPicked
    BY <1>14, <1>15, <2>1
  <2>7. calendars' \subseteq [lot : Lots \cup {NoLot}, last : BOOLEAN]
    BY <1>16, <2>1
  <2>2. CalendarShapes'
    BY <2>1, <2>6, <2>7 DEF CalendarInv, CalendarShapes, CalendarType
  <2>3. \A d \in LotDays : ~Quietly(d)'
    BY <2>6 DEF Quietly
  <2>4. PickedOnView'
    BY <2>1, <2>3, <2>6 DEF CalendarInv, PickedOnView
  <2>5. BookedWherePicked'
    BY <2>1 DEF CalendarInv, BookedWherePicked
  <2> QED BY <2>2, <2>4, <2>5 DEF CalendarInv
<1>6. ASSUME NEW lot \in Lots, NEW d \in LotDays, OtherDevice(lot, d) PROVE CalendarInv'
  <2>1. UNCHANGED <<calendar, booking, calendars>>
    BY <1>6 DEF OtherDevice
  <2> QED BY <2>1 DEF CalendarInv, CalendarShapes, PickedOnView, Quietly, BookedWherePicked
<1>7. ASSUME NEW d \in LotDays, Toggles(d) PROVE CalendarInv'
  <2>1. UNCHANGED <<booking, calendars>> /\ calendar.view.lot # NoLot /\ ~calendar.busy
    BY <1>7 DEF Toggles, Clickable, OnScreen
  <2>2. CASE calendar' = [calendar EXCEPT !.picked[d] = NotPicked]
    <3>1. /\ calendar' \in CalendarType /\ calendar'.view = calendar.view /\ calendar'.busy = calendar.busy
          /\ \A x \in LotDays : calendar'.picked[x] \in {NotPicked, calendar.picked[x]}
      BY <1>1, <2>2 DEF CalendarType, Picks, NotPicked
    <3> QED BY <2>1, <3>1, FewerPicked
  <2>3. CASE calendar' = [calendar EXCEPT !.picked[d] =
               [lot |-> calendar.view.lot, quiet |-> \A a \in calendars : a.lot = calendar.view.lot]]
    <3> DEFINE quiet == \A a \in calendars : a.lot = calendar.view.lot
    <3>1. quiet \in BOOLEAN
      OBVIOUS
    <3>2. calendar' = [calendar EXCEPT !.picked[d] = [lot |-> calendar.view.lot, quiet |-> quiet]]
      BY <2>3
    <3> HIDE DEF quiet
    <3>3. /\ calendar' \in CalendarType /\ calendar'.view = calendar.view /\ calendar'.busy = calendar.busy
          /\ \A x \in LotDays \ {d} : calendar'.picked[x] = calendar.picked[x]
          /\ calendar'.picked[d] = [lot |-> calendar.view.lot, quiet |-> quiet]
      BY <1>1, <3>1, <3>2 DEF CalendarType, Picks
    <3>4. CalendarShapes'
      BY <2>1, <3>3 DEF CalendarInv, CalendarShapes, CalendarType
    <3>5. booking = NoBooking
      BY <2>1 DEF CalendarInv, PickedOnView
    <3>6. \A x \in LotDays \ {d} : Quietly(x)' => Quietly(x)
      BY <3>3 DEF Quietly
    <3>7. Quietly(d)' => quiet
      BY <3>3 DEF Quietly
    <3>8. \A x \in LotDays : Quietly(x)' =>
            /\ calendar'.view.lot # NoLot /\ calendar'.picked[x].lot = calendar'.view.lot
            /\ \A a \in calendars' : a.lot = calendar'.view.lot
      BY <2>1, <3>3, <3>6, <3>7 DEF CalendarInv, PickedOnView, quiet
    <3>9. PickedOnView'
      BY <2>1, <3>3, <3>5, <3>8 DEF CalendarInv, PickedOnView
    <3>10. BookedWherePicked'
      BY <2>1 DEF CalendarInv, BookedWherePicked
    <3> QED BY <3>4, <3>9, <3>10 DEF CalendarInv
  <2> QED BY <1>7, <2>2, <2>3 DEF Toggles
<1>8. ASSUME NEW d \in LotDays, GivesBack(d) PROVE CalendarInv'
  <2>1. /\ calendar' = [calendar EXCEPT !.busy = TRUE] /\ calendars' = calendars
        /\ booking' = [kind |-> "release", lot |-> calendar.view.lot, day |-> d, answer |-> "none"]
        /\ ~calendar.busy
    BY <1>8 DEF GivesBack, Clickable
  <2>2. /\ calendar' \in CalendarType /\ calendar'.view = calendar.view /\ calendar'.picked = calendar.picked
        /\ calendar'.busy = TRUE /\ booking' \in ReleaseType /\ booking'.lot = calendar.view.lot
        /\ booking'.kind = "release"
    BY <1>1, <2>1 DEF CalendarType, ReleaseType
  <2>3. CalendarShapes'
    BY <2>1, <2>2 DEF CalendarInv, CalendarShapes, CalendarType, ReleaseType
  <2>4. \A a \in calendars : ~a.last
    BY <2>1 DEF CalendarInv, PickedOnView
  <2>5. PickedOnView'
    BY <2>1, <2>2, <2>4 DEF CalendarInv, PickedOnView, Quietly
  <2>6. BookedWherePicked'
    BY <2>2 DEF BookedWherePicked
  <2> QED BY <2>3, <2>5, <2>6 DEF CalendarInv
<1>9. CASE BooksPicked
  <2>1. /\ calendar' = [calendar EXCEPT !.busy = TRUE] /\ calendars' = calendars
        /\ booking' = [kind |-> "book", lot |-> calendar.view.lot, picked |-> calendar.picked,
                       spot |-> calendar.spot, answer |-> "none"]
        /\ ~calendar.busy
    BY <1>9 DEF BooksPicked
  <2>2. /\ calendar' \in CalendarType /\ calendar'.view = calendar.view /\ calendar'.picked = calendar.picked
        /\ calendar'.busy = TRUE /\ booking' \in BookType /\ booking'.lot = calendar.view.lot
        /\ booking'.picked = calendar.picked
    BY <1>1, <2>1 DEF CalendarType, BookType
  <2>3. CalendarShapes'
    BY <2>1, <2>2 DEF CalendarInv, CalendarShapes, CalendarType, BookType
  <2>4. \A a \in calendars : ~a.last
    BY <2>1 DEF CalendarInv, PickedOnView
  <2>5. PickedOnView'
    BY <2>1, <2>2, <2>4 DEF CalendarInv, PickedOnView, Quietly
  <2>6. \A d \in LotDays : calendar.picked[d].quiet => calendar.picked[d].lot \in {calendar.view.lot, NoLot}
    BY DEF CalendarInv, PickedOnView, Quietly, NotPicked
  <2>7. BookedWherePicked'
    BY <2>2, <2>6 DEF BookedWherePicked
  <2> QED BY <2>3, <2>5, <2>7 DEF CalendarInv
<1>10. ASSUME NEW spot \in Lots \cup {NoLot}, ChoosesSpot(spot) PROVE CalendarInv'
  <2>1. calendar' = [calendar EXCEPT !.spot = spot] /\ UNCHANGED <<booking, calendars>>
    BY <1>10 DEF ChoosesSpot
  <2>2. /\ calendar' \in CalendarType /\ calendar'.view = calendar.view /\ calendar'.busy = calendar.busy
        /\ calendar'.picked = calendar.picked
    BY <1>1, <2>1 DEF CalendarType
  <2> QED BY <2>1, <2>2, FewerPicked
<1>11. CASE ClearsPicks
  <2>1. calendar' = [Unpicked(calendar) EXCEPT !.spot = NoLot] /\ UNCHANGED <<booking, calendars>>
    BY <1>11 DEF ClearsPicks
  <2>2. /\ calendar' \in CalendarType /\ calendar'.view = calendar.view /\ calendar'.busy = calendar.busy
        /\ \A d \in LotDays : calendar'.picked[d] = NotPicked
    BY <1>1, <1>14, <1>15, <2>1
  <2> QED BY <2>1, <2>2, FewerPicked
<1>12. CASE BookingAnswered
  <2>1. /\ booking # NoBooking /\ booking' = NoBooking
        /\ calendars' = calendars \cup {[lot |-> booking.lot, last |-> TRUE]}
        /\ calendar' = calendar \/ calendar' = [Unpicked(calendar) EXCEPT !.spot = NoLot]
    BY <1>12 DEF BookingAnswered, Reading, Ask
  <2>2. booking.lot \in Lots \cup {NoLot}
    BY <1>1, <2>1 DEF BookType, ReleaseType
  <2>3. /\ calendar' \in CalendarType /\ calendar'.view = calendar.view /\ calendar'.busy = calendar.busy
        /\ \A d \in LotDays : calendar'.picked[d] \in {NotPicked, calendar.picked[d]}
    BY <1>1, <1>14, <1>15, <2>1
  <2>10. calendars' \subseteq [lot : Lots \cup {NoLot}, last : BOOLEAN]
    BY <1>16, <2>1, <2>2
  <2>4. CalendarShapes'
    BY <2>1, <2>3, <2>10 DEF CalendarShapes, CalendarType
  <2>5. calendar.busy /\ \A a \in calendars : ~a.last
    BY <2>1 DEF CalendarInv, PickedOnView
  <2>6. \A d \in LotDays : Quietly(d)' => Quietly(d) /\ calendar'.picked[d] = calendar.picked[d]
    BY <2>3 DEF Quietly
  <2>7. \A d \in LotDays : Quietly(d) => booking.lot = calendar.view.lot
    BY <2>1 DEF CalendarInv, PickedOnView
  <2>11. \A a \in calendars' : a \in calendars \/ (a.lot = booking.lot /\ a.last)
    BY <2>1
  <2>12. \A d \in LotDays : Quietly(d)' =>
           /\ calendar'.view.lot # NoLot /\ calendar'.picked[d].lot = calendar'.view.lot
           /\ \A a \in calendars' : a.lot = calendar'.view.lot
    BY <2>3, <2>6, <2>7, <2>11 DEF CalendarInv, PickedOnView
  <2>13. \A a, b \in calendars' : a.last /\ b.last => a = b
    BY <2>1, <2>5
  <2>8. PickedOnView'
    BY <2>1, <2>3, <2>5, <2>12, <2>13 DEF PickedOnView
  <2>9. BookedWherePicked'
    BY <2>1 DEF BookedWherePicked, NoBooking
  <2> QED BY <2>4, <2>8, <2>9 DEF CalendarInv
<1>13. ASSUME NEW a \in calendars, CalendarCame(a) PROVE CalendarInv'
  <2>1. calendars' = calendars \ {a} /\ booking' = booking
    BY <1>13 DEF CalendarCame
  <2>2. a.lot \in Lots \cup {NoLot} /\ a.last \in BOOLEAN
    BY <1>1
  <2>3. PICK view \in [lot : Lots \cup {NoLot}, open : SUBSET LotDays, held : SUBSET LotDays] :
          /\ calendar' = [calendar EXCEPT !.view = view, !.busy = calendar.busy /\ ~a.last]
          /\ view = calendar.view \/ view.lot = a.lot \/ a.lot = NoLot
    <3>1. CASE \E lot \in IF a.lot = NoLot THEN Lots ELSE {a.lot} : \E open \in SUBSET (LotDays \ Held) :
                 calendar' = [calendar EXCEPT !.view = Seen(lot, open), !.busy = @ /\ ~a.last]
      <4>1. PICK lot \in IF a.lot = NoLot THEN Lots ELSE {a.lot} : \E open \in SUBSET (LotDays \ Held) :
              calendar' = [calendar EXCEPT !.view = Seen(lot, open), !.busy = @ /\ ~a.last]
        BY <3>1
      <4>2. PICK open \in SUBSET (LotDays \ Held) :
              calendar' = [calendar EXCEPT !.view = Seen(lot, open), !.busy = @ /\ ~a.last]
        BY <4>1
      <4>3. /\ Seen(lot, open) \in [lot : Lots \cup {NoLot}, open : SUBSET LotDays, held : SUBSET LotDays]
            /\ Seen(lot, open).lot = lot
        BY <2>2 DEF Seen, Held
      <4> QED BY <4>2, <4>3
    <3>2. CASE calendar' = [calendar EXCEPT !.busy = @ /\ ~a.last]
      <4>1. calendar' = [calendar EXCEPT !.view = calendar.view, !.busy = calendar.busy /\ ~a.last]
        BY <1>1, <3>2 DEF CalendarType
      <4> QED BY <1>1, <4>1
    <3> QED BY <1>13, <3>1, <3>2 DEF CalendarCame
  <2>4. /\ calendar' \in CalendarType /\ calendar'.view = view /\ calendar'.picked = calendar.picked
        /\ calendar'.busy = (calendar.busy /\ ~a.last)
    BY <1>1, <2>2, <2>3 DEF CalendarType
  <2>5. CalendarShapes'
    BY <2>1, <2>4 DEF CalendarInv, CalendarShapes, CalendarType
  <2>6. \A d \in LotDays : Quietly(d) => view.lot = calendar.view.lot
    BY <2>3 DEF CalendarInv, PickedOnView
  <2>7. \A d \in LotDays : Quietly(d)' => Quietly(d)
    BY <2>4 DEF Quietly
  <2>8. booking # NoBooking => ~a.last
    BY DEF CalendarInv, PickedOnView
  <2>9. PickedOnView'
    BY <1>1, <2>1, <2>2, <2>4, <2>6, <2>7, <2>8 DEF CalendarInv, PickedOnView
  <2>10. BookedWherePicked'
    BY <2>1 DEF CalendarInv, BookedWherePicked
  <2> QED BY <2>5, <2>9, <2>10 DEF CalendarInv
<1> QED BY <1>4, <1>5, <1>6, <1>7, <1>8, <1>9, <1>10, <1>11, <1>12, <1>13, ServerKeepsPicks DEF CalendarNext

-----------------------------------------------------------------------------
(* The parts together *)

AllInv ==
  /\ ParcelInv /\ RollInv /\ PairInv /\ TextInv
  /\ DirectoryInv /\ OperatorInv /\ ThrottleInv /\ CalendarInv
  /\ focus \in Parts

\* A step is a step of one part, and none of the others.
LEMMA StepOfParts ==
  ASSUME [Next]_vars
  PROVE  /\ [ParcelNext]_parcelVars /\ [RollNext]_rollVars /\ [PairNext]_pairVars /\ [TextNext]_textVars
         /\ [DirectoryNext]_directoryVars /\ [OperatorNext]_operatorVars /\ [ThrottleNext]_throttleVars
         /\ [CalendarNext]_calendarVars /\ UNCHANGED focus
<1>1. CASE ParcelRoom
  BY <1>1 DEF ParcelRoom
<1>2. CASE Muster
  BY <1>2 DEF Muster
<1>3. CASE Enrolment
  BY <1>3 DEF Enrolment
<1>4. CASE SigningDesk
  BY <1>4 DEF SigningDesk
<1>5. CASE PeopleDesk
  BY <1>5 DEF PeopleDesk
<1>6. CASE OperatorRoom
  BY <1>6 DEF OperatorRoom
<1>7. CASE Gate
  BY <1>7 DEF Gate
<1>8. CASE ParkingPage
  BY <1>8 DEF ParkingPage
<1>9. CASE UNCHANGED vars
  BY <1>9 DEF vars
<1> QED BY <1>1, <1>2, <1>3, <1>4, <1>5, <1>6, <1>7, <1>8, <1>9 DEF Next

LEMMA AllAlways == Spec => []AllInv
<1>1. Init => AllInv
  BY ParcelInits, RollInits, PairInits, TextsInit, DirectoryInits, OperatorInits, ThrottleInits, CalendarsInit
     DEF Init, AllInv
<1>2. AllInv /\ [Next]_vars => AllInv'
  <2> SUFFICES ASSUME AllInv, [Next]_vars PROVE AllInv'
    OBVIOUS
  <2>1. ParcelInv' /\ RollInv' /\ PairInv' /\ TextInv'
    BY StepOfParts, ParcelStep, RollStep, PairStep, TextsStep DEF AllInv
  <2>2. DirectoryInv' /\ OperatorInv' /\ ThrottleInv' /\ CalendarInv'
    BY StepOfParts, DirectoryStep, OperatorStep, ThrottleStep, CalendarStep DEF AllInv
  <2>3. focus' \in Parts
    BY StepOfParts DEF AllInv
  <2> QED BY <2>1, <2>2, <2>3 DEF AllInv
<1> QED BY <1>1, <1>2, PTL DEF Spec

(* The types: every table, request, cache and counter of the seven parts that have one is
   what the code can put there, for any number of each. *)
THEOREM TypeCorrect == Spec => []TypeOK
<1>1. AllInv => TypeOK
  BY DEF AllInv, TypeOK, ParcelInv, RollInv, PairInv, TextInv, DirectoryInv, OperatorInv, ThrottleInv
<1> QED BY <1>1, AllAlways, PTL

(* A parcel's photo is kept while the parcel is there and for the week after its handover,
   and its record six months, whatever handovers, removals and retention runs cross. *)
THEOREM ParcelPhotos == Spec => []PhotosFollowParcels
<1>1. AllInv => PhotosFollowParcels
  BY DEF AllInv, ParcelInv
<1> QED BY <1>1, AllAlways, PTL

(* At a site one roll call runs unless two alarms were given at once, and the counts of an
   ended one are those of its ticks unless a tick came after the count. *)
THEOREM RollCallHolds == Spec => []RollCallKept
<1>1. AllInv => RollCallKept
  BY DEF AllInv, RollInv
<1> QED BY <1>1, AllAlways, PTL

(* A code enrols one device, of its kind; the tablets enrolled with codes made when no other
   was out, and the sites put in use by requests that crossed no other, are within the plan. *)
THEOREM PlanRespected == Spec => []PlanHolds
<1>1. AllInv => PlanHolds
  BY DEF AllInv, PairInv
<1> QED BY <1>1, AllAlways, PTL

(* A check-in past its checks records a notice and texts each of which was in force at some
   moment of it, and every document the site asked for all that while is accepted. *)
THEOREM GuestsAccept == Spec => []AcceptedInForce
<1>1. AllInv => AcceptedInForce
  BY DEF AllInv, TextInv
<1> QED BY <1>1, AllAlways, PTL

(* No save takes away a link its request could not see, a person stays linked to some site,
   an employee is the entry of one person at most, and a linked person has the employee's
   name unless a save outdated a change of the HR system. *)
THEOREM DirectoryRight == Spec => []DirectoryHolds
<1>1. AllInv => DirectoryHolds
  BY DEF AllInv, DirectoryInv
<1> QED BY <1>1, AllAlways, PTL

(* Keys that were shredded never come back unless a rewrap crossed the delete, no replica has
   them after KeysTTL, none serves a suspended tenant after ResolverTTL, and through the
   rotation every replica opens the keys of a tenant that has them. *)
THEOREM ShreddingHolds == Spec => []ShreddedForGood
<1>1. AllInv => ShreddedForGood
  BY DEF AllInv, OperatorInv
<1> QED BY <1>1, AllAlways, PTL

(* At most Limit of the requests counted in a window are let through, but for those that
   read the counter when another had begun. *)
THEOREM LimitRespected == Spec => []LimitHolds
<1>1. AllInv => LimitHolds
  BY DEF AllInv, ThrottleInv
<1> QED BY <1>1, AllAlways, PTL

(* A day is booked at the site on whose calendar it was picked, unless it was picked while
   the calendar of another site was on its way. *)
THEOREM CalendarBooks == Spec => []BookedWherePicked
<1>1. AllInv => BookedWherePicked
  BY DEF AllInv, CalendarInv
<1> QED BY <1>1, AllAlways, PTL
=============================================================================
