----------------------------- MODULE Reception -----------------------------
(***************************************************************************)
(* The front desk of one site: invitations, the guest's pre-registration   *)
(* from the phone, the tablet's check-in and check-out, the console's      *)
(* check-out and erasure, the images all of them leave behind, and the     *)
(* retention job that removes what is past its time.                       *)
(*                                                                         *)
(* Every HTTP request is a process (Requests) that performs one operation. *)
(* The handlers are split where the code awaits: what a request read       *)
(* before a transaction, the snapshot its transaction reads from, and its  *)
(* commit are separate steps, so requests interleave as they do on several *)
(* API replicas over one database.  A conditional UPDATE reads the latest  *)
(* committed row, a SELECT inside a transaction reads the snapshot taken   *)
(* by the first SELECT (MySQL, REPEATABLE READ).                           *)
(*                                                                         *)
(* A visit is named by the check-in request that creates it, a stored file *)
(* by the request that writes it and its kind, and the data of a form by   *)
(* the request that carries it: none of the three needs an allocator.      *)
(*                                                                         *)
(* A definition under a "Bug:" comment is not part of the specification:   *)
(* it is the definition that follows with a plausible mistake in it, which *)
(* the properties must notice.                                             *)
(***************************************************************************)
EXTENDS Integers, FiniteSets

CONSTANTS
  Requests,                     \* request processes, each runs once
  Invitations,                  \* invitation ids
  ExitCodes,                    \* the codes crypto.randomCode can draw
  None,                         \* NULL
  Operations,                   \* the operations the requests may perform
  DayLength,                    \* clock ticks in a local day of the site
  MaxDaysAhead,                 \* MAX_DAYS_AHEAD
  InvitationKeepDays,           \* INVITATION_KEEP_DAYS
  VisitRetentionDays,           \* the country policy's retentions
  DocumentPhotoRetentionDays,
  AssetPhotoRetentionDays,
  DocumentPhotoRequired,        \* what the country policy asks for
  AssetPhotosRequired,
  MaxTime,                      \* bound on the clock
  MaxCrashes                    \* bound on the processes that die

Kinds == {"SIGNATURE", "DOCUMENT", "ASSET_IN", "ASSET_OUT"}
Visits == Requests
Files == Requests \X Kinds
Job == "retention"              \* the one holder of the 'retention' lock
Purgers == Requests \cup {Job}
AllOperations == {"submit", "cancel", "form", "preregistered", "checkout", "erase"}

ASSUME ReceptionAssumption ==
  /\ None \notin Requests \cup Invitations \cup ExitCodes \cup AllOperations
  /\ Requests \cap Invitations = {}
  /\ Job \notin Requests
  /\ Operations \subseteq AllOperations
  /\ DayLength \in Nat \ {0}
  /\ {MaxDaysAhead, InvitationKeepDays, VisitRetentionDays} \subseteq Nat
  /\ InvitationKeepDays > 0 \/ DayLength = 1
  /\ {DocumentPhotoRetentionDays, AssetPhotoRetentionDays} \subseteq Nat
  /\ {DocumentPhotoRequired, AssetPhotosRequired} \subseteq BOOLEAN
  /\ {MaxTime, MaxCrashes} \subseteq Nat

VARIABLES
  now,          \* the clock
  invitation,   \* table invitations
  visit,        \* table visits
  file,         \* table stored_files
  blobs,        \* keys present in the object storage
  arrivals,     \* visits whose arrival went into the webhook and push outboxes
  req,          \* the requests: operation, progress, what they have read
  todo,         \* todo[p]: files p has listed and still has to purge
  cut,          \* cut[p]: the file whose blob p deleted and whose row it did not mark yet
  job,          \* the retention run
  crashes       \* processes lost so far

vars == <<now, invitation, visit, file, blobs, arrivals, req, todo, cut, job, crashes>>

-----------------------------------------------------------------------------
(* Types and initial state *)

InvitationRow ==
  [status : {"ABSENT", "PENDING", "USED", "CANCELLED", "DELETED"},
   validFrom : Int, visit : Visits \cup {None}, pre : Requests \cup {None}]

\* data: the form whose personal data the row shows; None once anonymised.
VisitRow ==
  [status : {"ABSENT", "OPEN", "CLOSED", "AUTO_CLOSED", "ERASED"},
   code : ExitCodes \cup {None}, checkInAt : Int, data : Requests \cup {None}]

FileRow ==
  [state : {"ABSENT", "STORED", "PURGED"}, invitation : Invitations \cup {None},
   visit : Visits \cup {None}, purgeAfter : Int]

\* Where a request is in its handler.
Labels == {"idle", "submit", "cancel", "cancelFiles", "code", "checkin", "checkout",
           "purge", "forget", "done", "dead"}

RequestState ==
  [op : AllOperations \cup {None}, pc : Labels,
   inv : Invitations \cup {None}, visit : Visits \cup {None}, data : Requests \cup {None},
   code : ExitCodes \cup {None}, found : SUBSET Files, usable : BOOLEAN, since : Int]

JobState ==
  [pc : {"idle", "files", "visits", "images", "close", "invitations"},
   now : Int, visits : SUBSET Visits, visit : Visits \cup {None}]

TypeOK ==
  /\ now \in Int
  /\ invitation \in [Invitations -> InvitationRow]
  /\ visit \in [Visits -> VisitRow]
  /\ file \in [Files -> FileRow]
  /\ blobs \in SUBSET Files
  /\ arrivals \in SUBSET Visits
  /\ req \in [Requests -> RequestState]
  /\ todo \in [Purgers -> SUBSET Files]
  /\ cut \in [Purgers -> SUBSET Files]
  /\ job \in JobState
  /\ crashes \in Nat

Init ==
  /\ now = 0
  /\ invitation = [i \in Invitations |->
       [status |-> "ABSENT", validFrom |-> 0, visit |-> None, pre |-> None]]
  /\ visit = [v \in Visits |->
       [status |-> "ABSENT", code |-> None, checkInAt |-> 0, data |-> None]]
  /\ file = [f \in Files |->
       [state |-> "ABSENT", invitation |-> None, visit |-> None, purgeAfter |-> 0]]
  /\ blobs = {}
  /\ arrivals = {}
  /\ req = [r \in Requests |->
       [op |-> None, pc |-> "idle", inv |-> None, visit |-> None, data |-> None,
        code |-> None, found |-> {}, usable |-> FALSE, since |-> 0]]
  /\ todo = [p \in Purgers |-> {}]
  /\ cut = [p \in Purgers |-> {}]
  /\ job = [pc |-> "idle", now |-> 0, visits |-> {}, visit |-> None]
  /\ crashes = 0

-----------------------------------------------------------------------------
(* Dates, files and codes *)

AddDays(t, d) == t + d * DayLength
StartOfLocalDay(t) == (t \div DayLength) * DayLength
ValidUntil(i) == invitation[i].validFrom + DayLength
SmallerOf(a, b) == IF a <= b THEN a ELSE b

\* Days an image of a visit is kept, by kind.
KeepDays(kind) ==
  CASE kind = "SIGNATURE" -> VisitRetentionDays
    [] kind = "DOCUMENT" -> IF DocumentPhotoRequired
                              THEN SmallerOf(DocumentPhotoRetentionDays, VisitRetentionDays)
                              ELSE 0
    [] OTHER -> SmallerOf(AssetPhotoRetentionDays, VisitRetentionDays)

FilesOfInvitation(i) == {f \in Files : file[f].state = "STORED" /\ file[f].invitation = i}
FilesOfVisit(v) == {f \in Files : file[f].state = "STORED" /\ file[f].visit = v}

\* assertUsableAt, on a status and the current time.
UsableAt(i, status) ==
  /\ status = "PENDING"
  /\ invitation[i].validFrom <= now
  /\ now < ValidUntil(i)

\* The images a request writes in its transaction.
ImagesOf(r) ==
  LET kinds ==
        CASE req[r].pc = "submit" ->
               {"SIGNATURE"} \cup (IF DocumentPhotoRequired THEN {"DOCUMENT"} ELSE {})
          [] req[r].pc = "checkin" ->
               (IF req[r].op = "form"
                  THEN {"SIGNATURE"} \cup (IF DocumentPhotoRequired THEN {"DOCUMENT"} ELSE {})
                  ELSE {})
               \cup (IF AssetPhotosRequired THEN {"ASSET_IN"} ELSE {})
          [] req[r].pc = "checkout" -> IF AssetPhotosRequired THEN {"ASSET_OUT"} ELSE {}
          [] OTHER -> {}
  IN {r} \X kinds

\* A file row as FilesService.store leaves it.
StoredRow(i, v, purgeAfter) ==
  [state |-> "STORED", invitation |-> i, visit |-> v, purgeAfter |-> purgeAfter]

\* Request r goes on to label l, after purging the files F it has listed.
PurgeThen(r, F, l) == IF F = {} THEN l ELSE "purge"
AfterPurge(r) == IF req[r].op = "erase" THEN "forget" ELSE "done"

CanBegin(r, op) == req[r].pc = "idle" /\ op \in Operations

-----------------------------------------------------------------------------
(* Invitations: the console and the phone app of the employee *)

CreateInvitation(i, day) ==
  /\ invitation[i].status = "ABSENT"
  /\ now < AddDays(day, 1)
  /\ day <= AddDays(now, MaxDaysAhead)
  /\ invitation' = [invitation EXCEPT ![i].status = "PENDING", ![i].validFrom = day]
  /\ UNCHANGED <<now, visit, file, blobs, arrivals, req, todo, cut, job, crashes>>

\* cancel: own and assertOpen.
CancelLoad(r, i) ==
  /\ CanBegin(r, "cancel")
  /\ invitation[i].status = "PENDING"
  /\ now <= ValidUntil(i)
  /\ req' = [req EXCEPT ![r].op = "cancel", ![r].pc = "cancel", ![r].inv = i, ![r].since = now]
  /\ UNCHANGED <<now, invitation, visit, file, blobs, arrivals, todo, cut, job, crashes>>

\* Bug: the UPDATE by id alone.
CancelUpdateUnconditional(r) ==
  /\ req[r].pc = "cancel"
  /\ invitation' = [invitation EXCEPT ![req[r].inv].status = "CANCELLED"]
  /\ req' = [req EXCEPT ![r].pc = "cancelFiles"]
  /\ UNCHANGED <<now, visit, file, blobs, arrivals, todo, cut, job, crashes>>

\* The UPDATE is conditional, and its outcome is ignored.
CancelUpdate(r) ==
  /\ req[r].pc = "cancel"
  /\ invitation' = [invitation EXCEPT ![req[r].inv].status =
                      IF @ = "PENDING" THEN "CANCELLED" ELSE @]
  /\ req' = [req EXCEPT ![r].pc = "cancelFiles"]
  /\ UNCHANGED <<now, visit, file, blobs, arrivals, todo, cut, job, crashes>>

CancelFind(r) ==
  /\ req[r].pc = "cancelFiles"
  /\ LET F == FilesOfInvitation(req[r].inv)
     IN /\ todo' = [todo EXCEPT ![r] = F]
        /\ req' = [req EXCEPT ![r].pc = PurgeThen(r, F, "done")]
  /\ UNCHANGED <<now, invitation, visit, file, blobs, arrivals, cut, job, crashes>>

-----------------------------------------------------------------------------
(* The guest's phone *)

\* load and the checks, then the first SELECT of the transaction: the images to
\* replace are those of this snapshot.  One step, since a status that changes between
\* the two has changed for the conditional UPDATE too.
SubmitLoad(r, i) ==
  /\ CanBegin(r, "submit")
  /\ invitation[i].status = "PENDING"
  /\ now < ValidUntil(i)
  /\ req' = [req EXCEPT ![r].op = "submit", ![r].pc = "submit", ![r].inv = i,
                        ![r].found = FilesOfInvitation(i), ![r].since = now]
  /\ UNCHANGED <<now, invitation, visit, file, blobs, arrivals, todo, cut, job, crashes>>

\* Bug: the UPDATE by id alone.
SubmitCommitUnconditional(r) ==
  LET i == req[r].inv
      keep == AddDays(ValidUntil(i), InvitationKeepDays)
  IN /\ req[r].pc = "submit"
     /\ invitation' = [invitation EXCEPT ![i].pre = r]
     /\ file' = [f \in Files |-> IF f \in ImagesOf(r) THEN StoredRow(i, None, keep) ELSE file[f]]
     /\ blobs' = blobs \cup ImagesOf(r)
     /\ todo' = [todo EXCEPT ![r] = req[r].found]
     /\ req' = [req EXCEPT ![r].pc = PurgeThen(r, req[r].found, "done")]
     /\ UNCHANGED <<now, visit, arrivals, cut, job, crashes>>

\* Conditional UPDATE and images, committed together; only then the old images go.
SubmitCommit(r) ==
  LET i == req[r].inv
      keep == AddDays(ValidUntil(i), InvitationKeepDays)
  IN /\ req[r].pc = "submit"
     /\ invitation[i].status = "PENDING"
     /\ invitation' = [invitation EXCEPT ![i].pre = r]
     /\ file' = [f \in Files |-> IF f \in ImagesOf(r) THEN StoredRow(i, None, keep) ELSE file[f]]
     /\ blobs' = blobs \cup ImagesOf(r)
     /\ todo' = [todo EXCEPT ![r] = req[r].found]
     /\ req' = [req EXCEPT ![r].pc = PurgeThen(r, req[r].found, "done")]
     /\ UNCHANGED <<now, visit, arrivals, cut, job, crashes>>

\* INVITATION_USED: nothing was written yet.
SubmitRefused(r) ==
  /\ req[r].pc = "submit"
  /\ invitation[req[r].inv].status # "PENDING"
  /\ req' = [req EXCEPT ![r].pc = "done"]
  /\ UNCHANGED <<now, invitation, visit, file, blobs, arrivals, todo, cut, job, crashes>>

-----------------------------------------------------------------------------
(* The tablet: check-in *)

\* checkIn: the guest fills the form, with (i) or without (None) an invitation code.
FormLoad(r, i) ==
  /\ CanBegin(r, "form")
  /\ req' = [req EXCEPT ![r].op = "form", ![r].pc = "code", ![r].inv = i,
                        ![r].data = r, ![r].since = now]
  /\ UNCHANGED <<now, invitation, visit, file, blobs, arrivals, todo, cut, job, crashes>>

\* checkInPreregistered: the details are those stored with the invitation now.
PreregisteredLoad(r, i) ==
  /\ CanBegin(r, "preregistered")
  /\ UsableAt(i, invitation[i].status)
  /\ invitation[i].pre # None
  /\ \E f \in FilesOfInvitation(i) : f[2] = "SIGNATURE"
  /\ DocumentPhotoRequired => \E f \in FilesOfInvitation(i) : f[2] = "DOCUMENT"
  /\ req' = [req EXCEPT ![r].op = "preregistered", ![r].pc = "code", ![r].inv = i,
                        ![r].data = invitation[i].pre, ![r].since = now]
  /\ UNCHANGED <<now, invitation, visit, file, blobs, arrivals, todo, cut, job, crashes>>

\* uniqueCode, then the snapshot of the transaction: the invitation's status and,
\* for a pre-registration, its images.
CheckInBegin(r, c) ==
  LET i == req[r].inv
  IN /\ req[r].pc = "code"
     /\ \A v \in Visits : ~(visit[v].status = "OPEN" /\ visit[v].code = c)
     /\ req' = [req EXCEPT
          ![r].pc = "checkin",
          ![r].code = c,
          ![r].found = IF req[r].op = "preregistered" THEN FilesOfInvitation(i) ELSE {},
          ![r].usable = i # None /\ invitation[i].status = "PENDING"]
     /\ UNCHANGED <<now, invitation, visit, file, blobs, arrivals, todo, cut, job, crashes>>

\* Bug: the snapshot is trusted, the UPDATE is not conditional.
ConsumableBySnapshot(r) ==
  \/ req[r].inv = None
  \/ req[r].usable

\* consume: the snapshot says the invitation is usable, and the conditional UPDATE agrees.
Consumable(r) ==
  \/ req[r].inv = None
  \/ /\ req[r].usable
     /\ UsableAt(req[r].inv, invitation[req[r].inv].status)

\* An image of the invitation, taken over by visit r.
TakenOver(r, f) ==
  [file[f] EXCEPT !.invitation = None, !.visit = r, !.purgeAfter = AddDays(req[r].since, KeepDays(f[2]))]

\* persist: the visit, its own images, the images taken over from the invitation, the
\* invitation's use and the outbox rows, in one transaction; its dates are counted from the
\* clock the handler read before the transaction.
CheckInCommit(r) ==
  LET i == req[r].inv
  IN /\ req[r].pc = "checkin"
     /\ Consumable(r)
     /\ visit' = [visit EXCEPT ![r] = [status |-> "OPEN", code |-> req[r].code,
                                       checkInAt |-> req[r].since, data |-> req[r].data]]
     /\ file' = [f \in Files |->
          CASE f \in ImagesOf(r) -> StoredRow(None, r, AddDays(req[r].since, KeepDays(f[2])))
            [] f \in req[r].found -> TakenOver(r, f)
            [] OTHER -> file[f]]
     /\ blobs' = blobs \cup ImagesOf(r)
     /\ invitation' = IF i = None THEN invitation
                      ELSE [invitation EXCEPT ![i].status = "USED", ![i].visit = r]
     /\ arrivals' = arrivals \cup {r}
     /\ req' = [req EXCEPT ![r].pc = "done"]
     /\ UNCHANGED <<now, todo, cut, job, crashes>>

\* consume throws: the database rolls back, the object storage does not.
CheckInRollback(r) ==
  /\ req[r].pc = "checkin"
  /\ ~Consumable(r)
  /\ blobs' = blobs \cup ImagesOf(r)
  /\ req' = [req EXCEPT ![r].pc = "done"]
  /\ UNCHANGED <<now, invitation, visit, file, arrivals, todo, cut, job, crashes>>

-----------------------------------------------------------------------------
(* Check-out at the tablet and from the console, and erasure *)

CheckOutLoad(r, v) ==
  /\ CanBegin(r, "checkout")
  /\ visit[v].status = "OPEN"
  /\ req' = [req EXCEPT ![r].op = "checkout", ![r].pc = "checkout", ![r].visit = v, ![r].since = now]
  /\ UNCHANGED <<now, invitation, visit, file, blobs, arrivals, todo, cut, job, crashes>>

\* Bug: the UPDATE by id alone.
CheckOutCommitUnconditional(r) ==
  LET v == req[r].visit
  IN /\ req[r].pc = "checkout"
     /\ visit' = [visit EXCEPT ![v].status = "CLOSED"]
     /\ file' = [f \in Files |->
          IF f \in ImagesOf(r)
            THEN StoredRow(None, v, AddDays(visit[v].checkInAt, KeepDays(f[2])))
            ELSE file[f]]
     /\ blobs' = blobs \cup ImagesOf(r)
     /\ req' = [req EXCEPT ![r].pc = "done"]
     /\ UNCHANGED <<now, invitation, arrivals, todo, cut, job, crashes>>

CheckOutCommit(r) ==
  LET v == req[r].visit
  IN /\ req[r].pc = "checkout"
     /\ visit[v].status = "OPEN"
     /\ visit' = [visit EXCEPT ![v].status = "CLOSED"]
     /\ file' = [f \in Files |->
          IF f \in ImagesOf(r)
            THEN StoredRow(None, v, AddDays(visit[v].checkInAt, KeepDays(f[2])))
            ELSE file[f]]
     /\ blobs' = blobs \cup ImagesOf(r)
     /\ req' = [req EXCEPT ![r].pc = "done"]
     /\ UNCHANGED <<now, invitation, arrivals, todo, cut, job, crashes>>

\* VISIT_ALREADY_CLOSED: the conditional UPDATE comes before the photo is stored.
CheckOutRefused(r) ==
  /\ req[r].pc = "checkout"
  /\ visit[req[r].visit].status # "OPEN"
  /\ req' = [req EXCEPT ![r].pc = "done"]
  /\ UNCHANGED <<now, invitation, visit, file, blobs, arrivals, todo, cut, job, crashes>>

ManualCheckout(v) ==
  /\ visit[v].status = "OPEN"
  /\ visit' = [visit EXCEPT ![v].status = "CLOSED"]
  /\ UNCHANGED <<now, invitation, file, blobs, arrivals, req, todo, cut, job, crashes>>

\* erase, and the first query of anonymize.
EraseLoad(r, v) ==
  /\ CanBegin(r, "erase")
  /\ visit[v].status \notin {"ABSENT", "ERASED"}
  /\ todo' = [todo EXCEPT ![r] = FilesOfVisit(v)]
  /\ req' = [req EXCEPT ![r].op = "erase", ![r].visit = v, ![r].since = now,
                        ![r].pc = PurgeThen(r, FilesOfVisit(v), "forget")]
  /\ UNCHANGED <<now, invitation, visit, file, blobs, arrivals, cut, job, crashes>>

\* The unconditional UPDATE that ends anonymize.
EraseForget(r) ==
  /\ req[r].pc = "forget"
  /\ visit' = [visit EXCEPT ![req[r].visit].status = "ERASED", ![req[r].visit].data = None]
  /\ req' = [req EXCEPT ![r].pc = "done"]
  /\ UNCHANGED <<now, invitation, file, blobs, arrivals, todo, cut, job, crashes>>

-----------------------------------------------------------------------------
(* FilesService.purge, one listed file at a time, for a request or for the job *)

\* Bug: an error of the storage is swallowed.
PurgeBlobLost(p, f) ==
  /\ f \in todo[p]
  /\ cut[p] = {}
  /\ cut' = [cut EXCEPT ![p] = {f}]
  /\ UNCHANGED <<now, invitation, visit, file, blobs, arrivals, req, todo, job, crashes>>

PurgeBlob(p, f) ==
  /\ f \in todo[p]
  /\ cut[p] = {}
  /\ blobs' = blobs \ {f}
  /\ cut' = [cut EXCEPT ![p] = {f}]
  /\ UNCHANGED <<now, invitation, visit, file, arrivals, req, todo, job, crashes>>

PurgeMark(p, f) ==
  /\ f \in cut[p]
  /\ file' = [file EXCEPT ![f].state = "PURGED"]
  /\ cut' = [cut EXCEPT ![p] = {}]
  /\ todo' = [todo EXCEPT ![p] = @ \ {f}]
  /\ req' = IF p \in Requests /\ todo[p] = {f}
              THEN [req EXCEPT ![p].pc = AfterPurge(p)] ELSE req
  /\ UNCHANGED <<now, invitation, visit, blobs, arrivals, job, crashes>>

-----------------------------------------------------------------------------
(* The retention run, under the database lock *)

\* Bug: only the images of visits are looked for.
JobStartVisitsOnly ==
  /\ job.pc = "idle"
  /\ job' = [job EXCEPT !.pc = "files", !.now = now]
  /\ todo' = [todo EXCEPT ![Job] =
       {f \in Files : /\ file[f].state = "STORED" /\ file[f].visit # None
                      /\ file[f].purgeAfter < now}]
  /\ UNCHANGED <<now, invitation, visit, file, blobs, arrivals, req, cut, crashes>>

JobStart ==
  /\ job.pc = "idle"
  /\ job' = [job EXCEPT !.pc = "files", !.now = now]
  /\ todo' = [todo EXCEPT ![Job] =
       {f \in Files : file[f].state = "STORED" /\ file[f].purgeAfter < now}]
  /\ UNCHANGED <<now, invitation, visit, file, blobs, arrivals, req, cut, crashes>>

JobFindVisits ==
  /\ job.pc = "files"
  /\ todo[Job] = {}
  /\ job' = [job EXCEPT !.pc = "visits", !.visits =
       {v \in Visits : /\ visit[v].status # "ABSENT"
                       /\ visit[v].data # None
                       /\ visit[v].checkInAt < AddDays(job.now, -VisitRetentionDays)}]
  /\ UNCHANGED <<now, invitation, visit, file, blobs, arrivals, req, todo, cut, crashes>>

\* anonymize(v, erased: false): list the files, purge them, then clear the row.
JobAnonymise(v) ==
  /\ job.pc = "visits"
  /\ v \in job.visits
  /\ todo' = [todo EXCEPT ![Job] = FilesOfVisit(v)]
  /\ job' = [job EXCEPT !.pc = "images", !.visit = v]
  /\ UNCHANGED <<now, invitation, visit, file, blobs, arrivals, req, cut, crashes>>

JobForget ==
  /\ job.pc = "images"
  /\ todo[Job] = {}
  /\ visit' = [visit EXCEPT ![job.visit].data = None]
  /\ job' = [job EXCEPT !.pc = "visits", !.visits = @ \ {job.visit}, !.visit = None]
  /\ UNCHANGED <<now, invitation, file, blobs, arrivals, req, todo, cut, crashes>>

JobClose ==
  /\ job.pc = "visits"
  /\ job.visits = {}
  /\ visit' = [v \in Visits |->
       IF visit[v].status = "OPEN" /\ visit[v].checkInAt < StartOfLocalDay(job.now)
         THEN [visit[v] EXCEPT !.status = "AUTO_CLOSED"] ELSE visit[v]]
  /\ job' = [job EXCEPT !.pc = "invitations"]
  /\ UNCHANGED <<now, invitation, file, blobs, arrivals, req, todo, cut, crashes>>

JobDeleteInvitations ==
  /\ job.pc = "invitations"
  /\ invitation' = [i \in Invitations |->
       IF /\ invitation[i].status # "ABSENT"
          /\ ValidUntil(i) < AddDays(job.now, -InvitationKeepDays)
         THEN [invitation[i] EXCEPT !.status = "DELETED"] ELSE invitation[i]]
  /\ job' = [job EXCEPT !.pc = "idle"]
  /\ UNCHANGED <<now, visit, file, blobs, arrivals, req, todo, cut, crashes>>

-----------------------------------------------------------------------------
(* Time and failure *)

InFlight(r) == req[r].pc \notin {"idle", "done", "dead"}

\* A request is answered within a day of its arrival; the retention run has no such bound.
Tick ==
  /\ now < MaxTime
  /\ \A r \in Requests : InFlight(r) => now - req[r].since < DayLength
  /\ now' = now + 1
  /\ UNCHANGED <<invitation, visit, file, blobs, arrivals, req, todo, cut, job, crashes>>

\* The process serving r dies, or the storage or the database fails under it: the
\* transaction it is in rolls back, the images it had already written stay.
RequestFails(r) ==
  /\ InFlight(r)
  /\ crashes < MaxCrashes
  /\ \E written \in SUBSET ImagesOf(r) : blobs' = blobs \cup written
  /\ req' = [req EXCEPT ![r].pc = "dead"]
  /\ todo' = [todo EXCEPT ![r] = {}]
  /\ cut' = [cut EXCEPT ![r] = {}]
  /\ crashes' = crashes + 1
  /\ UNCHANGED <<now, invitation, visit, file, arrivals, job>>

\* The same for the retention run: the connection goes, and the lock with it.
JobFails ==
  /\ job.pc # "idle"
  /\ crashes < MaxCrashes
  /\ job' = [job EXCEPT !.pc = "idle", !.visits = {}, !.visit = None]
  /\ todo' = [todo EXCEPT ![Job] = {}]
  /\ cut' = [cut EXCEPT ![Job] = {}]
  /\ crashes' = crashes + 1
  /\ UNCHANGED <<now, invitation, visit, file, blobs, arrivals, req>>

-----------------------------------------------------------------------------
RequestStep(r) ==
  \/ CancelUpdate(r) \/ CancelFind(r)
  \/ SubmitCommit(r) \/ SubmitRefused(r)
  \/ \E c \in ExitCodes : CheckInBegin(r, c)
  \/ CheckInCommit(r) \/ CheckInRollback(r)
  \/ CheckOutCommit(r) \/ CheckOutRefused(r)
  \/ EraseForget(r)
  \/ \E f \in Files : PurgeBlob(r, f) \/ PurgeMark(r, f)

JobStep ==
  \/ JobStart \/ JobFindVisits \/ JobForget \/ JobClose \/ JobDeleteInvitations
  \/ \E v \in Visits : JobAnonymise(v)
  \/ \E f \in Files : PurgeBlob(Job, f) \/ PurgeMark(Job, f)

Arrive(r) ==
  \/ \E i \in Invitations : CancelLoad(r, i) \/ SubmitLoad(r, i) \/ PreregisteredLoad(r, i)
  \/ \E i \in Invitations \cup {None} : FormLoad(r, i)
  \/ \E v \in Visits : CheckOutLoad(r, v) \/ EraseLoad(r, v)

Next ==
  \/ \E r \in Requests : Arrive(r) \/ RequestStep(r) \/ RequestFails(r)
  \/ \E i \in Invitations : \E d \in 0..(MaxTime \div DayLength) :
       CreateInvitation(i, d * DayLength)
  \/ \E v \in Visits : ManualCheckout(v)
  \/ JobStep \/ JobFails
  \/ Tick

Spec == Init /\ [][Next]_vars

\* The cron starts the job again and again and nothing it waits for can block it, and a
\* request that has begun goes on: both are the scheduler's and the event loop's doing.
FairSpec ==
  /\ Spec
  /\ WF_vars(JobStep)
  /\ \A r \in Requests : WF_vars(RequestStep(r))

-----------------------------------------------------------------------------
(* Safety *)

\* An invitation lets in one visit, and it says which (the heart of Admission, proved for every
\* instance in ReceptionProofs): kiosk check-in (persist, consume)
\* against another check-in, a cancellation, a new submission, with the same code.
OneVisitPerInvitation ==
  /\ \A v \in Visits : visit[v].status # "ABSENT" /\ req[v].inv # None =>
       /\ invitation[req[v].inv].status \in {"USED", "DELETED"}
       /\ invitation[req[v].inv].visit = v
  /\ \A i \in Invitations : invitation[i].status = "USED" =>
       \E v \in Visits : /\ invitation[i].visit = v
                         /\ req[v].inv = i
                         /\ visit[v].status # "ABSENT"

\* Once cancel has gone through, no image of the guest waits for a visit that will never
\* be: cancel against a submission in flight (only a cancel that dies half-way leaves them).
CancelledKeepsNoImages ==
  \A i \in Invitations : invitation[i].status = "CANCELLED" /\ FilesOfInvitation(i) # {} =>
    \E r \in Requests : /\ req[r].op = "cancel" /\ req[r].inv = i
                        /\ req[r].pc \in {"cancelFiles", "purge", "dead"}

SubmittedFor(r, i) == req[r].op = "submit" /\ req[r].inv = i /\ file[<<r, "SIGNATURE">>].state # "ABSENT"

\* A guest who submitted once and was let in from the phone's data keeps the signature on
\* the visit until its retention is over or the visit is being erased: check-in against
\* cancel and against the purges of the retention run.
SignatureSurvivesCheckIn ==
  \A v \in Visits :
    LET s == visit[v].data
        signature == file[<<s, "SIGNATURE">>]
    IN /\ visit[v].status # "ABSENT"
       /\ s # None
       /\ req[v].op = "preregistered"
       /\ \A r \in Requests \ {s} : ~SubmittedFor(r, req[v].inv)
       => /\ signature.visit = v
          /\ \/ signature.state = "STORED"
             \/ signature.purgeAfter < now
             \/ \E r \in Requests : req[r].op = "erase" /\ req[r].visit = v

\* The images of a guest go with their owner: to the visit that was let in, or away with the
\* invitation that was withdrawn, whichever of check-in, cancel, submission and purge comes last.
ImagesFollowOwner == CancelledKeepsNoImages /\ SignatureSurvivesCheckIn

\* What the row of an image says is what the object storage holds: a purged image is gone,
\* and a stored one is there unless somebody is purging it or died doing so.
RowMatchesBlob ==
  \A f \in Files :
    /\ file[f].state = "PURGED" => f \notin blobs
    /\ file[f].state = "STORED" /\ f \notin blobs =>
         crashes > 0 \/ \E p \in Purgers : f \in cut[p]

\* The retention run deletes an invitation only when none of its images is left: purging
\* comes first and with the same cut-off.
NoImageWithoutInvitation ==
  \A f \in Files : file[f].state = "STORED" /\ file[f].invitation # None =>
    invitation[file[f].invitation].status # "DELETED"

\* An erased visit keeps no image of the person, but possibly that of the laptop taken at
\* a check-out that raced the erasure.
ErasedKeepsNoImageOfPerson ==
  \A v \in Visits : visit[v].status = "ERASED" =>
    \A f \in FilesOfVisit(v) : f[2] = "ASSET_OUT"

\* No image is forgotten: neither by the storage, nor by an invitation that is deleted, nor by an
\* erasure, while purges die half-way and the retention run deals with the same rows.
ImagesAccountedFor == RowMatchesBlob /\ NoImageWithoutInvitation /\ ErasedKeepsNoImageOfPerson

-----------------------------------------------------------------------------
(* Action properties *)

Successors(status) ==
  CASE status = "ABSENT" -> {"OPEN"}
    [] status = "OPEN" -> {"CLOSED", "AUTO_CLOSED", "ERASED"}
    [] status \in {"CLOSED", "AUTO_CLOSED"} -> {"ERASED"}
    [] OTHER -> {}

\* A visit is closed once, by one of the tablet, the console and the end of the day; an
\* erasure is final; data once removed never comes back.
VisitLifecycleStep ==
  \A v \in Visits :
    /\ visit'[v].status # visit[v].status => visit'[v].status \in Successors(visit[v].status)
    /\ visit[v].status # "ABSENT" /\ visit'[v].data # visit[v].data => visit'[v].data = None
VisitLifecycle == [][VisitLifecycleStep]_vars

\* An image that belongs to a visit stays with this visit, and a purged one never returns.
ImagesStayStep ==
  \A f \in Files :
    /\ file[f].visit # None => file'[f].visit = file[f].visit
    /\ file[f].state = "PURGED" => file'[f].state = "PURGED"
ImagesStay == [][ImagesStayStep]_vars

\* The front desk keeps the promises of module Admission.
Worth(status) ==
  CASE status = "ABSENT" -> "none"
    [] status = "PENDING" -> "open"
    [] status = "USED" -> "used"
    [] status = "CANCELLED" -> "withdrawn"
    [] OTHER -> "gone"
Whereabouts(status) ==
  CASE status = "ABSENT" -> "outside"
    [] status = "OPEN" -> "inside"
    [] OTHER -> "left"
Promise == INSTANCE Admission WITH
  Nobody <- None,
  pass <- [i \in Invitations |-> Worth(invitation[i].status)],
  holder <- [i \in Invitations |-> invitation[i].visit],
  presence <- [v \in Visits |-> Whereabouts(visit[v].status)],
  known <- {v \in Visits : visit[v].data # None}
ImplementsAdmission == Promise!ASpec

-----------------------------------------------------------------------------
(* Liveness, of FairSpec *)

\* Every image past its date is purged, whoever failed before (retention, point 1).
DueImagesGo ==
  \A f \in Files :
    (file[f].state = "STORED" /\ file[f].purgeAfter < now) ~> (file[f].state = "PURGED")

\* Nobody stays on the evacuation list from one day to the next (retention, point 3).
OpenVisitsClose ==
  \A v \in Visits :
    (visit[v].status = "OPEN" /\ visit[v].checkInAt < StartOfLocalDay(now))
      ~> (visit[v].status # "OPEN")

\* Personal data goes when its retention is over (retention, points 2 and 4).
PersonalDataGoes ==
  /\ \A v \in Visits :
       (visit[v].data # None /\ visit[v].checkInAt < AddDays(now, -VisitRetentionDays))
         ~> (visit[v].data = None)
  /\ \A i \in Invitations :
       (invitation[i].status # "ABSENT" /\ ValidUntil(i) < AddDays(now, -InvitationKeepDays))
         ~> (invitation[i].status = "DELETED")

\* The retention run gets to everything that is due, whoever failed before.
RetentionKept == DueImagesGo /\ OpenVisitsClose /\ PersonalDataGoes

-----------------------------------------------------------------------------
(* What the source says of itself and its interleavings do not keep *)

\* "Irreversible removal of personal data from a visit. The row survives with site, times
\* and purpose only": no image survives an erasure.
ErasedKeepsNoImage == \A v \in Visits : visit[v].status = "ERASED" => FilesOfVisit(v) = {}
=============================================================================
