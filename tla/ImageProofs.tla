---------------------------- MODULE ImageProofs ----------------------------
(***************************************************************************)
(* Theorems about the images of the front desk, for any number of requests *)
(* and invitations: an image stays with its visit, goes with its owner,    *)
(* and is forgotten neither by the storage nor by an erasure.              *)
(***************************************************************************)
EXTENDS ReceptionProofs

USE DEF Visits, Purgers

-----------------------------------------------------------------------------
(* Dates *)

LEMMA Lengths ==
  /\ DayLength \in Nat /\ DayLength >= 1
  /\ InvitationKeepDays \in Nat /\ VisitRetentionDays \in Nat
  /\ DocumentPhotoRetentionDays \in Nat /\ AssetPhotoRetentionDays \in Nat
  BY ReceptionAssumption

LEMMA Multiples ==
  /\ \A d \in Int : d * DayLength \in Int
  /\ \A d \in Nat : d * DayLength >= 0 /\ (d >= 1 => d * DayLength >= DayLength)
  /\ \A d, e \in Int : d <= e => d * DayLength <= e * DayLength
  /\ \A d \in Int : (-d) * DayLength = -(d * DayLength)
<1>1. DayLength \in Nat /\ DayLength >= 1
  BY Lengths
<1>2. \A d, e \in Int : d <= e => d * DayLength <= e * DayLength
  <2> SUFFICES ASSUME NEW d \in Int, NEW e \in Int, d <= e PROVE d * DayLength <= e * DayLength
    OBVIOUS
  <2>1. (e - d) * DayLength >= 0
    BY <1>1
  <2>2. (e - d) * DayLength = e * DayLength - d * DayLength
    BY <1>1
  <2> QED BY <2>1, <2>2, <1>1
<1>3. \A d \in Nat : d * DayLength >= 0 /\ (d >= 1 => d * DayLength >= DayLength)
  BY <1>1, <1>2
<1> QED BY <1>1, <1>2, <1>3

LEMMA KeepDaysBounds ==
  \A kind \in Kinds : KeepDays(kind) \in Int /\ KeepDays(kind) <= VisitRetentionDays
  BY Lengths DEF KeepDays, SmallerOf, Kinds

(* Adding days is monotone, a day or more is at least a day's length, and a date is past a  *)
(* cut-off that lies days before another exactly when, those days later, it is past that one. *)
LEMMA DateFacts ==
  /\ \A t, d \in Int : AddDays(t, d) \in Int
  /\ \A t \in Int : AddDays(t, InvitationKeepDays) >= t
                    /\ (DayLength = 1 \/ AddDays(t, InvitationKeepDays) >= t + DayLength)
  /\ \A t \in Int, kind \in Kinds : AddDays(t, KeepDays(kind)) <= AddDays(t, VisitRetentionDays)
  /\ \A t, u \in Int :
       /\ t < AddDays(u, -InvitationKeepDays) => AddDays(t, InvitationKeepDays) < u
       /\ t < AddDays(u, -VisitRetentionDays) => AddDays(t, VisitRetentionDays) < u
<1>1. DayLength \in Nat /\ InvitationKeepDays \in Nat /\ VisitRetentionDays \in Nat
  BY Lengths
<1>2. \A kind \in Kinds : KeepDays(kind) * DayLength <= VisitRetentionDays * DayLength
  BY <1>1, KeepDaysBounds, Multiples
<1>3. DayLength = 1 \/ InvitationKeepDays * DayLength >= DayLength
  BY <1>1, Multiples, ReceptionAssumption
<1>4. InvitationKeepDays * DayLength >= 0 /\ VisitRetentionDays * DayLength >= 0
  BY <1>1, Multiples
<1>5. /\ (-InvitationKeepDays) * DayLength = -(InvitationKeepDays * DayLength)
      /\ (-VisitRetentionDays) * DayLength = -(VisitRetentionDays * DayLength)
  BY <1>1, Multiples
<1>6. /\ InvitationKeepDays * DayLength \in Int /\ VisitRetentionDays * DayLength \in Int
      /\ \A kind \in Kinds : KeepDays(kind) * DayLength \in Int
  BY <1>1, Multiples, KeepDaysBounds
<1> QED
  BY <1>1, <1>2, <1>3, <1>4, <1>5, <1>6, Multiples, KeepDaysBounds DEF AddDays

-----------------------------------------------------------------------------
(* The inductive invariant *)

Over == {"purge", "forget", "done", "dead"}
Sent(r) == file[<<r, "SIGNATURE">>].state # "ABSENT"
Guests(f, i) == req[f[1]].op = "submit" /\ req[f[1]].inv = i

\* The row of an image and the request that wrote it.
ImageRow(f) ==
  LET r == f[1]
      i == req[r].inv
  IN /\ file[f].state = "ABSENT" => file[f].visit = None /\ file[f].invitation = None
     /\ file[f].state # "ABSENT" =>
          /\ req[r].pc \in Over
          /\ req[r].op \in {"submit", "form", "preregistered", "checkout"}
     /\ file[f].state # "ABSENT" /\ req[r].op = "submit" /\ file[f].visit = None =>
          /\ file[f].invitation = i
          /\ file[f].purgeAfter = AddDays(ValidUntil(i), InvitationKeepDays)
     /\ file[f].invitation # None => file[f].visit = None /\ req[r].op = "submit"
     /\ file[f].visit # None =>
          /\ visit[file[f].visit].status # "ABSENT"
          /\ file[f].purgeAfter = AddDays(visit[file[f].visit].checkInAt, KeepDays(f[2]))
          /\ req[r].op = "submit" => invitation[i].status \in {"USED", "DELETED"}
ImageRows == \A f \in Files : ImageRow(f)

\* A request knows what it is about.
Known ==
  \A r \in Requests :
    /\ req[r].op \in {"submit", "cancel", "preregistered"} =>
         req[r].inv # None /\ invitation[req[r].inv].status # "ABSENT"
    /\ req[r].pc = "checkout" => req[r].op = "checkout"
    /\ req[r].pc = "idle" => req[r].op = None

\* Requests are answered within a day, and a submission began before its invitation was over.
Timely ==
  /\ job.now <= now
  /\ \A r \in Requests :
       /\ InFlight(r) => now <= req[r].since + DayLength
       /\ req[r].pc = "submit" => req[r].since < ValidUntil(req[r].inv)

\* The images a submission or a check-in found are images of its invitation.
FoundOK ==
  \A r \in Requests : req[r].pc \in {"submit", "checkin"} =>
    \A f \in req[r].found : file[f].state # "ABSENT" /\ f[1] # r /\ Guests(f, req[r].inv)

\* What is being purged is there, and the blob of what is cut is not.
PurgeOK ==
  \A p \in Purgers :
    /\ cut[p] \subseteq todo[p]
    /\ \A f, g \in cut[p] : f = g
    /\ \A f \in todo[p] : file[f].state # "ABSENT"
    /\ \A f \in cut[p] : f \notin blobs
    /\ p = Job /\ job.pc \notin {"files", "images"} => todo[p] = {}

\* What a request may purge.
ListedOK ==
  \A r \in Requests, f \in Files : f \in todo[r] =>
    /\ req[r].op = "submit" => f[1] # r /\ Guests(f, req[r].inv) /\ Sent(r)
    /\ req[r].op = "cancel" => file[f].visit = None /\ Guests(f, req[r].inv)
    /\ req[r].op = "erase" => file[f].visit = req[r].visit

CancelOK ==
  \A r \in Requests : req[r].op = "cancel" /\ req[r].pc \in {"cancelFiles", "purge"} =>
    /\ invitation[req[r].inv].status # "PENDING"
    /\ req[r].pc = "purge" => FilesOfInvitation(req[r].inv) \subseteq todo[r]

\* Images of the person that an erasure still has to purge.
EraseOK ==
  \A r \in Requests, f \in Files :
    /\ req[r].op = "erase" /\ req[r].pc \in {"purge", "forget"}
    /\ file[f].state = "STORED" /\ file[f].visit = req[r].visit /\ f[2] # "ASSET_OUT"
    => req[r].pc = "purge" /\ f \in todo[r]

\* The images of an invitation that are due when the run starts are gone when it deletes it.
RunOK ==
  /\ \A f \in todo[Job] : file[f].purgeAfter < now
  /\ \A v \in job.visits : visit[v].checkInAt < AddDays(job.now, -VisitRetentionDays)
  /\ job.pc # "idle" => \A f \in Files :
       file[f].state = "STORED" /\ file[f].invitation # None /\ file[f].purgeAfter < job.now =>
         job.pc = "files" /\ f \in todo[Job]

\* The data of a form is that of the submission an invitation or a visit names.
DataOK ==
  /\ \A i \in Invitations : invitation[i].pre # None =>
       Guests(<<invitation[i].pre, "SIGNATURE">>, i) /\ Sent(invitation[i].pre)
  /\ \A r \in Requests : req[r].op = "preregistered" =>
       req[r].data # None /\ Guests(<<req[r].data, "SIGNATURE">>, req[r].inv) /\ Sent(req[r].data)
  /\ \A v \in Visits : visit[v].status # "ABSENT" => visit[v].data \in {req[v].data, None}

\* A guest who submitted once finds the signature again at the check-in.
OnlySubmission(s, i) == \A r \in Requests \ {s} : ~SubmittedFor(r, i)
Ready ==
  \A v \in Visits :
    LET i == req[v].inv
        f == <<req[v].data, "SIGNATURE">>
    IN /\ req[v].op = "preregistered" /\ req[v].pc \in {"code", "checkin"}
       /\ invitation[i].status = "PENDING" /\ now < ValidUntil(i)
       /\ OnlySubmission(req[v].data, i)
       => /\ file[f].state = "STORED" /\ file[f].invitation = i
          /\ req[v].pc = "checkin" => f \in req[v].found

Bearings == ImageRows /\ Known /\ Timely /\ FoundOK /\ PurgeOK
ImageInv ==
  /\ IInv /\ Bearings /\ ListedOK /\ CancelOK /\ EraseOK /\ RunOK /\ DataOK /\ Ready
  /\ ImagesFollowOwner /\ ImagesAccountedFor

-----------------------------------------------------------------------------
(* Who writes what *)

FileWrites ==
  \/ \E r \in Requests : SubmitCommit(r) \/ CheckInCommit(r) \/ CheckOutCommit(r)
  \/ \E p \in Purgers, f \in Files : PurgeMark(p, f)
BlobWrites ==
  \/ \E r \in Requests : \/ SubmitCommit(r) \/ CheckInCommit(r) \/ CheckOutCommit(r)
                          \/ CheckInRollback(r) \/ RequestFails(r)
  \/ \E p \in Purgers, f \in Files : PurgeBlob(p, f)
TodoWrites ==
  \/ \E r \in Requests : CancelFind(r) \/ SubmitCommit(r) \/ RequestFails(r)
  \/ \E r \in Requests, v \in Visits : EraseLoad(r, v)
  \/ \E p \in Purgers, f \in Files : PurgeMark(p, f)
  \/ JobStart \/ JobFails \/ \E v \in Visits : JobAnonymise(v)
CutWrites ==
  \/ \E r \in Requests : RequestFails(r)
  \/ \E p \in Purgers, f \in Files : PurgeBlob(p, f) \/ PurgeMark(p, f)
  \/ JobFails
Written ==
  /\ FileWrites \/ UNCHANGED file
  /\ BlobWrites \/ UNCHANGED blobs
  /\ TodoWrites \/ UNCHANGED todo
  /\ CutWrites \/ UNCHANGED cut
  /\ JobStep \/ JobFails \/ UNCHANGED job
  /\ Tick \/ UNCHANGED now
  /\ UNCHANGED crashes \/ JobFails \/ \E r \in Requests : RequestFails(r)

LEMMA WhoWrites == [Next]_vars => Written
<1> SUFFICES ASSUME [Next]_vars PROVE Written
  OBVIOUS
<1>1. ASSUME NEW r \in Requests, NEW i \in Invitations, CancelLoad(r, i) PROVE Written
  BY <1>1 DEF CancelLoad, Written
<1>2. ASSUME NEW r \in Requests, NEW i \in Invitations, SubmitLoad(r, i) PROVE Written
  BY <1>2 DEF SubmitLoad, Written
<1>3. ASSUME NEW r \in Requests, NEW i \in Invitations, PreregisteredLoad(r, i) PROVE Written
  BY <1>3 DEF PreregisteredLoad, Written
<1>4. ASSUME NEW r \in Requests, NEW i \in Invitations \cup {None}, FormLoad(r, i) PROVE Written
  BY <1>4 DEF FormLoad, Written
<1>5. ASSUME NEW r \in Requests, NEW v \in Visits, CheckOutLoad(r, v) PROVE Written
  BY <1>5 DEF CheckOutLoad, Written
<1>6. ASSUME NEW r \in Requests, NEW v \in Visits, EraseLoad(r, v) PROVE Written
  BY <1>6 DEF EraseLoad, Written, TodoWrites
<1>7. ASSUME NEW r \in Requests, CancelUpdate(r) PROVE Written
  BY <1>7 DEF CancelUpdate, Written
<1>8. ASSUME NEW r \in Requests, CancelFind(r) PROVE Written
  BY <1>8 DEF CancelFind, Written, TodoWrites
<1>9. ASSUME NEW r \in Requests, SubmitCommit(r) PROVE Written
  BY <1>9 DEF SubmitCommit, Written, FileWrites, BlobWrites, TodoWrites
<1>10. ASSUME NEW r \in Requests, SubmitRefused(r) PROVE Written
  BY <1>10 DEF SubmitRefused, Written
<1>11. ASSUME NEW r \in Requests, NEW c \in ExitCodes, CheckInBegin(r, c) PROVE Written
  BY <1>11 DEF CheckInBegin, Written
<1>12. ASSUME NEW r \in Requests, CheckInCommit(r) PROVE Written
  BY <1>12 DEF CheckInCommit, Written, FileWrites, BlobWrites
<1>13. ASSUME NEW r \in Requests, CheckInRollback(r) PROVE Written
  BY <1>13 DEF CheckInRollback, Written, BlobWrites
<1>14. ASSUME NEW r \in Requests, CheckOutCommit(r) PROVE Written
  BY <1>14 DEF CheckOutCommit, Written, FileWrites, BlobWrites
<1>15. ASSUME NEW r \in Requests, CheckOutRefused(r) PROVE Written
  BY <1>15 DEF CheckOutRefused, Written
<1>16. ASSUME NEW r \in Requests, EraseForget(r) PROVE Written
  BY <1>16 DEF EraseForget, Written
<1>17. ASSUME NEW p \in Purgers, NEW f \in Files, PurgeBlob(p, f) PROVE Written
  BY <1>17 DEF PurgeBlob, Written, BlobWrites, CutWrites, JobStep
<1>18. ASSUME NEW p \in Purgers, NEW f \in Files, PurgeMark(p, f) PROVE Written
  BY <1>18 DEF PurgeMark, Written, FileWrites, TodoWrites, CutWrites, JobStep
<1>19. ASSUME NEW r \in Requests, RequestFails(r) PROVE Written
  BY <1>19 DEF RequestFails, Written, BlobWrites, TodoWrites, CutWrites
<1>20. ASSUME NEW i \in Invitations, NEW d \in 0..(MaxTime \div DayLength),
            CreateInvitation(i, d * DayLength) PROVE Written
  BY <1>20 DEF CreateInvitation, Written
<1>21. ASSUME NEW v \in Visits, ManualCheckout(v) PROVE Written
  BY <1>21 DEF ManualCheckout, Written
<1>22. ASSUME JobStart PROVE Written
  BY <1>22 DEF JobStart, Written, TodoWrites, JobStep
<1>23. ASSUME JobFindVisits PROVE Written
  BY <1>23 DEF JobFindVisits, Written, JobStep
<1>24. ASSUME NEW v \in Visits, JobAnonymise(v) PROVE Written
  BY <1>24 DEF JobAnonymise, Written, TodoWrites, JobStep
<1>25. ASSUME JobForget PROVE Written
  BY <1>25 DEF JobForget, Written, JobStep
<1>26. ASSUME JobClose PROVE Written
  BY <1>26 DEF JobClose, Written, JobStep
<1>27. ASSUME JobDeleteInvitations PROVE Written
  BY <1>27 DEF JobDeleteInvitations, Written, JobStep
<1>28. ASSUME JobFails PROVE Written
  BY <1>28 DEF JobFails, Written, TodoWrites, CutWrites
<1>29. ASSUME Tick PROVE Written
  BY <1>29 DEF Tick, Written
<1>30. ASSUME UNCHANGED vars PROVE Written
  BY <1>30 DEF vars, Written
<1> QED
  BY <1>1, <1>2, <1>3, <1>4, <1>5, <1>6, <1>7, <1>8, <1>9, <1>10, <1>11, <1>12, <1>13, <1>14,
     <1>15, <1>16, <1>17, <1>18, <1>19, <1>20, <1>21, <1>22, <1>23, <1>24, <1>25, <1>26, <1>27,
     <1>28, <1>29, <1>30
     DEF Next, Arrive, RequestStep, JobStep

-----------------------------------------------------------------------------
(* What no step takes back *)

\* A request keeps what it has loaded, and never begins again.
RequestsGoOn ==
  \A r \in Requests :
    /\ req[r].pc # "idle" =>
         /\ req'[r].op = req[r].op /\ req'[r].inv = req[r].inv /\ req'[r].visit = req[r].visit
         /\ req'[r].data = req[r].data /\ req'[r].since = req[r].since
         /\ req'[r].pc # "idle"
    /\ req[r].pc \in Over => req'[r].pc \in Over

LEMMA StepRequestsGoOn == IInv /\ [Next]_vars => RequestsGoOn
<1> SUFFICES ASSUME TypeOK, RequestsOK, [Next]_vars PROVE RequestsGoOn
  BY DEF IInv
<1> USE DEF TypeOK, RequestsGoOn, Over, RequestState
<1>1. ASSUME NEW r \in Requests, NEW i \in Invitations, CancelLoad(r, i) PROVE RequestsGoOn
  BY <1>1 DEF CancelLoad, CanBegin
<1>2. ASSUME NEW r \in Requests, NEW i \in Invitations, SubmitLoad(r, i) PROVE RequestsGoOn
  BY <1>2 DEF SubmitLoad, CanBegin
<1>3. ASSUME NEW r \in Requests, NEW i \in Invitations, PreregisteredLoad(r, i) PROVE RequestsGoOn
  BY <1>3 DEF PreregisteredLoad, CanBegin
<1>4. ASSUME NEW r \in Requests, NEW i \in Invitations \cup {None},
            FormLoad(r, i) PROVE RequestsGoOn
  BY <1>4 DEF FormLoad, CanBegin
<1>5. ASSUME NEW r \in Requests, NEW v \in Visits, CheckOutLoad(r, v) PROVE RequestsGoOn
  BY <1>5 DEF CheckOutLoad, CanBegin
<1>6. ASSUME NEW r \in Requests, NEW v \in Visits, EraseLoad(r, v) PROVE RequestsGoOn
  BY <1>6 DEF EraseLoad, CanBegin, PurgeThen
<1>7. ASSUME NEW r \in Requests, CancelUpdate(r) PROVE RequestsGoOn
  BY <1>7 DEF CancelUpdate
<1>8. ASSUME NEW r \in Requests, CancelFind(r) PROVE RequestsGoOn
  BY <1>8 DEF CancelFind, PurgeThen
<1>9. ASSUME NEW r \in Requests, SubmitCommit(r) PROVE RequestsGoOn
  BY <1>9 DEF SubmitCommit, PurgeThen
<1>10. ASSUME NEW r \in Requests, SubmitRefused(r) PROVE RequestsGoOn
  BY <1>10 DEF SubmitRefused
<1>11. ASSUME NEW r \in Requests, NEW c \in ExitCodes, CheckInBegin(r, c) PROVE RequestsGoOn
  BY <1>11 DEF CheckInBegin
<1>12. ASSUME NEW r \in Requests, CheckInCommit(r) PROVE RequestsGoOn
  BY <1>12 DEF CheckInCommit
<1>13. ASSUME NEW r \in Requests, CheckInRollback(r) PROVE RequestsGoOn
  BY <1>13 DEF CheckInRollback
<1>14. ASSUME NEW r \in Requests, CheckOutCommit(r) PROVE RequestsGoOn
  BY <1>14 DEF CheckOutCommit
<1>15. ASSUME NEW r \in Requests, CheckOutRefused(r) PROVE RequestsGoOn
  BY <1>15 DEF CheckOutRefused
<1>16. ASSUME NEW r \in Requests, EraseForget(r) PROVE RequestsGoOn
  BY <1>16 DEF EraseForget
<1>17. ASSUME NEW p \in Purgers, NEW f \in Files, PurgeBlob(p, f) PROVE RequestsGoOn
  BY <1>17 DEF PurgeBlob
<1>18. ASSUME NEW p \in Purgers, NEW f \in Files, PurgeMark(p, f) PROVE RequestsGoOn
  BY <1>18 DEF PurgeMark, AfterPurge, RequestsOK
<1>19. ASSUME NEW r \in Requests, RequestFails(r) PROVE RequestsGoOn
  BY <1>19 DEF RequestFails
<1>20. ASSUME NEW i \in Invitations, NEW d \in 0..(MaxTime \div DayLength),
            CreateInvitation(i, d * DayLength) PROVE RequestsGoOn
  BY <1>20 DEF CreateInvitation
<1>21. ASSUME NEW v \in Visits, ManualCheckout(v) PROVE RequestsGoOn
  BY <1>21 DEF ManualCheckout
<1>22. ASSUME JobStart PROVE RequestsGoOn
  BY <1>22 DEF JobStart
<1>23. ASSUME JobFindVisits PROVE RequestsGoOn
  BY <1>23 DEF JobFindVisits
<1>24. ASSUME NEW v \in Visits, JobAnonymise(v) PROVE RequestsGoOn
  BY <1>24 DEF JobAnonymise
<1>25. ASSUME JobForget PROVE RequestsGoOn
  BY <1>25 DEF JobForget
<1>26. ASSUME JobClose PROVE RequestsGoOn
  BY <1>26 DEF JobClose
<1>27. ASSUME JobDeleteInvitations PROVE RequestsGoOn
  BY <1>27 DEF JobDeleteInvitations
<1>28. ASSUME JobFails PROVE RequestsGoOn
  BY <1>28 DEF JobFails
<1>29. ASSUME Tick PROVE RequestsGoOn
  BY <1>29 DEF Tick
<1>30. ASSUME UNCHANGED vars PROVE RequestsGoOn
  BY <1>30 DEF vars
<1> HIDE DEF TypeOK, RequestsGoOn, Over, RequestState
<1> QED
  BY <1>1, <1>2, <1>3, <1>4, <1>5, <1>6, <1>7, <1>8, <1>9, <1>10, <1>11, <1>12, <1>13, <1>14,
     <1>15, <1>16, <1>17, <1>18, <1>19, <1>20, <1>21, <1>22, <1>23, <1>24, <1>25, <1>26, <1>27,
     <1>28, <1>29, <1>30
     DEF Next, Arrive, RequestStep, JobStep

\* An invitation keeps its day, and a use, a cancellation or a deletion is final.
InvitationsGoOn ==
  \A i \in Invitations : invitation[i].status # "ABSENT" =>
    /\ invitation'[i].status # "ABSENT" /\ ValidUntil(i)' = ValidUntil(i)
    /\ invitation'[i].status = "PENDING" => invitation[i].status = "PENDING"
    /\ invitation'[i].status = "CANCELLED" => invitation[i].status \in {"PENDING", "CANCELLED"}
    /\ invitation[i].status \in {"USED", "DELETED"} => invitation'[i].status \in {"USED", "DELETED"}

LEMMA StepInvitationsGoOn == IInv /\ [Next]_vars => InvitationsGoOn
<1> SUFFICES ASSUME TypeOK, RequestsOK, [Next]_vars PROVE InvitationsGoOn
  BY DEF IInv
<1> USE DEF TypeOK, InvitationRow, InvitationsGoOn, ValidUntil
<1>1. ASSUME NEW r \in Requests, SubmitCommit(r) PROVE InvitationsGoOn
  <2>1. req[r].inv \in Invitations /\ invitation' = [invitation EXCEPT ![req[r].inv].pre = r]
    BY <1>1 DEF SubmitCommit, RequestsOK, RequestState
  <2> QED BY <2>1
<1>2. ASSUME NEW r \in Requests, CancelUpdate(r) PROVE InvitationsGoOn
  BY <1>2 DEF CancelUpdate
<1>3. ASSUME NEW r \in Requests, CheckInCommit(r) PROVE InvitationsGoOn
  <2>1. CASE req[r].inv = None
    BY <1>3, <2>1 DEF CheckInCommit
  <2>2. CASE req[r].inv # None
    <3>1. /\ req[r].inv \in Invitations
          /\ invitation' = [invitation EXCEPT ![req[r].inv].status = "USED", ![req[r].inv].visit = r]
          /\ invitation[req[r].inv].status = "PENDING"
      BY <1>3, <2>2 DEF CheckInCommit, Consumable, UsableAt, RequestState
    <3> QED BY <3>1
  <2> QED BY <2>1, <2>2
<1>4. ASSUME NEW i \in Invitations, NEW d \in 0..(MaxTime \div DayLength),
             CreateInvitation(i, d * DayLength) PROVE InvitationsGoOn
  BY <1>4 DEF CreateInvitation
<1>5. ASSUME JobDeleteInvitations PROVE InvitationsGoOn
  BY <1>5 DEF JobDeleteInvitations
<1>6. CASE UNCHANGED invitation
  BY <1>6
<1>7. ASSUME NEW r \in Requests, CheckOutCommit(r) \/ EraseForget(r) PROVE UNCHANGED invitation
  BY <1>7 DEF CheckOutCommit, EraseForget
<1>8. ASSUME NEW v \in Visits, ManualCheckout(v) PROVE UNCHANGED invitation
  BY <1>8 DEF ManualCheckout
<1>9. ASSUME JobForget \/ JobClose PROVE UNCHANGED invitation
  BY <1>9 DEF JobForget, JobClose
<1> HIDE DEF TypeOK, InvitationRow, InvitationsGoOn
<1> QED
  BY Writers, <1>1, <1>2, <1>3, <1>4, <1>5, <1>6, <1>7, <1>8, <1>9 DEF Writes

\* A visit keeps its check-in; its data is kept or removed.
VisitsGoOn ==
  \A v \in Visits : visit[v].status # "ABSENT" =>
    /\ visit'[v].status # "ABSENT" /\ visit'[v].checkInAt = visit[v].checkInAt
    /\ visit'[v].data \in {visit[v].data, None}

LEMMA StepVisitsGoOn == IInv /\ [Next]_vars => VisitsGoOn
<1> SUFFICES ASSUME TypeOK, RequestsOK, JobOK, [Next]_vars PROVE VisitsGoOn
  BY DEF IInv
<1> USE DEF TypeOK, VisitRow, VisitsGoOn
<1>1. ASSUME NEW r \in Requests, CheckInCommit(r) PROVE VisitsGoOn
  BY <1>1 DEF CheckInCommit, RequestsOK
<1>2. ASSUME NEW r \in Requests, CheckOutCommit(r) PROVE VisitsGoOn
  BY <1>2 DEF CheckOutCommit
<1>3. ASSUME NEW r \in Requests, EraseForget(r) PROVE VisitsGoOn
  BY <1>3 DEF EraseForget
<1>4. ASSUME NEW v \in Visits, ManualCheckout(v) PROVE VisitsGoOn
  BY <1>4 DEF ManualCheckout
<1>5. ASSUME JobForget PROVE VisitsGoOn
  BY <1>5 DEF JobForget
<1>6. ASSUME JobClose PROVE VisitsGoOn
  BY <1>6 DEF JobClose
<1>7. CASE UNCHANGED visit
  BY <1>7
<1>8. ASSUME NEW r \in Requests, SubmitCommit(r) \/ CancelUpdate(r) PROVE UNCHANGED visit
  BY <1>8 DEF SubmitCommit, CancelUpdate
<1>9. ASSUME NEW i \in Invitations, NEW d \in 0..(MaxTime \div DayLength),
             CreateInvitation(i, d * DayLength) PROVE UNCHANGED visit
  BY <1>9 DEF CreateInvitation
<1>10. ASSUME JobDeleteInvitations PROVE UNCHANGED visit
  BY <1>10 DEF JobDeleteInvitations
<1> HIDE DEF TypeOK, VisitRow, VisitsGoOn
<1> QED
  BY Writers, <1>1, <1>2, <1>3, <1>4, <1>5, <1>6, <1>7, <1>8, <1>9, <1>10 DEF Writes

LEMMA TimeGoesOn == IInv /\ [Next]_vars => now <= now' /\ crashes <= crashes'
<1> SUFFICES ASSUME TypeOK, [Next]_vars PROVE now <= now' /\ crashes <= crashes'
  BY DEF IInv
<1>1. now <= now'
  BY WhoWrites DEF Written, Tick, TypeOK
<1>2. ASSUME NEW r \in Requests, RequestFails(r) PROVE crashes <= crashes'
  BY <1>2 DEF RequestFails, TypeOK
<1>3. ASSUME JobFails PROVE crashes <= crashes'
  BY <1>3 DEF JobFails, TypeOK
<1> QED BY <1>1, <1>2, <1>3, WhoWrites DEF Written, TypeOK

-----------------------------------------------------------------------------
(* What a step may do to the row of an image *)

OwnImage(f) == f[1] \in Requests /\ f \in ImagesOf(f[1]) /\ file[f].state = "ABSENT"
Submitted(f) ==
  /\ SubmitCommit(f[1]) /\ OwnImage(f)
  /\ file'[f] = StoredRow(req[f[1]].inv, None,
                          AddDays(ValidUntil(req[f[1]].inv), InvitationKeepDays))
TakenAtCheckIn(f) ==
  /\ CheckInCommit(f[1]) /\ OwnImage(f)
  /\ file'[f] = StoredRow(None, f[1], AddDays(req[f[1]].since, KeepDays(f[2])))
TakenAtCheckOut(f) ==
  /\ CheckOutCommit(f[1]) /\ OwnImage(f) /\ f[2] = "ASSET_OUT"
  /\ file'[f] = StoredRow(None, req[f[1]].visit,
                          AddDays(visit[req[f[1]].visit].checkInAt, KeepDays(f[2])))
HandedOver(r, f) ==
  /\ CheckInCommit(r) /\ f \in req[r].found
  /\ file[f].state # "ABSENT" /\ Guests(f, req[r].inv)
  /\ file'[f] = TakenOver(r, f)
Marked(p, f) == PurgeMark(p, f) /\ file'[f] = [file[f] EXCEPT !.state = "PURGED"]
ImageChange(f) ==
  \/ file'[f] = file[f]
  \/ Submitted(f) \/ TakenAtCheckIn(f) \/ TakenAtCheckOut(f)
  \/ \E r \in Requests : HandedOver(r, f)
  \/ \E p \in Purgers : Marked(p, f)

LEMMA OwnImages ==
  \A r \in Requests : \A f \in ImagesOf(r) : f \in Files /\ f[1] = r /\ f[2] \in Kinds
  BY DEF ImagesOf, Files, Kinds

LEMMA NewImages ==
  ASSUME ImageRows, NEW r \in Requests, req[r].pc \notin Over, NEW f \in ImagesOf(r)
  PROVE  OwnImage(f)
  BY OwnImages DEF ImageRows, ImageRow, OwnImage

LEMMA StepImageChange == IInv /\ Bearings /\ [Next]_vars => \A f \in Files : ImageChange(f)
<1> SUFFICES ASSUME IInv, Bearings, [Next]_vars, NEW f \in Files PROVE ImageChange(f)
  OBVIOUS
<1> USE DEF Bearings
<1>1. ASSUME NEW r \in Requests, SubmitCommit(r) PROVE ImageChange(f)
  <2>1. /\ req[r].pc = "submit"
        /\ file'[f] = IF f \in ImagesOf(r)
                        THEN StoredRow(req[r].inv, None,
                                       AddDays(ValidUntil(req[r].inv), InvitationKeepDays))
                        ELSE file[f]
    BY <1>1 DEF SubmitCommit
  <2>2. CASE f \in ImagesOf(r)
    <3>1. f[1] = r /\ OwnImage(f)
      BY <2>1, <2>2, NewImages, OwnImages DEF Over
    <3> QED BY <1>1, <2>1, <2>2, <3>1 DEF ImageChange, Submitted
  <2> QED BY <2>1, <2>2 DEF ImageChange
<1>2. ASSUME NEW r \in Requests, CheckInCommit(r) PROVE ImageChange(f)
  <2>1. /\ req[r].pc = "checkin"
        /\ file'[f] = CASE f \in ImagesOf(r) -> StoredRow(None, r, AddDays(req[r].since, KeepDays(f[2])))
                        [] f \in req[r].found -> TakenOver(r, f)
                        [] OTHER -> file[f]
    BY <1>2 DEF CheckInCommit
  <2>2. f \in req[r].found => file[f].state # "ABSENT" /\ f[1] # r /\ Guests(f, req[r].inv)
    BY <2>1 DEF FoundOK
  <2>3. f \in ImagesOf(r) => f[1] = r
    BY OwnImages
  <2>4. CASE f \in ImagesOf(r)
    <3>1. f[1] = r /\ OwnImage(f)
      BY <2>1, <2>4, NewImages, OwnImages DEF Over
    <3> QED BY <1>2, <2>1, <2>2, <2>4, <3>1 DEF ImageChange, TakenAtCheckIn
  <2>5. CASE f \in req[r].found
    <3>1. HandedOver(r, f)
      BY <1>2, <2>1, <2>2, <2>3, <2>5 DEF HandedOver
    <3> QED BY <3>1 DEF ImageChange
  <2> QED BY <2>1, <2>4, <2>5 DEF ImageChange
<1>3. ASSUME NEW r \in Requests, CheckOutCommit(r) PROVE ImageChange(f)
  <2>1. /\ req[r].pc = "checkout"
        /\ file'[f] = IF f \in ImagesOf(r)
                        THEN StoredRow(None, req[r].visit,
                                       AddDays(visit[req[r].visit].checkInAt, KeepDays(f[2])))
                        ELSE file[f]
    BY <1>3 DEF CheckOutCommit
  <2>2. CASE f \in ImagesOf(r)
    <3>1. f[1] = r /\ OwnImage(f) /\ f[2] = "ASSET_OUT"
      <4>1. f[2] = "ASSET_OUT"
        BY <2>1, <2>2 DEF ImagesOf
      <4> QED BY <2>1, <2>2, <4>1, NewImages, OwnImages DEF Over
    <3> QED BY <1>3, <2>1, <2>2, <3>1 DEF ImageChange, TakenAtCheckOut
  <2> QED BY <2>1, <2>2 DEF ImageChange
<1>4. ASSUME NEW p \in Purgers, NEW g \in Files, PurgeMark(p, g) PROVE ImageChange(f)
  <2>1. file' = [file EXCEPT ![g].state = "PURGED"] /\ file \in [Files -> FileRow]
    BY <1>4 DEF PurgeMark, IInv, TypeOK
  <2>2. CASE f = g
    <3>1. Marked(p, f)
      BY <1>4, <2>1, <2>2 DEF Marked
    <3> QED BY <3>1 DEF ImageChange
  <2> QED BY <2>1, <2>2 DEF ImageChange
<1>5. CASE UNCHANGED file
  BY <1>5 DEF ImageChange
<1> QED
  BY WhoWrites, <1>1, <1>2, <1>3, <1>4, <1>5 DEF Written, FileWrites

(* An image is never unwritten. *)
LEMMA ImagesRemain ==
  IInv /\ Bearings /\ [Next]_vars => \A f \in Files : file[f].state # "ABSENT" => file'[f].state # "ABSENT"
<1> SUFFICES ASSUME IInv, Bearings, [Next]_vars, NEW f \in Files, file[f].state # "ABSENT"
             PROVE file'[f].state # "ABSENT"
  OBVIOUS
<1>1. file[f] \in FileRow
  BY DEF IInv, TypeOK
<1> QED
  BY <1>1, StepImageChange
     DEF ImageChange, Submitted, TakenAtCheckIn, TakenAtCheckOut, HandedOver, Marked, OwnImage,
         TakenOver, FileRow

Onward ==
  /\ RequestsGoOn /\ InvitationsGoOn /\ VisitsGoOn
  /\ now \in Int /\ now' \in Int /\ now <= now' /\ crashes <= crashes'
  /\ \A f \in Files : ImageChange(f) /\ (file[f].state # "ABSENT" => file'[f].state # "ABSENT")

LEMMA StepOnward == IInv /\ Bearings /\ [Next]_vars => Onward
  BY StepRequestsGoOn, StepInvitationsGoOn, StepVisitsGoOn, TimeGoesOn, StepImageChange, ImagesRemain,
     StepTypeOK DEF Onward, IInv, TypeOK

-----------------------------------------------------------------------------
(* The rows of the images *)

LEMMA Owners == \A f \in Files : f[1] \in Requests /\ f[2] \in Kinds
  BY DEF Files

LEMMA RequestTypes ==
  TypeOK => \A r \in Requests : req[r] \in RequestState /\ req[r].inv \in Invitations \cup {None}
                                /\ req[r].visit \in Visits \cup {None} /\ req[r].since \in Int
  BY DEF TypeOK, RequestState

LEMMA StepImageRows == IInv /\ Bearings /\ [Next]_vars => ImageRows'
<1> SUFFICES ASSUME IInv, Bearings, [Next]_vars, NEW f \in Files PROVE ImageRow(f)'
  BY DEF ImageRows
<1> DEFINE r == f[1]
           i == req[r].inv
<1>1. TypeOK /\ RequestsOK /\ ImageRow(f) /\ Known /\ Onward /\ r \in Requests /\ f[2] \in Kinds
  BY StepOnward, Owners DEF IInv, Bearings, ImageRows
<1>2. file[f] \in FileRow /\ req[r] \in RequestState /\ file' \in [Files -> FileRow]
  BY <1>1, StepTypeOK DEF TypeOK, IInv
<1>3. ASSUME file'[f] = file[f] \/ file'[f] = [file[f] EXCEPT !.state = "PURGED"],
             file[f].state # "ABSENT"
      PROVE ImageRow(f)'
  <2>1. /\ file'[f].state # "ABSENT" /\ file'[f].visit = file[f].visit
        /\ file'[f].invitation = file[f].invitation /\ file'[f].purgeAfter = file[f].purgeAfter
    BY <1>1, <1>2, <1>3 DEF Onward, FileRow
  <2>2. req'[r].op = req[r].op /\ req'[r].inv = i /\ req'[r].pc \in Over
    BY <1>1, <1>3 DEF ImageRow, Onward, RequestsGoOn, Over
  <2>3. req[r].op = "submit" => /\ i \in Invitations /\ ValidUntil(i)' = ValidUntil(i)
                                /\ invitation[i].status \in {"USED", "DELETED"} =>
                                     invitation'[i].status \in {"USED", "DELETED"}
    BY <1>1, <1>2, <2>2 DEF Known, Onward, InvitationsGoOn, RequestState
  <2>4. file[f].visit # None =>
          /\ visit'[file[f].visit].status # "ABSENT"
          /\ visit'[file[f].visit].checkInAt = visit[file[f].visit].checkInAt
    BY <1>1, <1>2, <1>3 DEF ImageRow, Onward, VisitsGoOn, FileRow
  <2> QED BY <1>1, <1>3, <2>1, <2>2, <2>3, <2>4 DEF ImageRow, AddDays, KeepDays
<1>4. CASE Submitted(f)
  <2>1. /\ req[r].pc = "submit" /\ req[r].op = "submit" /\ i \in Invitations
        /\ file'[f] = StoredRow(i, None, AddDays(ValidUntil(i), InvitationKeepDays))
    BY <1>1, <1>2, <1>4 DEF Submitted, SubmitCommit, RequestsOK, RequestState
  <2>2. req' = [req EXCEPT ![r].pc = PurgeThen(r, req[r].found, "done")]
    BY <1>4 DEF Submitted, SubmitCommit
  <2>3. req'[r].op = "submit" /\ req'[r].inv = i /\ req'[r].pc \in Over
    BY <1>1, <2>1, <2>2 DEF TypeOK, PurgeThen, Over, RequestState
  <2>4. ValidUntil(i)' = ValidUntil(i)
    BY <1>1, <2>1, <2>3 DEF Onward, InvitationsGoOn, Known
  <2> QED BY <2>1, <2>3, <2>4, ReceptionAssumption DEF ImageRow, StoredRow, AddDays
<1>5. CASE TakenAtCheckIn(f)
  <2>1. /\ req[r].pc = "checkin" /\ req[r].op \in {"form", "preregistered"}
        /\ file'[f] = StoredRow(None, r, AddDays(req[r].since, KeepDays(f[2])))
        /\ req' = [req EXCEPT ![r].pc = "done"]
        /\ visit' = [visit EXCEPT ![r] = [status |-> "OPEN", code |-> req[r].code,
                                          checkInAt |-> req[r].since, data |-> req[r].data]]
    BY <1>1, <1>5 DEF TakenAtCheckIn, CheckInCommit, RequestsOK
  <2>2. req'[r].op = req[r].op /\ req'[r].inv = i /\ req'[r].pc \in Over
    BY <1>1, <2>1 DEF TypeOK, Over, RequestState
  <2>3. visit'[r].status = "OPEN" /\ visit'[r].checkInAt = req[r].since
    BY <1>1, <2>1 DEF TypeOK
  <2> QED BY <1>1, <2>1, <2>2, <2>3, ReceptionAssumption DEF ImageRow, StoredRow, AddDays, KeepDays
<1>6. CASE TakenAtCheckOut(f)
  <2> DEFINE v == req[r].visit
  <2>1. /\ req[r].pc = "checkout" /\ req[r].op = "checkout" /\ v \in Visits
        /\ visit[v].status = "OPEN"
        /\ file'[f] = StoredRow(None, v, AddDays(visit[v].checkInAt, KeepDays(f[2])))
        /\ req' = [req EXCEPT ![r].pc = "done"]
    BY <1>1, <1>2, <1>6 DEF TakenAtCheckOut, CheckOutCommit, RequestsOK, Known, RequestState
  <2>2. req'[r].op = "checkout" /\ req'[r].inv = i /\ req'[r].pc \in Over
    BY <1>1, <2>1 DEF TypeOK, Over, RequestState
  <2>3. visit'[v].status # "ABSENT" /\ visit'[v].checkInAt = visit[v].checkInAt
    BY <1>1, <2>1 DEF Onward, VisitsGoOn
  <2> QED BY <2>1, <2>2, <2>3, ReceptionAssumption DEF ImageRow, StoredRow, AddDays, KeepDays
<1>7. ASSUME NEW q \in Requests, HandedOver(q, f) PROVE ImageRow(f)'
  <2>1. /\ file[f].state # "ABSENT" /\ req[r].op = "submit" /\ i = req[q].inv /\ i \in Invitations
        /\ req[q].pc = "checkin" /\ Consumable(q)
        /\ file'[f] = TakenOver(q, f)
    BY <1>1, <1>2, <1>7 DEF HandedOver, Guests, CheckInCommit, Known, RequestState
  <2>2. invitation[i].status = "PENDING" /\ i # None
    BY <1>1, <2>1 DEF Consumable, UsableAt, Known
  <2>3. /\ invitation' = [invitation EXCEPT ![i].status = "USED", ![i].visit = q]
        /\ visit' = [visit EXCEPT ![q] = [status |-> "OPEN", code |-> req[q].code,
                                          checkInAt |-> req[q].since, data |-> req[q].data]]
    BY <1>7, <2>1, <2>2 DEF HandedOver, CheckInCommit
  <2>4. invitation'[i].status = "USED"
    BY <1>1, <2>1, <2>3 DEF TypeOK, InvitationRow
  <2>5. visit'[q].status = "OPEN" /\ visit'[q].checkInAt = req[q].since
    BY <1>1, <2>3 DEF TypeOK
  <2>6. req'[r].op = "submit" /\ req'[r].inv = i /\ req'[r].pc \in Over
    BY <1>1, <2>1 DEF ImageRow, Onward, RequestsGoOn, Over
  <2>7. /\ file'[f].state = file[f].state /\ file'[f].invitation = None /\ file'[f].visit = q
        /\ file'[f].purgeAfter = AddDays(req[q].since, KeepDays(f[2]))
    BY <1>2, <2>1 DEF TakenOver, FileRow
  <2>8. q # None
    BY ReceptionAssumption
  <2> QED BY <2>1, <2>4, <2>5, <2>6, <2>7, <2>8 DEF ImageRow, AddDays, KeepDays
<1>8. CASE file[f].state = "ABSENT" /\ file'[f] = file[f]
  BY <1>1, <1>8 DEF ImageRow
<1>9. ASSUME NEW p \in Purgers, Marked(p, f) PROVE file[f].state # "ABSENT"
  BY <1>9 DEF Marked, PurgeMark, Bearings, PurgeOK
<1> QED
  BY <1>1, <1>3, <1>4, <1>5, <1>6, <1>7, <1>8, <1>9 DEF Onward, ImageChange, Marked

-----------------------------------------------------------------------------
(* What a step may do to a request *)

Ends(r) ==
  /\ InFlight(r)
  /\ \/ req'[r].pc = "dead"
     \/ req[r].pc \in {"submit", "checkin", "checkout", "forget"} /\ req'[r].pc = "done"
LastPurge(r) == \E g \in Files : PurgeMark(r, g) /\ todo[r] = {g} /\ req'[r].pc = AfterPurge(r)
RequestChange(r) ==
  \/ req'[r] = req[r]
  \/ Arrive(r) \/ CancelUpdate(r) \/ CancelFind(r) \/ SubmitCommit(r)
  \/ \E c \in ExitCodes : CheckInBegin(r, c)
  \/ LastPurge(r) \/ Ends(r)

LEMMA StepRequestChange == IInv /\ [Next]_vars => \A q \in Requests : RequestChange(q)
<1> SUFFICES ASSUME TypeOK, RequestsOK, [Next]_vars, NEW q \in Requests PROVE RequestChange(q)
  BY DEF IInv
<1>0. req \in [Requests -> RequestState] /\ req[q] \in RequestState
  BY DEF TypeOK
<1> USE DEF RequestChange
<1>1. ASSUME NEW r \in Requests, NEW i \in Invitations, CancelLoad(r, i) PROVE RequestChange(q)
  BY <1>0, <1>1 DEF CancelLoad, Arrive
<1>2. ASSUME NEW r \in Requests, NEW i \in Invitations, SubmitLoad(r, i) PROVE RequestChange(q)
  BY <1>0, <1>2 DEF SubmitLoad, Arrive
<1>3. ASSUME NEW r \in Requests, NEW i \in Invitations,
            PreregisteredLoad(r, i) PROVE RequestChange(q)
  BY <1>0, <1>3 DEF PreregisteredLoad, Arrive
<1>4. ASSUME NEW r \in Requests, NEW i \in Invitations \cup {None},
            FormLoad(r, i) PROVE RequestChange(q)
  BY <1>0, <1>4 DEF FormLoad, Arrive
<1>5. ASSUME NEW r \in Requests, NEW v \in Visits, CheckOutLoad(r, v) PROVE RequestChange(q)
  BY <1>0, <1>5 DEF CheckOutLoad, Arrive
<1>6. ASSUME NEW r \in Requests, NEW v \in Visits, EraseLoad(r, v) PROVE RequestChange(q)
  BY <1>0, <1>6 DEF EraseLoad, Arrive
<1>7. ASSUME NEW r \in Requests, CancelUpdate(r) PROVE RequestChange(q)
  BY <1>0, <1>7 DEF CancelUpdate
<1>8. ASSUME NEW r \in Requests, CancelFind(r) PROVE RequestChange(q)
  BY <1>0, <1>8 DEF CancelFind
<1>9. ASSUME NEW r \in Requests, SubmitCommit(r) PROVE RequestChange(q)
  BY <1>0, <1>9 DEF SubmitCommit
<1>10. ASSUME NEW r \in Requests, SubmitRefused(r) PROVE RequestChange(q)
  BY <1>0, <1>10 DEF SubmitRefused, Ends, InFlight, RequestState
<1>11. ASSUME NEW r \in Requests, NEW c \in ExitCodes, CheckInBegin(r, c) PROVE RequestChange(q)
  <2>1. CASE q = r
    BY <1>11, <2>1
  <2>2. CASE q # r
    <3>1. req'[q] = req[q]
      BY <1>0, <1>11, <2>2 DEF CheckInBegin
    <3> QED BY <3>1
  <2> QED BY <2>1, <2>2
<1>12. ASSUME NEW r \in Requests, CheckInCommit(r) PROVE RequestChange(q)
  BY <1>0, <1>12 DEF CheckInCommit, Ends, InFlight, RequestState
<1>13. ASSUME NEW r \in Requests, CheckInRollback(r) PROVE RequestChange(q)
  BY <1>0, <1>13 DEF CheckInRollback, Ends, InFlight, RequestState
<1>14. ASSUME NEW r \in Requests, CheckOutCommit(r) PROVE RequestChange(q)
  BY <1>0, <1>14 DEF CheckOutCommit, Ends, InFlight, RequestState
<1>15. ASSUME NEW r \in Requests, CheckOutRefused(r) PROVE RequestChange(q)
  BY <1>0, <1>15 DEF CheckOutRefused, Ends, InFlight, RequestState
<1>16. ASSUME NEW r \in Requests, EraseForget(r) PROVE RequestChange(q)
  BY <1>0, <1>16 DEF EraseForget, Ends, InFlight, RequestState
<1>17. ASSUME NEW p \in Purgers, NEW f \in Files, PurgeBlob(p, f) PROVE RequestChange(q)
  BY <1>17 DEF PurgeBlob
<1>18. ASSUME NEW p \in Purgers, NEW f \in Files, PurgeMark(p, f) PROVE RequestChange(q)
  <2>1. req' = IF p \in Requests /\ todo[p] = {f}
                 THEN [req EXCEPT ![p].pc = AfterPurge(p)] ELSE req
    BY <1>18 DEF PurgeMark
  <2>2. CASE p = q /\ todo[p] = {f}
    <3>1. req'[q].pc = AfterPurge(q)
      BY <1>0, <2>1, <2>2 DEF RequestState
    <3> QED BY <1>18, <2>2, <3>1 DEF LastPurge
  <2>3. CASE ~(p = q /\ todo[p] = {f})
    BY <1>0, <2>1, <2>3
  <2> QED BY <2>2, <2>3
<1>19. ASSUME NEW r \in Requests, RequestFails(r) PROVE RequestChange(q)
  BY <1>0, <1>19 DEF RequestFails, Ends, InFlight, RequestState
<1>20. ASSUME NEW i \in Invitations, NEW d \in 0..(MaxTime \div DayLength),
            CreateInvitation(i, d * DayLength) PROVE RequestChange(q)
  BY <1>20 DEF CreateInvitation
<1>21. ASSUME NEW v \in Visits, ManualCheckout(v) PROVE RequestChange(q)
  BY <1>21 DEF ManualCheckout
<1>22. ASSUME JobStart PROVE RequestChange(q)
  BY <1>22 DEF JobStart
<1>23. ASSUME JobFindVisits PROVE RequestChange(q)
  BY <1>23 DEF JobFindVisits
<1>24. ASSUME NEW v \in Visits, JobAnonymise(v) PROVE RequestChange(q)
  BY <1>24 DEF JobAnonymise
<1>25. ASSUME JobForget PROVE RequestChange(q)
  BY <1>25 DEF JobForget
<1>26. ASSUME JobClose PROVE RequestChange(q)
  BY <1>26 DEF JobClose
<1>27. ASSUME JobDeleteInvitations PROVE RequestChange(q)
  BY <1>27 DEF JobDeleteInvitations
<1>28. ASSUME JobFails PROVE RequestChange(q)
  BY <1>28 DEF JobFails
<1>29. ASSUME Tick PROVE RequestChange(q)
  BY <1>29 DEF Tick
<1>30. ASSUME UNCHANGED vars PROVE RequestChange(q)
  BY <1>30 DEF vars
<1> HIDE DEF RequestChange
<1> QED
  BY <1>1, <1>2, <1>3, <1>4, <1>5, <1>6, <1>7, <1>8, <1>9, <1>10, <1>11, <1>12, <1>13, <1>14,
     <1>15, <1>16, <1>17, <1>18, <1>19, <1>20, <1>21, <1>22, <1>23, <1>24, <1>25, <1>26, <1>27,
     <1>28, <1>29, <1>30
     DEF Next, Arrive, RequestStep, JobStep

LEMMA LastPurges ==
  ASSUME RequestsOK, NEW r \in Requests, LastPurge(r)
  PROVE  /\ req[r].pc = "purge" /\ req'[r].pc = IF req[r].op = "erase" THEN "forget" ELSE "done"
         /\ InFlight(r)
  BY DEF LastPurge, PurgeMark, AfterPurge, RequestsOK, InFlight

LEMMA Arrivals ==
  ASSUME TypeOK, NEW r \in Requests, Arrive(r)
  PROVE  /\ req[r].pc = "idle" /\ req'[r].since = now
         /\ req'[r].pc = "submit" => \E i \in Invitations : SubmitLoad(r, i)
         /\ req'[r].pc \notin {"checkin", "cancelFiles", "done", "dead"}
         /\ req'[r].pc \in {"purge", "forget"} => \E v \in Visits : EraseLoad(r, v)
         /\ req'[r].op = "preregistered" => \E i \in Invitations : PreregisteredLoad(r, i)
<1> DEFINE Goal ==
      /\ req[r].pc = "idle" /\ req'[r].since = now
      /\ req'[r].pc = "submit" => \E i \in Invitations : SubmitLoad(r, i)
      /\ req'[r].pc \notin {"checkin", "cancelFiles", "done", "dead"}
      /\ req'[r].pc \in {"purge", "forget"} => \E v \in Visits : EraseLoad(r, v)
      /\ req'[r].op = "preregistered" => \E i \in Invitations : PreregisteredLoad(r, i)
<1>0. req \in [Requests -> RequestState]
  BY DEF TypeOK
<1> USE DEF RequestState, CanBegin
<1>1. ASSUME NEW i \in Invitations, CancelLoad(r, i) PROVE Goal
  BY <1>0, <1>1 DEF CancelLoad
<1>2. ASSUME NEW i \in Invitations, SubmitLoad(r, i) PROVE Goal
  <2>1. /\ req[r].pc = "idle" /\ req'[r].since = now /\ req'[r].pc = "submit"
        /\ req'[r].op = "submit"
    BY <1>0, <1>2 DEF SubmitLoad
  <2> QED BY <1>2, <2>1
<1>3. ASSUME NEW i \in Invitations, PreregisteredLoad(r, i) PROVE Goal
  <2>1. /\ req[r].pc = "idle" /\ req'[r].since = now /\ req'[r].pc = "code"
        /\ req'[r].op = "preregistered"
    BY <1>0, <1>3 DEF PreregisteredLoad
  <2> QED BY <1>3, <2>1
<1>4. ASSUME NEW i \in Invitations \cup {None}, FormLoad(r, i) PROVE Goal
  BY <1>0, <1>4 DEF FormLoad
<1>5. ASSUME NEW v \in Visits, CheckOutLoad(r, v) PROVE Goal
  BY <1>0, <1>5 DEF CheckOutLoad
<1>6. ASSUME NEW v \in Visits, EraseLoad(r, v) PROVE Goal
  <2>1. /\ req[r].pc = "idle" /\ req'[r].since = now /\ req'[r].pc \in {"purge", "forget"}
        /\ req'[r].op = "erase"
    BY <1>0, <1>6 DEF EraseLoad, PurgeThen
  <2> QED BY <1>6, <2>1
<1> HIDE DEF Goal
<1>7. Goal
  BY <1>1, <1>2, <1>3, <1>4, <1>5, <1>6 DEF Arrive
<1> QED BY <1>7 DEF Goal

-----------------------------------------------------------------------------
(* What requests know, and when *)

LEMMA StepKnown == IInv /\ Bearings /\ [Next]_vars => Known'
<1> SUFFICES ASSUME IInv, Bearings, [Next]_vars, NEW r \in Requests
             PROVE /\ req'[r].op \in {"submit", "cancel", "preregistered"} =>
                        req'[r].inv # None /\ invitation'[req'[r].inv].status # "ABSENT"
                   /\ req'[r].pc = "checkout" => req'[r].op = "checkout"
                   /\ req'[r].pc = "idle" => req'[r].op = None
  BY DEF Known
<1> USE DEF Bearings
<1>1. TypeOK /\ RequestsOK /\ Known /\ Onward /\ RequestChange(r)
  BY StepOnward, StepRequestChange DEF IInv
<1>2. req \in [Requests -> RequestState] /\ req[r] \in RequestState
  BY <1>1 DEF TypeOK
<1>3. CASE req[r].pc # "idle"
  <2>1. req'[r].op = req[r].op /\ req'[r].inv = req[r].inv /\ req'[r].pc # "idle"
    BY <1>1, <1>3 DEF Onward, RequestsGoOn
  <2>2. req'[r].pc = "checkout" => req[r].pc = "checkout"
    <3>1. ASSUME Arrive(r) PROVE FALSE
      BY <1>3, <3>1 DEF Arrive, CancelLoad, SubmitLoad, PreregisteredLoad, FormLoad, CheckOutLoad,
                        EraseLoad, CanBegin
    <3>2. ASSUME CancelUpdate(r) \/ CancelFind(r) \/ SubmitCommit(r) PROVE req'[r].pc # "checkout"
      BY <1>2, <3>2 DEF CancelUpdate, CancelFind, SubmitCommit, PurgeThen, RequestState
    <3>3. ASSUME NEW c \in ExitCodes, CheckInBegin(r, c) PROVE req'[r].pc # "checkout"
      BY <1>2, <3>3 DEF CheckInBegin, RequestState
    <3>4. LastPurge(r) \/ Ends(r) => req'[r].pc # "checkout"
      BY <1>1, LastPurges DEF Ends
    <3> QED BY SMTT(30), <1>1, <3>1, <3>2, <3>3, <3>4 DEF RequestChange
  <2> QED BY <1>1, <1>2, <2>1, <2>2 DEF Known, Onward, InvitationsGoOn, RequestState
<1>4. CASE req[r].pc = "idle" /\ req'[r] = req[r]
  BY <1>1, <1>2, <1>4 DEF Known, Onward, InvitationsGoOn, RequestState
<1>5. ASSUME NEW i \in Invitations, CancelLoad(r, i) \/ SubmitLoad(r, i) \/ PreregisteredLoad(r, i)
      PROVE /\ req'[r].inv = i /\ invitation'[i].status = "PENDING"
            /\ req'[r].pc \notin {"checkout", "idle"} /\ i # None
  BY <1>2, <1>5, ReceptionAssumption
     DEF CancelLoad, SubmitLoad, PreregisteredLoad, UsableAt, RequestState
<1>6. ASSUME NEW i \in Invitations \cup {None}, FormLoad(r, i) PROVE req'[r].op = "form" /\ req'[r].pc = "code"
  BY <1>2, <1>6 DEF FormLoad, RequestState
<1>7. ASSUME NEW v \in Visits, CheckOutLoad(r, v) PROVE req'[r].op = "checkout" /\ req'[r].pc # "idle"
  BY <1>2, <1>7 DEF CheckOutLoad, RequestState
<1>8. ASSUME NEW v \in Visits, EraseLoad(r, v) PROVE req'[r].op = "erase" /\ req'[r].pc \notin {"checkout", "idle"}
  BY <1>2, <1>8 DEF EraseLoad, PurgeThen, RequestState
<1>9. ASSUME req[r].pc = "idle" PROVE req'[r] = req[r] \/ Arrive(r)
  BY <1>1, <1>9, LastPurges
     DEF RequestChange, CancelUpdate, CancelFind, SubmitCommit, CheckInBegin, Ends, InFlight
<1> QED BY <1>3, <1>4, <1>5, <1>6, <1>7, <1>8, <1>9 DEF Arrive

(* The clock waits for the requests, and nothing else moves while it ticks. *)
LEMMA StepTimely == IInv /\ Bearings /\ [Next]_vars => Timely'
<1> SUFFICES ASSUME IInv, Bearings, [Next]_vars PROVE Timely'
  OBVIOUS
<1> USE DEF Bearings
<1>1. TypeOK /\ RequestsOK /\ Known /\ Timely /\ Onward
  BY StepOnward DEF IInv
<1>2. /\ req \in [Requests -> RequestState] /\ now \in Int /\ job \in JobState /\ job.now \in Int
      /\ DayLength \in Nat
  BY <1>1, Lengths DEF TypeOK, JobState
<1>3. job'.now <= now'
  <2>1. ASSUME JobStep PROVE job'.now \in {job.now, now}
    BY <1>2, <2>1 DEF JobStep, JobStart, JobFindVisits, JobForget, JobClose, JobDeleteInvitations,
                 JobAnonymise, PurgeBlob, PurgeMark, JobState
  <2>2. ASSUME JobFails PROVE job'.now = job.now
    BY <1>2, <2>2 DEF JobFails, JobState
  <2>3. job'.now \in {job.now, now}
    BY <2>1, <2>2, WhoWrites DEF Written
  <2>4. job.now <= now /\ now <= now' /\ now' \in Int
    BY <1>1 DEF Timely, Onward
  <2> QED BY SMTT(30), <1>2, <2>3, <2>4
<1> SUFFICES ASSUME NEW r \in Requests
             PROVE /\ InFlight(r)' => now' <= req'[r].since + DayLength
                   /\ req'[r].pc = "submit" => req'[r].since < ValidUntil(req[r].inv)'
  BY <1>3 DEF Timely
<1>4. CASE Tick
  <2>1. req' = req /\ invitation' = invitation /\ now' = now + 1
    BY <1>4 DEF Tick
  <2>2. InFlight(r) => now - req[r].since < DayLength
    BY <1>4 DEF Tick
  <2>3. req[r].since \in Int
    BY <1>1, RequestTypes
  <2>4. InFlight(r)' => now' <= req'[r].since + DayLength
    BY <1>2, <2>1, <2>2, <2>3 DEF InFlight
  <2> QED BY <1>1, <2>1, <2>4 DEF Timely, ValidUntil
<1>5. CASE now' = now
  <2>1. CASE req'[r] = req[r]
    <3>1. req[r].pc = "submit" => req[r].inv \in Invitations /\ invitation[req[r].inv].status # "ABSENT"
      BY <1>1, <1>2 DEF Known, RequestsOK, RequestState
    <3>2. req[r].pc = "submit" => ValidUntil(req[r].inv)' = ValidUntil(req[r].inv)
      BY <1>1, <2>1, <3>1 DEF Onward, InvitationsGoOn
    <3> QED BY <1>1, <1>5, <2>1, <3>2 DEF Timely, InFlight
  <2>2. CASE Arrive(r)
    <3>1. ASSUME NEW i \in Invitations, SubmitLoad(r, i)
          PROVE req'[r].since < ValidUntil(req[r].inv)'
      BY <1>2, <3>1 DEF SubmitLoad, ValidUntil, RequestState
    <3> QED BY <1>1, <1>2, <1>5, <2>2, <3>1, Arrivals
  <2>3. ASSUME CancelUpdate(r) \/ CancelFind(r) \/ SubmitCommit(r) \/ Ends(r)
        PROVE InFlight(r) /\ req'[r].pc # "submit"
    BY <1>2, <2>3 DEF CancelUpdate, CancelFind, SubmitCommit, PurgeThen, Ends, InFlight, RequestState
  <2>4. ASSUME NEW c \in ExitCodes, CheckInBegin(r, c) PROVE InFlight(r) /\ req'[r].pc # "submit"
    BY <1>2, <2>4 DEF CheckInBegin, InFlight, RequestState
  <2>5. InFlight(r) => req'[r].since = req[r].since /\ now <= req[r].since + DayLength
    BY <1>1 DEF Onward, RequestsGoOn, InFlight, Timely
  <2>6. CASE InFlight(r) /\ req'[r].pc # "submit"
    BY <1>5, <2>5, <2>6
  <2>7. LastPurge(r) => InFlight(r) /\ req'[r].pc # "submit"
    BY <1>1, LastPurges
  <2> QED BY <1>1, <2>1, <2>2, <2>3, <2>4, <2>6, <2>7, StepRequestChange DEF RequestChange
<1> QED BY <1>4, <1>5, WhoWrites DEF Written

-----------------------------------------------------------------------------
(* What requests have found *)

LEMMA GuestsStay ==
  ASSUME ImageRows, Onward, NEW f \in Files, file[f].state # "ABSENT"
  PROVE  req'[f[1]].op = req[f[1]].op /\ req'[f[1]].inv = req[f[1]].inv
<1>1. f[1] \in Requests /\ req[f[1]].pc # "idle"
  BY Owners DEF ImageRows, ImageRow, Over
<1> QED BY <1>1 DEF Onward, RequestsGoOn

LEMMA InvitationImages ==
  ASSUME TypeOK, ImageRows, NEW i \in Invitations, NEW f \in FilesOfInvitation(i)
  PROVE  /\ f \in Files /\ file[f].state = "STORED" /\ file[f].invitation = i
         /\ file[f].visit = None /\ Guests(f, i) /\ req[f[1]].pc \in Over
  BY ReceptionAssumption DEF FilesOfInvitation, ImageRows, ImageRow, Guests

LEMMA StepFoundOK == IInv /\ Bearings /\ [Next]_vars => FoundOK'
<1> SUFFICES ASSUME IInv, Bearings, [Next]_vars, NEW r \in Requests,
                    req'[r].pc \in {"submit", "checkin"}, NEW f \in req'[r].found
             PROVE file'[f].state # "ABSENT" /\ f[1] # r /\ Guests(f, req[r].inv)'
  BY DEF FoundOK
<1> USE DEF Bearings
<1>1. TypeOK /\ RequestsOK /\ Known /\ FoundOK /\ ImageRows /\ Onward /\ RequestChange(r)
  BY StepOnward, StepRequestChange DEF IInv
<1>2. req \in [Requests -> RequestState] /\ req[r] \in RequestState
  BY <1>1 DEF TypeOK
<1>3. ASSUME f \in Files, file[f].state # "ABSENT", f[1] # r, Guests(f, req'[r].inv)
      PROVE file'[f].state # "ABSENT" /\ f[1] # r /\ Guests(f, req[r].inv)'
  BY <1>1, <1>3, GuestsStay DEF Guests, Onward
<1>4. CASE req'[r] = req[r]
  BY <1>1, <1>2, <1>3, <1>4 DEF FoundOK, RequestState
<1>5. CASE Arrive(r)
  <2> PICK i \in Invitations : SubmitLoad(r, i)
    BY <1>1, <1>5, Arrivals
  <2>1. f \in FilesOfInvitation(i) /\ req'[r].inv = i /\ req[r].pc = "idle"
    BY <1>2 DEF SubmitLoad, CanBegin, RequestState
  <2> QED BY <1>1, <1>3, <2>1, InvitationImages DEF Over
<1>6. ASSUME NEW c \in ExitCodes, CheckInBegin(r, c)
      PROVE file'[f].state # "ABSENT" /\ f[1] # r /\ Guests(f, req[r].inv)'
  <2>1. /\ req[r].pc = "code" /\ req'[r].inv = req[r].inv
        /\ req[r].op = "preregistered" /\ f \in FilesOfInvitation(req[r].inv)
    BY <1>2, <1>6 DEF CheckInBegin, RequestState
  <2>2. req[r].inv \in Invitations
    BY <1>1, <1>2, <2>1 DEF Known, RequestState
  <2> QED BY <1>1, <1>3, <2>1, <2>2, InvitationImages DEF Over
<1>7. ASSUME CancelUpdate(r) \/ CancelFind(r) \/ SubmitCommit(r) \/ Ends(r) PROVE FALSE
  BY <1>2, <1>7 DEF CancelUpdate, CancelFind, SubmitCommit, PurgeThen, Ends, RequestState
<1>8. ~LastPurge(r)
  BY <1>1, LastPurges
<1> QED BY <1>1, <1>4, <1>5, <1>6, <1>7, <1>8 DEF RequestChange

-----------------------------------------------------------------------------
(* The purges *)

\* p lists what it will purge.
Lists(p) ==
  \/ /\ p \in Requests
     /\ CancelFind(p) \/ SubmitCommit(p) \/ \E v \in Visits : EraseLoad(p, v)
  \/ p = Job /\ (JobStart \/ \E v \in Visits : JobAnonymise(v))
\* p dies.
Drops(p) == (p \in Requests /\ RequestFails(p)) \/ (p = Job /\ JobFails)
TodoChange(p) ==
  \/ todo'[p] = todo[p] /\ cut'[p] = cut[p]
  \/ \E f \in Files : PurgeBlob(p, f) /\ todo'[p] = todo[p] /\ cut'[p] = {f}
  \/ \E f \in Files : PurgeMark(p, f) /\ todo'[p] = todo[p] \ {f} /\ cut'[p] = {}
  \/ Lists(p) /\ todo[p] = {} /\ cut[p] = {} /\ cut'[p] = {}
  \/ Drops(p) /\ todo'[p] = {} /\ cut'[p] = {}

LEMMA StepTodoChange == IInv /\ Bearings /\ [Next]_vars => \A p \in Purgers : TodoChange(p)
<1> SUFFICES ASSUME IInv, Bearings, [Next]_vars, NEW p \in Purgers PROVE TodoChange(p)
  OBVIOUS
<1> USE DEF TodoChange
<1>1. /\ RequestsOK /\ PurgeOK /\ Job \notin Requests
      /\ todo \in [Purgers -> SUBSET Files] /\ cut \in [Purgers -> SUBSET Files]
  BY ReceptionAssumption DEF IInv, Bearings, TypeOK
<1>2. ASSUME NEW r \in Requests, CancelFind(r) PROVE TodoChange(p)
  BY <1>1, <1>2 DEF CancelFind, Lists, RequestsOK
<1>3. ASSUME NEW r \in Requests, SubmitCommit(r) PROVE TodoChange(p)
  BY <1>1, <1>3 DEF SubmitCommit, Lists, RequestsOK
<1>4. ASSUME NEW r \in Requests, RequestFails(r) PROVE TodoChange(p)
  BY <1>1, <1>4 DEF RequestFails, Drops
<1>5. ASSUME NEW r \in Requests, NEW v \in Visits, EraseLoad(r, v) PROVE TodoChange(p)
  <2>1. /\ req[r].pc = "idle" /\ cut' = cut
        /\ todo' = [todo EXCEPT ![r] = FilesOfVisit(v)]
    BY <1>5 DEF EraseLoad, CanBegin
  <2>2. CASE p = r
    BY <1>1, <1>5, <2>1, <2>2 DEF Lists, RequestsOK
  <2> QED BY <1>1, <2>1, <2>2
<1>6. ASSUME NEW q \in Purgers, NEW f \in Files, PurgeBlob(q, f) PROVE TodoChange(p)
  BY <1>1, <1>6 DEF PurgeBlob
<1>7. ASSUME NEW q \in Purgers, NEW f \in Files, PurgeMark(q, f) PROVE TodoChange(p)
  BY <1>1, <1>7 DEF PurgeMark
<1>8. ASSUME JobStart PROVE TodoChange(p)
  BY <1>1, <1>8 DEF JobStart, Lists, PurgeOK
<1>9. ASSUME NEW v \in Visits, JobAnonymise(v) PROVE TodoChange(p)
  BY <1>1, <1>9 DEF JobAnonymise, Lists, PurgeOK
<1>10. ASSUME JobFails PROVE TodoChange(p)
  BY <1>1, <1>10 DEF JobFails, Drops
<1>11. CASE UNCHANGED <<todo, cut>>
  BY <1>11
<1> HIDE DEF TodoChange
<1> QED
  BY WhoWrites, <1>2, <1>3, <1>4, <1>5, <1>6, <1>7, <1>8, <1>9, <1>10, <1>11
     DEF Written, TodoWrites, CutWrites

(* The object storage takes images that have no row yet, and loses those that are purged. *)
LEMMA StepBlobs ==
  ASSUME IInv, Bearings, [Next]_vars, NEW f \in Files
  PROVE  /\ f \in blobs' => f \in blobs \/ file[f].state = "ABSENT"
         /\ f \in blobs => f \in blobs' \/ \E p \in Purgers : PurgeBlob(p, f)
<1> USE DEF Bearings
<1>1. ASSUME NEW r \in Requests,
             SubmitCommit(r) \/ CheckInCommit(r) \/ CheckOutCommit(r) \/ CheckInRollback(r)
      PROVE blobs' = blobs \cup ImagesOf(r) /\ req[r].pc \notin Over
  BY <1>1 DEF SubmitCommit, CheckInCommit, CheckOutCommit, CheckInRollback, Over
<1>2. ASSUME NEW r \in Requests, RequestFails(r)
      PROVE blobs \subseteq blobs' /\ blobs' \subseteq blobs \cup ImagesOf(r)
  BY <1>2 DEF RequestFails
<1>3. ASSUME NEW r \in Requests, f \in ImagesOf(r) PROVE file[f].state = "ABSENT"
  <2>1. req[r].pc \notin Over
    BY <1>3 DEF ImagesOf, Over
  <2> QED BY <1>3, <2>1, NewImages DEF OwnImage
<1>4. ASSUME NEW p \in Purgers, NEW g \in Files, PurgeBlob(p, g) PROVE blobs' = blobs \ {g}
  BY <1>4 DEF PurgeBlob
<1> QED BY WhoWrites, <1>1, <1>2, <1>3, <1>4 DEF Written, BlobWrites

LEMMA StepPurgeOK == IInv /\ Bearings /\ [Next]_vars => PurgeOK'
<1> SUFFICES ASSUME IInv, Bearings, [Next]_vars, NEW p \in Purgers
             PROVE /\ cut'[p] \subseteq todo'[p]
                   /\ \A f, g \in cut'[p] : f = g
                   /\ \A f \in todo'[p] : file'[f].state # "ABSENT"
                   /\ \A f \in cut'[p] : f \notin blobs'
                   /\ p = Job /\ job'.pc \notin {"files", "images"} => todo'[p] = {}
  BY DEF PurgeOK
<1> USE DEF Bearings
<1>1. /\ TypeOK /\ RequestsOK /\ FoundOK /\ PurgeOK /\ Onward /\ TodoChange(p) /\ Job \notin Requests
      /\ todo \in [Purgers -> SUBSET Files] /\ cut \in [Purgers -> SUBSET Files]
      /\ TypeOK'
  BY StepOnward, StepTodoChange, StepTypeOK, ReceptionAssumption DEF IInv, TypeOK
<1>2. cut'[p] \subseteq todo'[p] /\ \A f, g \in cut'[p] : f = g
  BY <1>1 DEF TodoChange, PurgeOK, PurgeBlob, PurgeMark
<1>3. ASSUME NEW f \in todo'[p] PROVE file'[f].state # "ABSENT"
  <2>1. f \in todo[p] \/ Lists(p)
    BY <1>1, <1>3 DEF TodoChange
  <2>2. f \in todo[p] => f \in Files /\ file[f].state # "ABSENT"
    BY <1>1 DEF PurgeOK
  <2>3. ASSUME Lists(p) PROVE f \in Files /\ file[f].state # "ABSENT"
    <3>1. ASSUME p \in Requests, CancelFind(p) PROVE f \in Files /\ file[f].state # "ABSENT"
      BY <1>1, <1>3, <3>1 DEF CancelFind, FilesOfInvitation
    <3>2. ASSUME p \in Requests, SubmitCommit(p) PROVE f \in Files /\ file[f].state # "ABSENT"
      <4>1. todo'[p] = req[p].found /\ req[p].pc = "submit" /\ req[p].found \subseteq Files
        BY <1>1, <3>2 DEF SubmitCommit, TypeOK, RequestState
      <4> QED BY <1>1, <1>3, <3>2, <4>1 DEF FoundOK
    <3>3. ASSUME p \in Requests, NEW v \in Visits, EraseLoad(p, v)
          PROVE f \in Files /\ file[f].state # "ABSENT"
      <4>1. todo' = [todo EXCEPT ![p] = FilesOfVisit(v)]
        BY <3>3 DEF EraseLoad
      <4> QED BY <1>1, <1>3, <4>1 DEF FilesOfVisit
    <3>4. ASSUME p = Job, JobStart PROVE f \in Files /\ file[f].state # "ABSENT"
      BY <1>1, <1>3, <3>4 DEF JobStart
    <3>5. ASSUME p = Job, NEW v \in Visits, JobAnonymise(v)
          PROVE f \in Files /\ file[f].state # "ABSENT"
      BY <1>1, <1>3, <3>5 DEF JobAnonymise, FilesOfVisit
    <3> QED BY <2>3, <3>1, <3>2, <3>3, <3>4, <3>5 DEF Lists
  <2> QED BY <1>1, <2>1, <2>2, <2>3 DEF Onward
<1>4. ASSUME NEW f \in cut'[p] PROVE f \notin blobs'
  <2>1. CASE f \in cut[p]
    BY <1>1, <2>1, StepBlobs DEF PurgeOK
  <2>2. CASE f \notin cut[p]
    BY <1>1, <1>4, <2>2 DEF TodoChange, PurgeBlob
  <2> QED BY <2>1, <2>2
<1>5. ASSUME p = Job, job'.pc \notin {"files", "images"} PROVE todo'[p] = {}
  <2>1. job \in JobState /\ todo[p] \in SUBSET Files
    BY <1>1 DEF TypeOK
  <2>2. CASE job.pc \notin {"files", "images"} /\ ~Lists(p)
    <3>1. todo[p] = {}
      BY <1>1, <1>5, <2>2 DEF PurgeOK
    <3> QED BY <1>1, <2>2, <3>1 DEF TodoChange
  <2>3. ASSUME Lists(p) PROVE FALSE
    BY <1>1, <1>5, <2>1, <2>3 DEF Lists, JobStart, JobAnonymise, JobState
  <2>4. CASE job.pc \in {"files", "images"}
    <3>1. ASSUME JobStep PROVE todo[Job] = {} /\ todo' = todo
      BY <1>5, <2>1, <2>4, <3>1 DEF JobStep, JobStart, JobFindVisits, JobAnonymise, JobForget, JobClose,
                       JobDeleteInvitations, PurgeBlob, PurgeMark, JobState
    <3>2. ASSUME JobFails PROVE todo'[Job] = {}
      BY <1>1, <3>2 DEF JobFails
    <3> QED BY SMTT(30), <1>5, <2>4, <3>1, <3>2, WhoWrites DEF Written
  <2> QED BY <2>2, <2>3, <2>4
<1> QED BY <1>2, <1>3, <1>4, <1>5

LEMMA StepBearings == IInv /\ Bearings /\ [Next]_vars => Bearings'
  BY StepImageRows, StepKnown, StepTimely, StepFoundOK, StepPurgeOK DEF Bearings

-----------------------------------------------------------------------------
(* Images stay with their visit *)

LEMMA HandOvers ==
  ASSUME IInv, Bearings, [Next]_vars, NEW q \in Requests, NEW f \in Files, HandedOver(q, f)
  PROVE  /\ req[q].inv \in Invitations /\ req[f[1]].inv = req[q].inv /\ req[f[1]].op = "submit"
         /\ invitation[req[q].inv].status = "PENDING" /\ now < ValidUntil(req[q].inv)
         /\ req[q].pc = "checkin" /\ visit[q].status = "ABSENT"
         /\ file[f].state # "ABSENT" /\ file[f].visit = None
         /\ file'[f].state = file[f].state /\ file'[f].visit = q /\ file'[f].invitation = None
<1>1. /\ TypeOK /\ RequestsOK /\ Known /\ ImageRow(f) /\ q # None
      /\ req[q] \in RequestState /\ file[f] \in FileRow
  BY NothingIsNoOne DEF IInv, Bearings, ImageRows, TypeOK
<1>2. /\ req[q].pc = "checkin" /\ Consumable(q) /\ file[f].state # "ABSENT"
      /\ Guests(f, req[q].inv) /\ file'[f] = TakenOver(q, f)
  BY DEF HandedOver, CheckInCommit
<1>3. req[q].inv \in Invitations /\ visit[q].status = "ABSENT"
  <2>1. f[1] \in Requests
    BY Owners
  <2> QED BY <1>1, <1>2, <2>1 DEF Guests, Known, RequestsOK, RequestState
<1>4. invitation[req[q].inv].status = "PENDING" /\ now < ValidUntil(req[q].inv)
  BY <1>2, <1>3, NothingIsNoOne DEF Consumable, UsableAt
<1> QED BY <1>1, <1>2, <1>3, <1>4 DEF ImageRow, Guests, TakenOver, FileRow

(* What can happen to an image that is already there. *)
LEMMA OldImages ==
  ASSUME IInv, Bearings, [Next]_vars, NEW f \in Files, file[f].state # "ABSENT"
  PROVE  \/ file'[f] = file[f]
         \/ \E q \in Requests : HandedOver(q, f)
         \/ \E p \in Purgers : Marked(p, f)
  BY StepImageChange DEF ImageChange, Submitted, TakenAtCheckIn, TakenAtCheckOut, OwnImage

LEMMA MarkedRow ==
  ASSUME TypeOK, NEW f \in Files, NEW p \in Purgers, Marked(p, f)
  PROVE  /\ file'[f].state = "PURGED" /\ file'[f].visit = file[f].visit
         /\ file'[f].invitation = file[f].invitation /\ file'[f].purgeAfter = file[f].purgeAfter
<1>1. file[f] \in FileRow
  BY DEF TypeOK
<1> QED BY <1>1 DEF Marked, FileRow

LEMMA StepImagesStay == IInv /\ Bearings /\ [Next]_vars => ImagesStayStep
<1> SUFFICES ASSUME IInv, Bearings, [Next]_vars, NEW f \in Files
             PROVE /\ file[f].visit # None => file'[f].visit = file[f].visit
                   /\ file[f].state = "PURGED" => file'[f].state = "PURGED"
  BY DEF ImagesStayStep
<1>1. file[f].visit # None => file[f].state # "ABSENT"
  BY DEF Bearings, ImageRows, ImageRow
<1> QED BY <1>1, OldImages, HandOvers, MarkedRow DEF IInv

-----------------------------------------------------------------------------
(* What a request may purge *)

LEMMA StepListedOK ==
  IInv /\ Bearings /\ ListedOK /\ CancelOK /\ [Next]_vars => ListedOK'
<1> SUFFICES ASSUME IInv, Bearings, ListedOK, CancelOK, [Next]_vars,
                    NEW r \in Requests, NEW f \in Files, f \in todo'[r]
             PROVE /\ req'[r].op = "submit" => f[1] # r /\ Guests(f, req[r].inv)' /\ Sent(r)'
                   /\ req'[r].op = "cancel" => file'[f].visit = None /\ Guests(f, req[r].inv)'
                   /\ req'[r].op = "erase" => file'[f].visit = req'[r].visit
  BY DEF ListedOK
<1> USE DEF Bearings
<1>1. /\ TypeOK /\ RequestsOK /\ Known /\ FoundOK /\ ImageRows /\ PurgeOK /\ Onward /\ TodoChange(r)
      /\ Job \notin Requests /\ todo \in [Purgers -> SUBSET Files]
  BY StepOnward, StepTodoChange, NothingIsNoOne DEF IInv, TypeOK
<1>2. req \in [Requests -> RequestState] /\ req[r] \in RequestState
  BY <1>1 DEF TypeOK
<1>3. CASE f \in todo[r]
  <2>1. req[r].pc = "purge" /\ file[f].state # "ABSENT"
    BY <1>1, <1>3 DEF RequestsOK, PurgeOK
  <2>2. req'[r].op = req[r].op /\ req'[r].inv = req[r].inv /\ req'[r].visit = req[r].visit
    BY <1>1, <2>1 DEF Onward, RequestsGoOn
  <2>3. \A i : Guests(f, i) => req'[f[1]].op = "submit" /\ req'[f[1]].inv = i
    BY <1>1, <2>1, GuestsStay DEF Guests
  <2>4. Sent(r) => Sent(r)'
    <3>1. <<r, "SIGNATURE">> \in Files
      BY DEF Files, Kinds
    <3> QED BY <1>1, <3>1 DEF Onward, Sent
  <2>5. CASE req[r].op = "submit"
    BY <1>3, <2>2, <2>3, <2>4, <2>5 DEF ListedOK, Guests
  <2>6. CASE req[r].op = "cancel"
    <3>1. file[f].visit = None /\ Guests(f, req[r].inv) /\ invitation[req[r].inv].status # "PENDING"
      BY <1>3, <2>1, <2>6 DEF ListedOK, CancelOK
    <3>2. ~\E q \in Requests : HandedOver(q, f)
      BY <3>1, HandOvers DEF Guests
    <3>3. file'[f].visit = None
      BY <1>1, <2>1, <3>1, <3>2, OldImages, MarkedRow
    <3> QED BY <2>2, <2>3, <2>6, <3>1, <3>3 DEF Guests
  <2>7. CASE req[r].op = "erase"
    <3>1. file[f].visit = req[r].visit /\ req[r].visit # None
      BY <1>1, <1>3, <2>7 DEF ListedOK, RequestsOK
    <3> QED BY <2>2, <2>7, <3>1, StepImagesStay DEF ImagesStayStep
  <2> QED BY <2>2, <2>5, <2>6, <2>7
<1>4. CASE f \notin todo[r]
  <2>1. Lists(r)
    BY <1>1, <1>4 DEF TodoChange
  <2>2. CASE CancelFind(r)
    <3>1. /\ req[r].op = "cancel" /\ req[r].inv \in Invitations /\ req[r].pc # "idle"
          /\ f \in FilesOfInvitation(req[r].inv) /\ file' = file
      BY <1>1, <1>2, <2>2 DEF CancelFind, RequestsOK, RequestState
    <3>2. req'[r].op = req[r].op /\ req'[r].inv = req[r].inv
      BY <1>1, <3>1 DEF Onward, RequestsGoOn
    <3>3. file[f].visit = None /\ Guests(f, req[r].inv) /\ file[f].state # "ABSENT"
      BY <1>1, <3>1, InvitationImages
    <3> QED BY <1>1, <3>1, <3>2, <3>3, GuestsStay DEF Guests
  <2>3. CASE SubmitCommit(r)
    <3>1. /\ req[r].op = "submit" /\ req[r].pc = "submit" /\ f \in req[r].found
          /\ file' = [g \in Files |-> IF g \in ImagesOf(r)
                       THEN StoredRow(req[r].inv, None,
                              AddDays(ValidUntil(req[r].inv), InvitationKeepDays))
                       ELSE file[g]]
      BY <1>1, <2>3 DEF SubmitCommit, RequestsOK
    <3>2. file[f].state # "ABSENT" /\ f[1] # r /\ Guests(f, req[r].inv)
      BY <1>1, <3>1 DEF FoundOK
    <3>3. <<r, "SIGNATURE">> \in Files /\ <<r, "SIGNATURE">> \in ImagesOf(r)
      BY <3>1 DEF Files, Kinds, ImagesOf
    <3>4. Sent(r)'
      BY <3>1, <3>3 DEF Sent, StoredRow
    <3>5. req'[r].op = req[r].op /\ req'[r].inv = req[r].inv
      BY <1>1, <3>1 DEF Onward, RequestsGoOn
    <3> QED BY <1>1, <3>1, <3>2, <3>4, <3>5, GuestsStay DEF Guests
  <2>4. ASSUME NEW v \in Visits, EraseLoad(r, v)
        PROVE req'[r].op = "erase" /\ file'[f].visit = req'[r].visit
    BY <1>1, <1>2, <2>4 DEF EraseLoad, FilesOfVisit, RequestState
  <2> QED BY <1>1, <2>1, <2>2, <2>3, <2>4 DEF Lists
<1> QED BY <1>3, <1>4

-----------------------------------------------------------------------------
(* Cancellations *)

(* An image is written for an invitation only while this is open. *)
LEMMA NoNewImages ==
  ASSUME IInv, Bearings, [Next]_vars, NEW i \in Invitations, invitation[i].status # "PENDING",
         NEW f \in Files, file'[f].state = "STORED", file'[f].invitation = i
  PROVE  file'[f] = file[f]
<1>1. TypeOK /\ ImageChange(f) /\ i # None
  BY StepOnward, NothingIsNoOne DEF IInv, Onward
<1>2. ASSUME Submitted(f) PROVE FALSE
  BY <1>2 DEF Submitted, SubmitCommit, StoredRow
<1>3. ~TakenAtCheckIn(f) /\ ~TakenAtCheckOut(f)
  BY <1>1 DEF TakenAtCheckIn, TakenAtCheckOut, StoredRow
<1>4. ~\E q \in Requests : HandedOver(q, f)
  BY <1>1, HandOvers
<1>5. ~\E p \in Purgers : Marked(p, f)
  BY <1>1, MarkedRow
<1> QED BY <1>1, <1>2, <1>3, <1>4, <1>5 DEF ImageChange

LEMMA StepCancelOK == IInv /\ Bearings /\ CancelOK /\ [Next]_vars => CancelOK'
<1> SUFFICES ASSUME IInv, Bearings, CancelOK, [Next]_vars, NEW r \in Requests,
                    req'[r].op = "cancel", req'[r].pc \in {"cancelFiles", "purge"}
             PROVE /\ invitation'[req'[r].inv].status # "PENDING"
                   /\ req'[r].pc = "purge" => FilesOfInvitation(req[r].inv)' \subseteq todo'[r]
  BY DEF CancelOK
<1> USE DEF Bearings
<1>1. /\ TypeOK /\ RequestsOK /\ Known /\ ImageRows /\ PurgeOK /\ Onward /\ TodoChange(r)
      /\ RequestChange(r) /\ Job \notin Requests /\ todo \in [Purgers -> SUBSET Files]
  BY StepOnward, StepTodoChange, StepRequestChange, NothingIsNoOne DEF IInv, TypeOK
<1>2. req \in [Requests -> RequestState] /\ req[r] \in RequestState
  BY <1>1 DEF TypeOK
<1>3. ~Arrive(r)
  <2>1. ASSUME NEW v \in Visits, EraseLoad(r, v) PROVE req'[r].op = "erase"
    BY <1>2, <2>1 DEF EraseLoad, RequestState
  <2> QED BY <1>1, <2>1, Arrivals
<1>4. ~SubmitCommit(r) /\ ~LastPurge(r) /\ ~Ends(r) /\ \A c \in ExitCodes : ~CheckInBegin(r, c)
  <2>1. ASSUME SubmitCommit(r) PROVE FALSE
    BY <1>1, <1>2, <2>1 DEF SubmitCommit, RequestsOK, RequestState
  <2>2. ASSUME NEW c \in ExitCodes, CheckInBegin(r, c) PROVE FALSE
    BY <1>2, <2>2 DEF CheckInBegin, RequestState
  <2> QED BY <1>1, <2>1, <2>2, LastPurges DEF Ends
<1>5. CASE req'[r] = req[r]
  <2> DEFINE i == req[r].inv
  <2>1. i \in Invitations /\ invitation[i].status \notin {"ABSENT", "PENDING"}
    BY <1>1, <1>2, <1>5 DEF CancelOK, Known, RequestState
  <2>2. invitation'[i].status # "PENDING"
    BY <1>1, <2>1 DEF Onward, InvitationsGoOn
  <2>3. ASSUME req[r].pc = "purge", NEW f \in Files, file'[f].state = "STORED",
               file'[f].invitation = i
        PROVE f \in todo'[r]
    <3>6. file'[f] = file[f]
      BY <2>1, <2>3, NoNewImages
    <3>7. f \in todo[r]
      BY <1>5, <2>3, <3>6 DEF CancelOK, FilesOfInvitation
    <3>8. ~Lists(r)
      BY <1>1, <1>3, <1>4, <1>5, <2>3
         DEF Lists, CancelFind, EraseLoad, CanBegin
    <3>9. ~Drops(r)
      BY <1>1, <1>2, <2>3, <1>5 DEF Drops, RequestFails, RequestState
    <3>10. ASSUME NEW g \in Files, PurgeMark(r, g), todo'[r] = todo[r] \ {g} PROVE f # g
      <4>1. file'[g].state = "PURGED"
        BY <1>1, <3>10 DEF PurgeMark, TypeOK, FileRow
      <4> QED BY <2>3, <4>1
    <3> QED BY <1>1, <3>7, <3>8, <3>9, <3>10 DEF TodoChange
  <2> QED BY <1>5, <2>2, <2>3 DEF FilesOfInvitation
<1>6. CASE CancelUpdate(r)
  <2>1. /\ req[r].pc = "cancel" /\ req[r].inv \in Invitations
        /\ req'[r].pc = "cancelFiles" /\ req'[r].inv = req[r].inv
        /\ invitation' = [invitation EXCEPT ![req[r].inv].status =
                            IF @ = "PENDING" THEN "CANCELLED" ELSE @]
    BY <1>1, <1>2, <1>6 DEF CancelUpdate, RequestsOK, RequestState
  <2>2. invitation'[req[r].inv].status # "PENDING"
    BY <1>1, <2>1 DEF TypeOK, InvitationRow
  <2> QED BY <2>1, <2>2
<1>7. CASE CancelFind(r)
  <2>1. /\ req[r].pc = "cancelFiles" /\ req[r].op = "cancel" /\ req'[r].inv = req[r].inv
        /\ todo'[r] = FilesOfInvitation(req[r].inv) /\ UNCHANGED <<invitation, file>>
    BY <1>1, <1>2, <1>7 DEF CancelFind, RequestsOK, RequestState
  <2> QED BY <2>1 DEF CancelOK, FilesOfInvitation
<1> QED BY <1>1, <1>3, <1>4, <1>5, <1>6, <1>7 DEF RequestChange

-----------------------------------------------------------------------------
(* Erasures *)

LEMMA StepEraseOK == IInv /\ Bearings /\ EraseOK /\ [Next]_vars => EraseOK'
<1> SUFFICES ASSUME IInv, Bearings, EraseOK, [Next]_vars, NEW r \in Requests, NEW f \in Files,
                    req'[r].op = "erase", req'[r].pc \in {"purge", "forget"},
                    file'[f].state = "STORED", file'[f].visit = req'[r].visit, f[2] # "ASSET_OUT"
             PROVE req'[r].pc = "purge" /\ f \in todo'[r]
  BY DEF EraseOK
<1> USE DEF Bearings
<1>1. /\ TypeOK /\ RequestsOK /\ ImageRows /\ Onward /\ TodoChange(r)
      /\ RequestChange(r) /\ Job \notin Requests /\ todo \in [Purgers -> SUBSET Files]
  BY StepOnward, StepTodoChange, StepRequestChange, NothingIsNoOne DEF IInv, TypeOK
<1>2. req \in [Requests -> RequestState] /\ req[r] \in RequestState
  BY <1>1 DEF TypeOK
<1>3. CASE Arrive(r)
  <2> PICK v \in Visits : EraseLoad(r, v)
    BY <1>1, <1>3, Arrivals
  <2>1. /\ file' = file /\ todo'[r] = FilesOfVisit(v) /\ req'[r].visit = v
        /\ req'[r].pc = PurgeThen(r, FilesOfVisit(v), "forget")
    BY <1>1, <1>2 DEF EraseLoad, RequestState
  <2>2. f \in FilesOfVisit(v)
    BY <2>1 DEF FilesOfVisit
  <2> QED BY <2>1, <2>2 DEF PurgeThen
<1>4. CASE ~Arrive(r)
  <2>1. req'[r] = req[r] \/ LastPurge(r)
    <3>1. ASSUME CancelUpdate(r) \/ CancelFind(r) PROVE FALSE
      BY <1>1, <1>2, <3>1 DEF CancelUpdate, CancelFind, RequestsOK, RequestState
    <3>2. ASSUME SubmitCommit(r) PROVE FALSE
      BY <1>1, <1>2, <3>2 DEF SubmitCommit, RequestsOK, RequestState
    <3>3. ASSUME NEW c \in ExitCodes, CheckInBegin(r, c) PROVE FALSE
      BY <1>2, <3>3 DEF CheckInBegin, RequestState
    <3>4. ~Ends(r)
      BY DEF Ends
    <3> QED BY <1>1, <1>4, <3>1, <3>2, <3>3, <3>4 DEF RequestChange
  <2>2. /\ req[r].op = "erase" /\ req'[r].visit = req[r].visit
        /\ req[r].pc \in {"purge", "forget"}
        /\ req[r].visit \in Visits /\ visit[req[r].visit].status # "ABSENT"
    <3>1. req[r].pc \in {"purge", "forget"}
      BY <1>1, <2>1, LastPurges
    <3>2. req'[r].op = req[r].op /\ req'[r].visit = req[r].visit
      BY <1>1, <3>1 DEF Onward, RequestsGoOn
    <3> QED BY <1>1, <1>2, <3>1, <3>2 DEF RequestsOK, RequestState
  <2>3. file'[f] = file[f]
    <3>1. ~Submitted(f)
      BY <2>2, NothingIsNoOne DEF Submitted, StoredRow
    <3>2. ~TakenAtCheckIn(f)
      <4>1. ASSUME TakenAtCheckIn(f) PROVE FALSE
        <5>1. file'[f].visit = f[1] /\ req[f[1]].pc = "checkin" /\ f[1] \in Requests
          BY <4>1 DEF TakenAtCheckIn, OwnImage, CheckInCommit, StoredRow
        <5> QED BY <1>1, <2>2, <5>1 DEF RequestsOK
      <4> QED BY <4>1
    <3>3. ~TakenAtCheckOut(f)
      BY DEF TakenAtCheckOut
    <3>4. ~\E q \in Requests : HandedOver(q, f)
      BY <2>2, HandOvers
    <3>5. ~\E p \in Purgers : Marked(p, f)
      BY <1>1, MarkedRow
    <3> QED BY <1>1, <3>1, <3>2, <3>3, <3>4, <3>5 DEF Onward, ImageChange
  <2>4. req[r].pc = "purge" /\ f \in todo[r]
    BY <2>2, <2>3 DEF EraseOK
  <2>5. ASSUME NEW g \in Files, PurgeMark(r, g) PROVE f # g
    <3>1. file'[g].state = "PURGED"
      BY <1>1, <2>5 DEF PurgeMark, TypeOK, FileRow
    <3> QED BY <3>1
  <2>6. ~LastPurge(r)
    BY <2>4, <2>5 DEF LastPurge
  <2>7. ~Lists(r) /\ ~Drops(r)
    <3>1. req'[r].pc = "purge"
      BY <2>1, <2>4, <2>6
    <3>2. ~Drops(r)
      BY <1>1, <1>2, <3>1 DEF Drops, RequestFails, RequestState
    <3>3. ~Lists(r)
      BY <1>1, <2>4 DEF Lists, CancelFind, SubmitCommit, EraseLoad, CanBegin
    <3> QED BY <3>2, <3>3
  <2> QED BY <1>1, <2>1, <2>4, <2>5, <2>6, <2>7 DEF TodoChange
<1> QED BY <1>3, <1>4

-----------------------------------------------------------------------------
(* The retention run *)

(* The images of an invitation are kept until after it is over. *)
LEMMA KeptUntilOver ==
  ASSUME IInv, Bearings, NEW f \in Files, file[f].state # "ABSENT", file[f].visit = None,
         req[f[1]].op = "submit"
  PROVE  /\ req[f[1]].inv \in Invitations /\ file[f].invitation = req[f[1]].inv
         /\ file[f].purgeAfter >= ValidUntil(req[f[1]].inv)
         /\ ValidUntil(req[f[1]].inv) \in Int /\ file[f].purgeAfter \in Int
<1> DEFINE i == req[f[1]].inv
<1>1. TypeOK /\ Known /\ ImageRow(f) /\ f[1] \in Requests
  BY Owners DEF IInv, Bearings, ImageRows
<1>2. i \in Invitations
  BY <1>1 DEF Known, TypeOK, RequestState
<1>3. ValidUntil(i) \in Int
  BY <1>1, <1>2, Lengths DEF TypeOK, InvitationRow, ValidUntil
<1>4. file[f].purgeAfter = AddDays(ValidUntil(i), InvitationKeepDays) /\ file[f].invitation = i
  BY <1>1 DEF ImageRow
<1>5. /\ AddDays(ValidUntil(i), InvitationKeepDays) >= ValidUntil(i)
      /\ AddDays(ValidUntil(i), InvitationKeepDays) \in Int
  BY <1>3, DateFacts, Lengths
<1> QED BY <1>2, <1>3, <1>4, <1>5

(* A submission is answered before the images it stores are due. *)
LEMMA SubmittedInTime ==
  ASSUME IInv, Bearings, NEW f \in Files, Submitted(f) PROVE file'[f].purgeAfter >= now
<1> DEFINE r == f[1]
           i == req[r].inv
<1>1. /\ TypeOK /\ RequestsOK /\ Timely /\ r \in Requests /\ req[r].pc = "submit"
      /\ req[r].since \in Int /\ now \in Int
      /\ file'[f].purgeAfter = AddDays(ValidUntil(i), InvitationKeepDays)
  BY Owners DEF IInv, Bearings, Submitted, SubmitCommit, StoredRow, TypeOK, RequestState
<1>2. now <= req[r].since + DayLength /\ req[r].since < ValidUntil(i)
  BY <1>1 DEF Timely, InFlight
<1>3. i \in Invitations /\ ValidUntil(i) \in Int
  BY <1>1, Lengths DEF RequestsOK, TypeOK, RequestState, InvitationRow, ValidUntil
<1>4. /\ AddDays(ValidUntil(i), InvitationKeepDays) \in Int
      /\ AddDays(ValidUntil(i), InvitationKeepDays) >= ValidUntil(i)
      /\ DayLength = 1 \/ AddDays(ValidUntil(i), InvitationKeepDays) >= ValidUntil(i) + DayLength
  BY <1>3, DateFacts, Lengths
<1> QED BY <1>1, <1>2, <1>3, <1>4, Lengths

Due(f) ==
  file[f].state = "STORED" /\ file[f].invitation # None /\ file[f].purgeAfter < job.now

LEMMA StepRunOK == IInv /\ Bearings /\ RunOK /\ [Next]_vars => RunOK'
<1> SUFFICES ASSUME IInv, Bearings, RunOK, [Next]_vars PROVE RunOK'
  OBVIOUS
<1> USE DEF Bearings
<1>1. /\ TypeOK /\ RequestsOK /\ JobOK /\ ImageRows /\ PurgeOK /\ Timely /\ Onward /\ TodoChange(Job)
      /\ Job \notin Requests /\ Job \in Purgers /\ todo \in [Purgers -> SUBSET Files]
  BY StepOnward, StepTodoChange, NothingIsNoOne DEF IInv, TypeOK
<1>2. /\ job \in JobState /\ now \in Int /\ job.now \in Int /\ job.now <= now /\ now <= now'
      /\ file \in [Files -> FileRow] /\ visit \in [Visits -> VisitRow]
  BY <1>1 DEF TypeOK, JobState, Timely, Onward
<1>3. ASSUME NEW f \in todo'[Job] PROVE file'[f].purgeAfter < now'
  <2>1. CASE f \in todo[Job]
    <3>1. f \in Files /\ file[f].state # "ABSENT" /\ file[f].purgeAfter < now /\ file[f].purgeAfter \in Int
      BY <1>1, <1>2, <2>1 DEF PurgeOK, RunOK, FileRow
    <3>2. ~\E q \in Requests : HandedOver(q, f)
      <4> SUFFICES ASSUME NEW q \in Requests, HandedOver(q, f) PROVE FALSE
        OBVIOUS
      <4>1. file[f].visit = None /\ req[f[1]].op = "submit" /\ now < ValidUntil(req[f[1]].inv)
        BY <3>1, HandOvers
      <4> QED BY <1>2, <3>1, <4>1, KeptUntilOver
    <3>3. file'[f].purgeAfter = file[f].purgeAfter
      BY <1>1, <3>1, <3>2, OldImages, MarkedRow
    <3> QED BY <1>2, <1>1, <3>1, <3>3 DEF Onward
  <2>2. CASE f \notin todo[Job]
    <3>1. Lists(Job)
      BY <1>1, <1>3, <2>2 DEF TodoChange
    <3>2. CASE JobStart
      BY <1>1, <1>3, <3>2 DEF JobStart
    <3>3. ASSUME NEW v \in Visits, JobAnonymise(v) PROVE file'[f].purgeAfter < now'
      <4>1. /\ f \in Files /\ file[f].visit = v /\ v \in job.visits
            /\ file' = file /\ now' = now
        BY <1>1, <1>3, <3>3 DEF JobAnonymise, FilesOfVisit
      <4>2. /\ file[f].purgeAfter = AddDays(visit[v].checkInAt, KeepDays(f[2]))
            /\ visit[v].checkInAt \in Int /\ f[2] \in Kinds
        BY <1>1, <1>2, <4>1, NothingIsNoOne, Owners DEF ImageRows, ImageRow, VisitRow
      <4>3. visit[v].checkInAt < AddDays(job.now, -VisitRetentionDays)
        BY <4>1 DEF RunOK
      <4>4. /\ AddDays(visit[v].checkInAt, VisitRetentionDays) < job.now
            /\ AddDays(visit[v].checkInAt, KeepDays(f[2])) <= AddDays(visit[v].checkInAt, VisitRetentionDays)
        BY <1>2, <4>2, <4>3, DateFacts
      <4>5. /\ AddDays(visit[v].checkInAt, VisitRetentionDays) \in Int
            /\ AddDays(visit[v].checkInAt, KeepDays(f[2])) \in Int
        <5>1. VisitRetentionDays \in Int /\ KeepDays(f[2]) \in Int
          BY <4>2, Lengths, KeepDaysBounds
        <5> QED BY <4>2, <5>1, DateFacts
      <4> QED BY <1>2, <4>1, <4>2, <4>4, <4>5
    <3> QED BY <1>1, <3>1, <3>2, <3>3 DEF Lists
  <2> QED BY <2>1, <2>2
<1>4. ASSUME NEW v \in job'.visits PROVE visit'[v].checkInAt < AddDays(job'.now, -VisitRetentionDays)
  <2>1. CASE v \in job.visits
    <3>1. v \in Visits /\ visit[v].status # "ABSENT" /\ visit[v].checkInAt \in Int
      BY <1>1, <1>2, <2>1 DEF JobOK, JobState, VisitRow
    <3>2. visit'[v].checkInAt = visit[v].checkInAt
      BY <1>1, <3>1 DEF Onward, VisitsGoOn
    <3>3. visit[v].checkInAt < AddDays(job.now, -VisitRetentionDays)
      BY <2>1 DEF RunOK
    <3>4. job'.now \in {job.now, now}
      <4>1. ASSUME JobStep PROVE job'.now \in {job.now, now}
        BY <1>2, <4>1 DEF JobStep, JobStart, JobFindVisits, JobForget, JobClose, JobDeleteInvitations,
                     JobAnonymise, PurgeBlob, PurgeMark, JobState
      <4>2. ASSUME JobFails PROVE job'.now = job.now
        BY <1>2, <4>2 DEF JobFails, JobState
      <4> QED BY <4>1, <4>2, WhoWrites DEF Written
    <3>5. /\ AddDays(job.now, -VisitRetentionDays) <= AddDays(now, -VisitRetentionDays)
          /\ AddDays(job.now, -VisitRetentionDays) \in Int /\ AddDays(now, -VisitRetentionDays) \in Int
      <4>1. (-VisitRetentionDays) * DayLength \in Int
        BY Lengths, Multiples
      <4> QED BY <1>2, <4>1 DEF AddDays
    <3> QED BY <3>1, <3>2, <3>3, <3>4, <3>5
  <2>2. CASE v \notin job.visits
    <3>1. ASSUME JobStep, ~JobFindVisits PROVE job'.visits \subseteq job.visits
      <4>1. ASSUME NEW w \in Visits, JobAnonymise(w) PROVE job'.visits = job.visits
        BY <1>2, <4>1 DEF JobAnonymise, JobState
      <4>2. ASSUME JobForget PROVE job'.visits \subseteq job.visits
        BY <1>2, <4>2 DEF JobForget, JobState
      <4>3. ASSUME JobStart \/ JobClose \/ JobDeleteInvitations PROVE job'.visits = job.visits
        BY <1>2, <4>3 DEF JobStart, JobClose, JobDeleteInvitations, JobState
      <4>4. ASSUME NEW g \in Files, PurgeBlob(Job, g) \/ PurgeMark(Job, g) PROVE job' = job
        BY <4>4 DEF PurgeBlob, PurgeMark
      <4> QED BY <3>1, <4>1, <4>2, <4>3, <4>4 DEF JobStep
    <3>2. ~JobFails
      BY <1>2, <1>4 DEF JobFails, JobState
    <3>3. JobFindVisits
      BY <1>4, <2>2, <3>1, <3>2, WhoWrites DEF Written
    <3>4. /\ v \in Visits /\ visit' = visit /\ job'.now = job.now
          /\ visit[v].checkInAt < AddDays(job.now, -VisitRetentionDays)
      BY <1>2, <1>4, <3>3 DEF JobFindVisits, JobState
    <3> QED BY <3>4
  <2> QED BY <2>1, <2>2
<1>5. ASSUME job'.pc # "idle", NEW f \in Files, Due(f)' PROVE job'.pc = "files" /\ f \in todo'[Job]
  <2>1. CASE JobStart
    <3>1. file' = file /\ job'.pc = "files" /\ job'.now = now
          /\ todo'[Job] = {g \in Files : file[g].state = "STORED" /\ file[g].purgeAfter < now}
      BY <1>1, <1>2, <2>1 DEF JobStart, JobState
    <3> QED BY <1>5, <3>1 DEF Due
  <2>2. CASE ~JobStart
    <3>1. job.pc # "idle" /\ job'.now = job.now
      <4>1. ASSUME JobStep PROVE job.pc # "idle" /\ job'.now = job.now
        <5>1. CASE \E g \in Files : PurgeBlob(Job, g) \/ PurgeMark(Job, g)
          <6>1. job' = job /\ todo[Job] # {}
            BY <1>1, <5>1 DEF PurgeBlob, PurgeMark, PurgeOK
          <6> QED BY <1>1, <6>1 DEF PurgeOK
        <5>2. CASE ~\E g \in Files : PurgeBlob(Job, g) \/ PurgeMark(Job, g)
          BY <1>2, <2>2, <4>1, <5>2 DEF JobStep, JobFindVisits, JobForget, JobClose,
                     JobDeleteInvitations, JobAnonymise, JobState
        <5> QED BY <5>1, <5>2
      <4>2. ~JobFails
        BY <1>2, <1>5 DEF JobFails, JobState
      <4> QED BY <1>5, <4>1, <4>2, WhoWrites DEF Written
    <3>2. file'[f] = file[f]
      <4>1. ~Submitted(f)
        <5>1. ASSUME Submitted(f) PROVE FALSE
          <6>1. file'[f].purgeAfter >= now
            BY <5>1, SubmittedInTime
          <6>2. file'[f].purgeAfter < job.now /\ file'[f].purgeAfter \in Int
            BY <1>5, <3>1, StepTypeOK DEF Due, IInv, TypeOK, FileRow
          <6> QED BY <1>2, <6>1, <6>2
        <5> QED BY <5>1
      <4>2. ~TakenAtCheckIn(f) /\ ~TakenAtCheckOut(f)
        BY <1>5 DEF TakenAtCheckIn, TakenAtCheckOut, StoredRow, Due
      <4>3. ~\E q \in Requests : HandedOver(q, f)
        BY <1>5, HandOvers DEF Due
      <4>4. ~\E p \in Purgers : Marked(p, f)
        BY <1>1, <1>5, MarkedRow DEF Due
      <4> QED BY <1>1, <4>1, <4>2, <4>3, <4>4 DEF Onward, ImageChange
    <3>3. job.pc = "files" /\ f \in todo[Job]
      BY <1>5, <3>1, <3>2 DEF RunOK, Due
    <3>4. ASSUME NEW g \in Files, PurgeMark(Job, g) PROVE f # g
      <4>1. file'[g].state = "PURGED"
        BY <1>1, <3>4 DEF PurgeMark, TypeOK, FileRow
      <4> QED BY <1>5, <4>1 DEF Due
    <3>5. ~Lists(Job) /\ ~Drops(Job)
      <4>1. ~JobFails
        BY <1>2, <1>5 DEF JobFails, JobState
      <4> QED BY <1>1, <2>2, <3>3, <4>1 DEF Lists, Drops, JobAnonymise
    <3>6. f \in todo'[Job]
      BY <1>1, <3>3, <3>4, <3>5 DEF TodoChange
    <3>7. job'.pc = "files"
      <4>1. ~JobFindVisits
        BY <3>3 DEF JobFindVisits
      <4>2. ~JobFails
        BY <1>2, <1>5 DEF JobFails, JobState
      <4>3. ASSUME JobStep PROVE job' = job
        BY <2>2, <3>3, <4>1, <4>3 DEF JobStep, JobForget, JobClose, JobDeleteInvitations, JobAnonymise,
                                      PurgeBlob, PurgeMark
      <4> QED BY <3>3, <4>2, <4>3, WhoWrites DEF Written
    <3> QED BY <3>6, <3>7
  <2> QED BY <2>1, <2>2
<1> QED BY <1>3, <1>4, <1>5 DEF RunOK, Due

-----------------------------------------------------------------------------
(* The data of a form *)

LEMMA SentStays ==
  ASSUME IInv, Bearings, [Next]_vars, NEW s \in Requests, Sent(s)
  PROVE  Sent(s)' /\ req'[s].op = req[s].op /\ req'[s].inv = req[s].inv
<1>1. <<s, "SIGNATURE">> \in Files /\ <<s, "SIGNATURE">>[1] = s
  BY DEF Files, Kinds
<1>2. ImageRows /\ Onward
  BY StepOnward DEF Bearings
<1> QED BY <1>1, <1>2, GuestsStay DEF Sent, Onward

(* Only a check-in makes a visit, its own. *)
LEMMA NewVisits ==
  ASSUME IInv, [Next]_vars, NEW v \in Visits, visit[v].status = "ABSENT", visit'[v].status # "ABSENT"
  PROVE  CheckInCommit(v)
<1>0. /\ TypeOK /\ RequestsOK /\ JobOK /\ req \in [Requests -> RequestState]
      /\ visit \in [Visits -> VisitRow]
  BY DEF IInv, TypeOK
<1>1. ASSUME NEW r \in Requests, r # v, CheckInCommit(r) PROVE FALSE
  BY <1>0, <1>1 DEF CheckInCommit
<1>2. ASSUME NEW r \in Requests, CheckOutCommit(r) PROVE FALSE
  BY <1>0, <1>2 DEF CheckOutCommit, VisitRow
<1>3. ASSUME NEW r \in Requests, EraseForget(r) PROVE FALSE
  <2>1. req[r].visit \in Visits /\ visit[req[r].visit].status # "ABSENT"
    BY <1>0, <1>3 DEF EraseForget, RequestsOK, RequestState
  <2> QED BY <1>0, <1>3, <2>1 DEF EraseForget
<1>4. ASSUME NEW w \in Visits, ManualCheckout(w) PROVE FALSE
  BY <1>0, <1>4 DEF ManualCheckout
<1>5. ASSUME JobForget PROVE FALSE
  BY <1>0, <1>5 DEF JobForget, VisitRow
<1>6. ASSUME JobClose PROVE FALSE
  BY <1>0, <1>6 DEF JobClose
<1>7. ASSUME NEW r \in Requests, SubmitCommit(r) \/ CancelUpdate(r) PROVE FALSE
  BY <1>7 DEF SubmitCommit, CancelUpdate
<1>8. ASSUME NEW i \in Invitations, NEW d \in 0..(MaxTime \div DayLength),
             CreateInvitation(i, d * DayLength) PROVE FALSE
  BY <1>8 DEF CreateInvitation
<1>9. ~JobDeleteInvitations
  BY DEF JobDeleteInvitations
<1> QED BY Writers, <1>1, <1>2, <1>3, <1>4, <1>5, <1>6, <1>7, <1>8, <1>9 DEF Writes

LEMMA StepDataOK == IInv /\ Bearings /\ DataOK /\ [Next]_vars => DataOK'
<1> SUFFICES ASSUME IInv, Bearings, DataOK, [Next]_vars PROVE DataOK'
  OBVIOUS
<1> USE DEF Bearings
<1>1. /\ TypeOK /\ RequestsOK /\ JobOK /\ Known /\ Onward /\ None \notin Requests
      /\ req \in [Requests -> RequestState] /\ invitation \in [Invitations -> InvitationRow]
      /\ visit \in [Visits -> VisitRow]
  BY StepOnward, NothingIsNoOne DEF IInv, TypeOK
<1>2. ASSUME NEW i \in Invitations, invitation'[i].pre # None
      PROVE Guests(<<invitation[i].pre, "SIGNATURE">>, i)' /\ Sent(invitation[i].pre)'
  <2>1. CASE invitation'[i].pre = invitation[i].pre
    <3>1. invitation[i].pre \in Requests
      BY <1>1, <1>2, <2>1 DEF InvitationRow
    <3>2. Guests(<<invitation[i].pre, "SIGNATURE">>, i) /\ Sent(invitation[i].pre)
      BY <1>2, <2>1 DEF DataOK
    <3> QED BY <2>1, <3>1, <3>2, SentStays DEF Guests
  <2>2. ASSUME NEW r \in Requests, SubmitCommit(r)
        PROVE \/ invitation'[i].pre = invitation[i].pre
              \/ (Guests(<<invitation[i].pre, "SIGNATURE">>, i)' /\ Sent(invitation[i].pre)')
    <3>1. /\ req[r].pc = "submit" /\ req[r].op = "submit" /\ req[r].inv \in Invitations
          /\ invitation' = [invitation EXCEPT ![req[r].inv].pre = r]
          /\ file' = [g \in Files |-> IF g \in ImagesOf(r)
                       THEN StoredRow(req[r].inv, None,
                              AddDays(ValidUntil(req[r].inv), InvitationKeepDays))
                       ELSE file[g]]
      BY <1>1, <2>2 DEF SubmitCommit, RequestsOK, RequestState
    <3>2. CASE i = req[r].inv
      <4>1. invitation'[i].pre = r
        BY <1>1, <3>1, <3>2 DEF InvitationRow
      <4>2. <<r, "SIGNATURE">> \in Files /\ <<r, "SIGNATURE">> \in ImagesOf(r)
        BY <3>1 DEF Files, Kinds, ImagesOf
      <4>3. Sent(r)'
        BY <3>1, <4>2 DEF Sent, StoredRow
      <4>4. req'[r].op = "submit" /\ req'[r].inv = i
        BY <1>1, <3>1, <3>2 DEF Onward, RequestsGoOn
      <4> QED BY <4>1, <4>3, <4>4 DEF Guests, Sent
    <3>3. CASE i # req[r].inv
      <4>1. invitation'[i] = invitation[i]
        BY <1>1, <3>1, <3>3
      <4>2. invitation'[i].pre = invitation[i].pre
        BY <4>1
      <4> QED BY <4>2
    <3> QED BY <3>2, <3>3
  <2>3. ASSUME NEW r \in Requests, CancelUpdate(r) PROVE invitation'[i].pre = invitation[i].pre
    BY <1>1, <2>3 DEF CancelUpdate, InvitationRow
  <2>4. ASSUME NEW r \in Requests, CheckInCommit(r) PROVE invitation'[i].pre = invitation[i].pre
    BY <1>1, <2>4 DEF CheckInCommit, InvitationRow
  <2>5. ASSUME NEW r \in Requests, CheckOutCommit(r) \/ EraseForget(r)
        PROVE invitation'[i].pre = invitation[i].pre
    BY <2>5 DEF CheckOutCommit, EraseForget
  <2>6. ASSUME NEW j \in Invitations, NEW d \in 0..(MaxTime \div DayLength),
               CreateInvitation(j, d * DayLength) PROVE invitation'[i].pre = invitation[i].pre
    BY <1>1, <2>6 DEF CreateInvitation, InvitationRow
  <2>7. ASSUME NEW v \in Visits, ManualCheckout(v) PROVE invitation'[i].pre = invitation[i].pre
    BY <2>7 DEF ManualCheckout
  <2>8. ASSUME JobForget \/ JobClose \/ JobDeleteInvitations
        PROVE invitation'[i].pre = invitation[i].pre
    BY <1>1, <2>8 DEF JobForget, JobClose, JobDeleteInvitations, InvitationRow
  <2> QED BY Writers, <2>1, <2>2, <2>3, <2>4, <2>5, <2>6, <2>7, <2>8 DEF Writes
<1>3. ASSUME NEW r \in Requests, req'[r].op = "preregistered"
      PROVE req'[r].data # None /\ Guests(<<req[r].data, "SIGNATURE">>, req[r].inv)'
            /\ Sent(req[r].data)'
  <2>1. CASE req[r].op = "preregistered" /\ req'[r].data = req[r].data /\ req'[r].inv = req[r].inv
    <3>1. /\ req[r].data \in Requests /\ Guests(<<req[r].data, "SIGNATURE">>, req[r].inv)
          /\ Sent(req[r].data)
      BY <1>1, <2>1 DEF DataOK, RequestState
    <3> QED BY <1>1, <2>1, <3>1, SentStays DEF Guests
  <2>2. CASE Arrive(r)
    <3> PICK i \in Invitations : PreregisteredLoad(r, i)
      BY <1>1, <1>3, <2>2, Arrivals
    <3>1. /\ req'[r].data = invitation[i].pre /\ req'[r].inv = i /\ invitation[i].pre # None
          /\ invitation[i].pre \in Requests
      BY <1>1 DEF PreregisteredLoad, RequestState, InvitationRow
    <3>2. Guests(<<invitation[i].pre, "SIGNATURE">>, i) /\ Sent(invitation[i].pre)
      BY <3>1 DEF DataOK
    <3> QED BY <1>1, <3>1, <3>2, SentStays DEF Guests
  <2>3. CASE ~Arrive(r)
    <3>1. req[r].pc = "idle" => req'[r] = req[r]
      BY <1>1, <2>3, StepRequestChange, LastPurges
         DEF RequestChange, CancelUpdate, CancelFind, SubmitCommit, CheckInBegin, Ends, InFlight
    <3>2. req[r].pc # "idle" =>
            req'[r].op = req[r].op /\ req'[r].data = req[r].data /\ req'[r].inv = req[r].inv
      BY <1>1 DEF Onward, RequestsGoOn
    <3>3. req[r].op = "preregistered" /\ req'[r].data = req[r].data /\ req'[r].inv = req[r].inv
      <4>1. CASE req[r].pc = "idle"
        BY <1>3, <3>1, <4>1
      <4>2. CASE req[r].pc # "idle"
        BY <1>3, <3>2, <4>2
      <4> QED BY <4>1, <4>2
    <3> QED BY ZenonT(30), <2>1, <3>3
  <2> QED BY <2>2, <2>3
<1>4. ASSUME NEW v \in Visits, visit'[v].status # "ABSENT" PROVE visit'[v].data \in {req'[v].data, None}
  <2>1. CASE visit[v].status # "ABSENT"
    <3>1. visit[v].data \in {req[v].data, None} /\ req[v].pc = "done"
      BY <1>1, <2>1 DEF DataOK, RequestsOK
    <3>2. req'[v].data = req[v].data /\ visit'[v].data \in {visit[v].data, None}
      BY <1>1, <2>1, <3>1 DEF Onward, RequestsGoOn, VisitsGoOn
    <3> QED BY <3>1, <3>2
  <2>2. CASE visit[v].status = "ABSENT"
    <3>1. CheckInCommit(v)
      BY <1>4, <2>2, NewVisits
    <3>2. visit'[v].data = req[v].data /\ req'[v].data = req[v].data
      BY <1>1, <3>1 DEF CheckInCommit, RequestState
    <3> QED BY <3>2
  <2> QED BY <2>1, <2>2
<1> QED BY <1>2, <1>3, <1>4 DEF DataOK

-----------------------------------------------------------------------------
(* The signature waits for the check-in *)

(* While its invitation is open and its guest submitted nothing else, an image waits: no check-in
   takes it, no purge lists it. *)
LEMMA AwaitedImagesWait ==
  ASSUME IInv, Bearings, ListedOK, CancelOK, RunOK, [Next]_vars,
         NEW i \in Invitations, NEW f \in Files, Guests(f, i), OnlySubmission(f[1], i),
         file[f].state = "STORED", file[f].invitation = i,
         invitation[i].status = "PENDING", now < ValidUntil(i),
         invitation'[i].status = "PENDING"
  PROVE  file'[f] = file[f]
<1> USE DEF Bearings
<1>1. /\ TypeOK /\ RequestsOK /\ PurgeOK /\ ImageRow(f) /\ i # None
      /\ todo \in [Purgers -> SUBSET Files] /\ now \in Int
  BY NothingIsNoOne DEF IInv, ImageRows, TypeOK
<1>2. file[f].visit = None /\ file[f].state # "ABSENT" /\ req[f[1]].op = "submit" /\ req[f[1]].inv = i
  BY <1>1 DEF ImageRow, Guests
<1>3. ASSUME NEW q \in Requests, HandedOver(q, f) PROVE FALSE
  <2>1. req[q].inv = i /\ CheckInCommit(q)
    BY <1>2, <1>3, HandOvers DEF HandedOver
  <2>2. invitation'[i].status = "USED"
    BY <1>1, <2>1 DEF CheckInCommit, TypeOK, InvitationRow
  <2> QED BY <2>2
<1>4. ASSUME NEW p \in Purgers, Marked(p, f) PROVE FALSE
  <2>1. f \in todo[p]
    BY <1>1, <1>4 DEF Marked, PurgeMark, PurgeOK
  <2>2. CASE p = Job
    <3>1. file[f].purgeAfter < now
      BY <2>1, <2>2 DEF RunOK
    <3>2. file[f].purgeAfter >= ValidUntil(i) /\ ValidUntil(i) \in Int /\ file[f].purgeAfter \in Int
      BY <1>2, KeptUntilOver
    <3> QED BY <1>1, <3>1, <3>2
  <2>3. CASE p \in Requests
    <3>1. req[p].pc = "purge" /\ req[p].op \in {"submit", "cancel", "erase"}
      BY <1>1, <2>1, <2>3 DEF RequestsOK
    <3>2. CASE req[p].op = "submit"
      <4>1. f[1] # p /\ req[p].inv = i /\ Sent(p)
        BY <1>2, <2>1, <2>3, <3>2 DEF ListedOK, Guests
      <4>2. SubmittedFor(p, i)
        BY <3>2, <4>1 DEF SubmittedFor, Sent
      <4> QED BY <2>3, <4>1, <4>2 DEF OnlySubmission
    <3>3. CASE req[p].op = "cancel"
      BY <1>2, <2>1, <2>3, <3>1, <3>3 DEF ListedOK, CancelOK, Guests
    <3>4. CASE req[p].op = "erase"
      BY <1>1, <1>2, <2>1, <2>3, <3>4 DEF ListedOK, RequestsOK
    <3> QED BY <3>1, <3>2, <3>3, <3>4
  <2> QED BY <2>2, <2>3
<1> QED BY <1>2, <1>3, <1>4, OldImages

LEMMA OnlySubmissionBefore ==
  ASSUME IInv, Bearings, [Next]_vars, NEW s, NEW i, OnlySubmission(s, i)'
  PROVE  OnlySubmission(s, i)
<1>1. ASSUME NEW r \in Requests, SubmittedFor(r, i) PROVE r = s
  <2>1. Sent(r) /\ req[r].op = "submit" /\ req[r].inv = i
    BY <1>1 DEF SubmittedFor, Sent
  <2>2. SubmittedFor(r, i)'
    BY <2>1, SentStays DEF SubmittedFor, Sent
  <2> QED BY <2>2 DEF OnlySubmission
<1> QED BY <1>1 DEF OnlySubmission

LEMMA StepReady ==
  IInv /\ Bearings /\ ListedOK /\ CancelOK /\ RunOK /\ DataOK /\ Ready /\ [Next]_vars => Ready'
<1> SUFFICES ASSUME IInv, Bearings, ListedOK, CancelOK, RunOK, DataOK, Ready, [Next]_vars,
                    NEW v \in Visits, NEW s, NEW i, s = req'[v].data, i = req'[v].inv,
                    req'[v].op = "preregistered", req'[v].pc \in {"code", "checkin"},
                    invitation'[i].status = "PENDING", now' < ValidUntil(i)',
                    OnlySubmission(s, i)'
             PROVE /\ file'[<<s, "SIGNATURE">>].state = "STORED"
                   /\ file'[<<s, "SIGNATURE">>].invitation = i
                   /\ req'[v].pc = "checkin" => <<s, "SIGNATURE">> \in req'[v].found
  BY DEF Ready
<1> USE DEF Bearings
<1> DEFINE f == <<s, "SIGNATURE">>
<1>1. /\ TypeOK /\ RequestsOK /\ Known /\ ImageRows /\ Onward /\ RequestChange(v)
      /\ req \in [Requests -> RequestState] /\ req[v] \in RequestState
      /\ TypeOK' /\ DataOK' /\ Known'
  BY StepOnward, StepRequestChange, StepTypeOK, StepDataOK, StepKnown DEF IInv, TypeOK
<1>2. s \in Requests /\ i \in Invitations
  BY <1>1 DEF TypeOK, RequestState, DataOK, Known
<1>3. f \in Files /\ f[1] = s
  BY <1>2 DEF Files, Kinds
<1>5. OnlySubmission(s, i)
  BY OnlySubmissionBefore
<1>6. invitation[i].status # "ABSENT" => invitation[i].status = "PENDING" /\ now < ValidUntil(i)
  <2>1. invitation[i].status # "ABSENT" => invitation[i].status = "PENDING" /\ ValidUntil(i)' = ValidUntil(i)
    BY <1>1, <1>2 DEF Onward, InvitationsGoOn
  <2>2. now <= now' /\ now \in Int /\ now' \in Int
    BY <1>1 DEF Onward
  <2>3. ValidUntil(i)' \in Int
    <3>1. invitation'[i].validFrom \in Int
      BY <1>1, <1>2 DEF TypeOK, InvitationRow
    <3> QED BY <3>1, Lengths DEF ValidUntil
  <2> QED BY <2>1, <2>2, <2>3
<1>7. CASE req'[v] = req[v]
  <2>1. req[v].data = s /\ req[v].inv = i /\ req[v].op = "preregistered" /\ req[v].pc = req'[v].pc
        /\ req[v].found = req'[v].found
    BY <1>7
  <2>2. invitation[i].status = "PENDING" /\ now < ValidUntil(i)
    BY <1>1, <1>6, <2>1 DEF Known
  <2>3. Guests(f, i)
    BY <2>1 DEF DataOK
  <2>4. /\ file[f].state = "STORED" /\ file[f].invitation = i
        /\ req[v].pc = "checkin" => f \in req[v].found
    BY <1>5, <2>1, <2>2 DEF Ready
  <2>5. file'[f] = file[f]
    BY <1>2, <1>3, <1>5, <2>2, <2>3, <2>4, AwaitedImagesWait
  <2> QED BY <2>1, <2>4, <2>5
<1>8. CASE Arrive(v)
  <2> PICK j \in Invitations : PreregisteredLoad(v, j)
    BY <1>1, <1>8, Arrivals
  <2>1. /\ req'[v].inv = j /\ req'[v].pc = "code" /\ file' = file
        /\ \E g \in FilesOfInvitation(j) : g[2] = "SIGNATURE"
    BY <1>1 DEF PreregisteredLoad, RequestState
  <2> PICK g \in FilesOfInvitation(i) : g[2] = "SIGNATURE"
    BY <2>1
  <2>2. g \in Files /\ file[g].state = "STORED" /\ file[g].invitation = i /\ Guests(g, i)
    BY <1>1, <1>2, InvitationImages
  <2>3. g[1] \in Requests /\ g = <<g[1], "SIGNATURE">>
    BY <2>2 DEF Files
  <2>4. SubmittedFor(g[1], i)
    BY <2>2, <2>3 DEF SubmittedFor, Guests
  <2>5. g = f
    BY <1>5, <2>3, <2>4 DEF OnlySubmission
  <2> QED BY <2>1, <2>2, <2>5
<1>9. ASSUME NEW c \in ExitCodes, CheckInBegin(v, c)
      PROVE /\ file'[f].state = "STORED" /\ file'[f].invitation = i
            /\ req'[v].pc = "checkin" => f \in req'[v].found
  <2>1. /\ req[v].data = s /\ req[v].inv = i /\ req[v].op = "preregistered" /\ req[v].pc = "code"
        /\ file' = file
        /\ req'[v].found = IF req[v].op = "preregistered" THEN FilesOfInvitation(req[v].inv) ELSE {}
    BY <1>1, <1>9 DEF CheckInBegin, RequestState
  <2>2. invitation[i].status = "PENDING" /\ now < ValidUntil(i)
    BY <1>1, <1>6, <2>1 DEF Known
  <2>3. file[f].state = "STORED" /\ file[f].invitation = i
    BY <1>5, <2>1, <2>2 DEF Ready
  <2> QED BY <1>3, <2>1, <2>3 DEF FilesOfInvitation
<1>10. ASSUME CancelUpdate(v) \/ CancelFind(v) \/ SubmitCommit(v) \/ Ends(v) PROVE FALSE
  BY <1>1, <1>10 DEF CancelUpdate, CancelFind, SubmitCommit, PurgeThen, Ends, RequestState
<1>11. ~LastPurge(v)
  BY <1>1, LastPurges
<1> QED BY <1>1, <1>7, <1>8, <1>9, <1>10, <1>11 DEF RequestChange

-----------------------------------------------------------------------------
(* Images follow their owner *)

LEMMA StepSignatures ==
  /\ IInv /\ Bearings /\ ListedOK /\ RunOK /\ DataOK /\ Ready
  /\ SignatureSurvivesCheckIn /\ [Next]_vars
  => SignatureSurvivesCheckIn'
<1> SUFFICES ASSUME IInv, Bearings, ListedOK, RunOK, DataOK, Ready, SignatureSurvivesCheckIn,
                    [Next]_vars, NEW v \in Visits, NEW s, s = visit'[v].data, s # None,
                    visit'[v].status # "ABSENT", req'[v].op = "preregistered",
                    OnlySubmission(s, req[v].inv)'
             PROVE LET signature == file'[<<s, "SIGNATURE">>]
                   IN /\ signature.visit = v
                      /\ \/ signature.state = "STORED"
                         \/ signature.purgeAfter < now'
                         \/ \E r \in Requests : req'[r].op = "erase" /\ req'[r].visit = v
  BY DEF SignatureSurvivesCheckIn, OnlySubmission
<1> USE DEF Bearings
<1> DEFINE f == <<s, "SIGNATURE">>
           i == req[v].inv
<1>1. /\ TypeOK /\ TypeOK' /\ RequestsOK /\ Known /\ ImageRows /\ FoundOK /\ PurgeOK /\ Onward
      /\ v # None /\ todo \in [Purgers -> SUBSET Files] /\ visit \in [Visits -> VisitRow]
      /\ req \in [Requests -> RequestState] /\ file \in [Files -> FileRow]
      /\ now \in Int /\ now' \in Int /\ now <= now'
  BY StepOnward, StepTypeOK, NothingIsNoOne DEF IInv, TypeOK, Onward
<1>2. s \in Requests
  BY <1>1 DEF TypeOK, VisitRow
<1>3. f \in Files /\ f[1] = s
  BY <1>2 DEF Files, Kinds
<1>4. CASE visit[v].status # "ABSENT"
  <2>1. visit[v].data = s /\ req[v].pc = "done" /\ req[v].data = s
    BY <1>1, <1>4 DEF Onward, VisitsGoOn, RequestsOK, DataOK
  <2>2. req[v].op = "preregistered" /\ req'[v].inv = i
    BY <1>1, <2>1 DEF Onward, RequestsGoOn
  <2>3. OnlySubmission(s, i)
    BY <2>2, OnlySubmissionBefore
  <2>4. /\ file[f].visit = v
        /\ \/ file[f].state = "STORED"
           \/ file[f].purgeAfter < now
           \/ \E r \in Requests : req[r].op = "erase" /\ req[r].visit = v
    BY <1>4, <2>1, <2>2, <2>3 DEF SignatureSurvivesCheckIn, OnlySubmission
  <2>5. file'[f].visit = v
    BY SMTT(30), <1>1, <1>3, <2>4, StepImagesStay DEF ImagesStayStep
  <2>6. file[f].state # "ABSENT" /\ ~\E q \in Requests : HandedOver(q, f)
    BY <1>1, <1>3, <2>4, HandOvers DEF ImageRows, ImageRow
  <2>7. file'[f].purgeAfter = file[f].purgeAfter /\ file[f].purgeAfter \in Int
    BY <1>1, <1>3, <2>6, OldImages, MarkedRow DEF FileRow
  <2>8. ASSUME NEW r \in Requests, req[r].op = "erase", req[r].visit = v
        PROVE req'[r].op = "erase" /\ req'[r].visit = v
    BY <1>1, <2>8, NothingIsNoOne DEF Onward, RequestsGoOn, Known, AllOperations
  <2>9. ASSUME NEW p \in Purgers, Marked(p, f)
        PROVE \/ file[f].purgeAfter < now
              \/ \E r \in Requests : req[r].op = "erase" /\ req[r].visit = v
    <3>1. f \in todo[p]
      BY <1>1, <2>9 DEF Marked, PurgeMark, PurgeOK
    <3>2. CASE p = Job
      BY <3>1, <3>2 DEF RunOK
    <3>3. CASE p \in Requests
      <4>1. req[p].op \in {"submit", "cancel", "erase"}
        BY <1>1, <3>1, <3>3 DEF RequestsOK
      <4>2. CASE req[p].op = "submit"
        <5>1. Guests(f, i)
          BY <2>1, <2>2 DEF DataOK
        <5>2. p # s /\ req[p].inv = i /\ Sent(p)
          BY <1>3, <3>1, <3>3, <4>2, <5>1 DEF ListedOK, Guests
        <5>3. SubmittedFor(p, i)
          BY <4>2, <5>2 DEF SubmittedFor, Sent
        <5> QED BY <2>3, <3>3, <5>2, <5>3 DEF OnlySubmission
      <4>3. CASE req[p].op = "cancel"
        BY <1>1, <1>3, <2>4, <3>1, <3>3, <4>3 DEF ListedOK
      <4>4. CASE req[p].op = "erase"
        BY <1>3, <2>4, <3>1, <3>3, <4>4 DEF ListedOK
      <4> QED BY <4>1, <4>2, <4>3, <4>4
    <3> QED BY <3>2, <3>3
  <2>10. file'[f].state = "STORED" \/ file[f].purgeAfter < now
         \/ \E r \in Requests : req[r].op = "erase" /\ req[r].visit = v
    BY <1>3, <2>4, <2>6, <2>9, OldImages
  <2>11. file[f].purgeAfter < now => file'[f].purgeAfter < now'
    BY <1>1, <2>7
  <2> QED BY <2>5, <2>8, <2>10, <2>11
<1>5. CASE visit[v].status = "ABSENT"
  <2>1. CheckInCommit(v)
    BY <1>5, NewVisits
  <2>2. /\ req[v].pc = "checkin" /\ req[v].data = s /\ req'[v].inv = i
        /\ req[v].op = "preregistered" /\ Consumable(v)
        /\ file'[f] = CASE f \in ImagesOf(v) -> StoredRow(None, v, AddDays(req[v].since, KeepDays(f[2])))
                        [] f \in req[v].found -> TakenOver(v, f)
                        [] OTHER -> file[f]
    BY <1>1, <1>3, <2>1 DEF CheckInCommit, RequestState
  <2>3. i \in Invitations /\ invitation[i].status = "PENDING" /\ now < ValidUntil(i)
    BY <1>1, <2>2, NothingIsNoOne DEF Consumable, UsableAt, Known, RequestState
  <2>4. OnlySubmission(s, i)
    BY <2>2, OnlySubmissionBefore
  <2>5. file[f].state = "STORED" /\ f \in req[v].found
    BY <2>2, <2>3, <2>4 DEF Ready
  <2>6. f \notin ImagesOf(v)
    BY <2>2, <2>5, OwnImages DEF FoundOK
  <2>7. file'[f] = TakenOver(v, f) /\ file[f] \in FileRow
    BY <1>1, <1>3, <2>2, <2>5, <2>6
  <2> QED BY <2>5, <2>7 DEF TakenOver, FileRow
<1> QED BY <1>4, <1>5

LEMMA OnlyCancelCancels ==
  ASSUME IInv, [Next]_vars, NEW i \in Invitations,
         invitation[i].status # "CANCELLED", invitation'[i].status = "CANCELLED"
  PROVE  \E r \in Requests : CancelUpdate(r) /\ req[r].inv = i
<1> DEFINE Cause == \E r \in Requests : CancelUpdate(r) /\ req[r].inv = i
<1>0. TypeOK /\ invitation \in [Invitations -> InvitationRow]
  BY DEF IInv, TypeOK
<1>1. ASSUME NEW r \in Requests, CancelUpdate(r) PROVE Cause
  <2>1. req[r].inv = i
    BY <1>0, <1>1 DEF CancelUpdate, InvitationRow
  <2> QED BY <1>1, <2>1
<1> HIDE DEF Cause
<1>2. ASSUME NEW r \in Requests, SubmitCommit(r) PROVE FALSE
  BY <1>0, <1>2 DEF SubmitCommit, InvitationRow
<1>3. ASSUME NEW r \in Requests, CheckInCommit(r) PROVE FALSE
  BY <1>0, <1>3 DEF CheckInCommit, InvitationRow
<1>4. ASSUME NEW r \in Requests, CheckOutCommit(r) \/ EraseForget(r) PROVE FALSE
  BY <1>4 DEF CheckOutCommit, EraseForget
<1>5. ASSUME NEW v \in Visits, ManualCheckout(v) PROVE FALSE
  BY <1>5 DEF ManualCheckout
<1>6. ASSUME NEW j \in Invitations, NEW d \in 0..(MaxTime \div DayLength),
             CreateInvitation(j, d * DayLength) PROVE FALSE
  BY <1>0, <1>6 DEF CreateInvitation, InvitationRow
<1>7. ASSUME JobForget \/ JobClose \/ JobDeleteInvitations PROVE FALSE
  BY <1>0, <1>7 DEF JobForget, JobClose, JobDeleteInvitations, InvitationRow
<1>8. Cause
  BY Writers, <1>1, <1>2, <1>3, <1>4, <1>5, <1>6, <1>7 DEF Writes
<1> QED BY <1>8 DEF Cause

LEMMA StepCancelled ==
  IInv /\ Bearings /\ CancelOK /\ CancelledKeepsNoImages /\ [Next]_vars => CancelledKeepsNoImages'
<1> SUFFICES ASSUME IInv, Bearings, CancelOK, CancelledKeepsNoImages, [Next]_vars,
                    NEW i \in Invitations, invitation'[i].status = "CANCELLED",
                    NEW f \in Files, file'[f].state = "STORED", file'[f].invitation = i
             PROVE \E r \in Requests : /\ req'[r].op = "cancel" /\ req'[r].inv = i
                                       /\ req'[r].pc \in {"cancelFiles", "purge", "dead"}
  BY DEF CancelledKeepsNoImages, FilesOfInvitation
<1> USE DEF Bearings
<1>1. TypeOK /\ RequestsOK /\ Onward /\ req \in [Requests -> RequestState]
  BY StepOnward DEF IInv, TypeOK
<1>2. CASE invitation[i].status = "CANCELLED"
  <2>1. f \in FilesOfInvitation(i)
    BY <1>2, NoNewImages DEF FilesOfInvitation
  <2> PICK r \in Requests : /\ req[r].op = "cancel" /\ req[r].inv = i
                            /\ req[r].pc \in {"cancelFiles", "purge", "dead"}
    BY <1>2, <2>1 DEF CancelledKeepsNoImages
  <2>2. req'[r].op = "cancel" /\ req'[r].inv = i
    BY <1>1 DEF Onward, RequestsGoOn
  <2>3. RequestChange(r) /\ req[r] \in RequestState
    BY <1>1, StepRequestChange
  <2>4. ASSUME CancelFind(r) PROVE req'[r].pc = "purge"
    BY <1>1, <2>1, <2>4 DEF CancelFind, PurgeThen, RequestState
  <2>5. ASSUME LastPurge(r) PROVE FALSE
    <3> PICK g \in Files : PurgeMark(r, g) /\ todo[r] = {g}
      BY <2>5 DEF LastPurge
    <3>1. req[r].pc = "purge"
      BY <1>1, <2>5, LastPurges
    <3>2. f = g
      BY <2>1, <3>1 DEF CancelOK
    <3>3. file'[g].state = "PURGED"
      BY <1>1 DEF PurgeMark, TypeOK, FileRow
    <3> QED BY <3>2, <3>3
  <2>6. ASSUME NEW c \in ExitCodes, CheckInBegin(r, c) PROVE FALSE
    BY <2>6 DEF CheckInBegin
  <2>7. ~Arrive(r) /\ ~CancelUpdate(r) /\ ~SubmitCommit(r)
    BY <1>1, Arrivals DEF CancelUpdate, SubmitCommit
  <2>8. req'[r].pc \in {"cancelFiles", "purge", "dead"}
    BY <2>3, <2>4, <2>5, <2>6, <2>7 DEF RequestChange, Ends
  <2> QED BY <2>2, <2>8
<1>3. CASE invitation[i].status # "CANCELLED"
  <2> PICK r \in Requests : CancelUpdate(r) /\ req[r].inv = i
    BY <1>3, OnlyCancelCancels
  <2>1. req'[r].op = "cancel" /\ req'[r].inv = i /\ req'[r].pc = "cancelFiles"
    BY <1>1 DEF CancelUpdate, RequestsOK, RequestState
  <2> QED BY <2>1
<1> QED BY <1>2, <1>3

LEMMA StepImagesFollowOwner ==
  /\ IInv /\ Bearings /\ ListedOK /\ CancelOK /\ RunOK /\ DataOK /\ Ready
  /\ ImagesFollowOwner /\ [Next]_vars
  => ImagesFollowOwner'
  BY StepCancelled, StepSignatures DEF ImagesFollowOwner

-----------------------------------------------------------------------------
(* Images are accounted for *)

LEMMA StepRowMatchesBlob == IInv /\ Bearings /\ RowMatchesBlob /\ [Next]_vars => RowMatchesBlob'
<1> SUFFICES ASSUME IInv, Bearings, RowMatchesBlob, [Next]_vars, NEW f \in Files
             PROVE /\ file'[f].state = "PURGED" => f \notin blobs'
                   /\ file'[f].state = "STORED" /\ f \notin blobs' =>
                        crashes' > 0 \/ \E p \in Purgers : f \in cut'[p]
  BY DEF RowMatchesBlob
<1> USE DEF Bearings
<1>1. /\ TypeOK /\ PurgeOK /\ ImageChange(f) /\ cut \in [Purgers -> SUBSET Files]
      /\ crashes \in Nat /\ crashes' \in Nat /\ crashes <= crashes' /\ file[f] \in FileRow
  BY StepOnward, StepTypeOK DEF IInv, TypeOK, Onward
<1>2. ASSUME file[f].state = "ABSENT"
      PROVE file'[f] = file[f] \/ (file'[f].state = "STORED" /\ f \in blobs')
  <2>1. ASSUME Submitted(f) PROVE file'[f].state = "STORED" /\ f \in blobs'
    BY <2>1 DEF Submitted, OwnImage, SubmitCommit, StoredRow
  <2>2. ASSUME TakenAtCheckIn(f) PROVE file'[f].state = "STORED" /\ f \in blobs'
    BY <2>2 DEF TakenAtCheckIn, OwnImage, CheckInCommit, StoredRow
  <2>3. ASSUME TakenAtCheckOut(f) PROVE file'[f].state = "STORED" /\ f \in blobs'
    BY <2>3 DEF TakenAtCheckOut, OwnImage, CheckOutCommit, StoredRow
  <2>4. ~\E q \in Requests : HandedOver(q, f)
    BY <1>2 DEF HandedOver
  <2>5. ~\E p \in Purgers : Marked(p, f)
    BY <1>1, <1>2 DEF Marked, PurgeMark, PurgeOK
  <2> QED BY <1>1, <2>1, <2>2, <2>3, <2>4, <2>5 DEF ImageChange
<1>3. ASSUME file[f].state # "ABSENT"
      PROVE file'[f].state = file[f].state \/ \E p \in Purgers : Marked(p, f)
  BY <1>3, OldImages, HandOvers
<1>4. ASSUME NEW p \in Purgers, Marked(p, f)
      PROVE file[f].state # "ABSENT" /\ file'[f].state = "PURGED" /\ f \notin blobs
  BY <1>1, <1>4, MarkedRow DEF Marked, PurgeMark, PurgeOK
<1>5. ASSUME file'[f].state = "PURGED" PROVE f \notin blobs'
  <2>1. file[f].state # "ABSENT" /\ f \notin blobs
    BY <1>2, <1>3, <1>4, <1>5 DEF RowMatchesBlob
  <2> QED BY <2>1, StepBlobs
<1>6. ASSUME file'[f].state = "STORED", f \notin blobs'
      PROVE crashes' > 0 \/ \E p \in Purgers : f \in cut'[p]
  <2>1. file[f].state = "STORED"
    BY <1>2, <1>3, <1>4, <1>6
  <2>2. CASE f \in blobs
    <3> PICK p \in Purgers : PurgeBlob(p, f)
      BY <1>6, <2>2, StepBlobs
    <3>1. f \in cut'[p]
      BY <1>1 DEF PurgeBlob
    <3> QED BY <3>1
  <2>3. CASE f \notin blobs
    <3>1. CASE crashes > 0
      BY <1>1, <3>1
    <3>2. CASE \E p \in Purgers : f \in cut[p]
      <4> PICK p \in Purgers : f \in cut[p]
        BY <3>2
      <4>1. TodoChange(p)
        BY StepTodoChange
      <4>2. ASSUME NEW g \in Files, PurgeMark(p, g) PROVE FALSE
        <5>1. g = f
          BY <1>1, <4>2 DEF PurgeMark, PurgeOK
        <5>2. file'[g].state = "PURGED"
          BY <1>1, <4>2 DEF PurgeMark, TypeOK, FileRow
        <5> QED BY <1>6, <5>1, <5>2
      <4>3. ASSUME Drops(p) PROVE crashes' > 0
        BY <1>1, <4>3 DEF Drops, RequestFails, JobFails
      <4>4. ASSUME NEW g \in Files, PurgeBlob(p, g) PROVE FALSE
        BY <4>4 DEF PurgeBlob
      <4> QED BY <4>1, <4>2, <4>3, <4>4 DEF TodoChange
    <3> QED BY <2>1, <2>3, <3>1, <3>2 DEF RowMatchesBlob
  <2> QED BY <2>2, <2>3
<1> QED BY <1>5, <1>6

LEMMA OnlyTheRunDeletes ==
  ASSUME IInv, [Next]_vars, NEW i \in Invitations,
         invitation[i].status # "DELETED", invitation'[i].status = "DELETED"
  PROVE  JobDeleteInvitations
<1>0. TypeOK /\ invitation \in [Invitations -> InvitationRow]
  BY DEF IInv, TypeOK
<1>1. ASSUME NEW r \in Requests, CancelUpdate(r) PROVE FALSE
  BY <1>0, <1>1 DEF CancelUpdate, InvitationRow
<1>2. ASSUME NEW r \in Requests, SubmitCommit(r) PROVE FALSE
  BY <1>0, <1>2 DEF SubmitCommit, InvitationRow
<1>3. ASSUME NEW r \in Requests, CheckInCommit(r) PROVE FALSE
  BY <1>0, <1>3 DEF CheckInCommit, InvitationRow
<1>4. ASSUME NEW r \in Requests, CheckOutCommit(r) \/ EraseForget(r) PROVE FALSE
  BY <1>4 DEF CheckOutCommit, EraseForget
<1>5. ASSUME NEW v \in Visits, ManualCheckout(v) PROVE FALSE
  BY <1>5 DEF ManualCheckout
<1>6. ASSUME NEW j \in Invitations, NEW d \in 0..(MaxTime \div DayLength),
             CreateInvitation(j, d * DayLength) PROVE FALSE
  BY <1>0, <1>6 DEF CreateInvitation, InvitationRow
<1>7. ASSUME JobForget \/ JobClose PROVE FALSE
  BY <1>7 DEF JobForget, JobClose
<1> QED BY Writers, <1>1, <1>2, <1>3, <1>4, <1>5, <1>6, <1>7 DEF Writes

LEMMA StepNoOrphan == IInv /\ Bearings /\ RunOK /\ NoImageWithoutInvitation /\ [Next]_vars
                      => NoImageWithoutInvitation'
<1> SUFFICES ASSUME IInv, Bearings, RunOK, NoImageWithoutInvitation, [Next]_vars,
                    NEW f \in Files, NEW i, i = file'[f].invitation, i # None,
                    file'[f].state = "STORED", invitation'[i].status = "DELETED"
             PROVE FALSE
  BY DEF NoImageWithoutInvitation
<1> USE DEF Bearings
<1>1. /\ TypeOK /\ TypeOK' /\ ImageRow(f) /\ file[f] \in FileRow /\ job \in JobState
      /\ invitation \in [Invitations -> InvitationRow]
  BY StepTypeOK DEF IInv, TypeOK, ImageRows
<1>2. i \in Invitations
  BY <1>1 DEF TypeOK, FileRow
<1>3. CASE invitation[i].status = "PENDING"
  <2>1. JobDeleteInvitations
    BY <1>2, <1>3, OnlyTheRunDeletes
  <2>2. /\ job.pc = "invitations" /\ file' = file
        /\ ValidUntil(i) < AddDays(job.now, -InvitationKeepDays)
    BY <1>2, <1>3, <2>1 DEF JobDeleteInvitations
  <2>3. file[f].purgeAfter = AddDays(ValidUntil(i), InvitationKeepDays)
    BY <1>1, <2>2 DEF ImageRow
  <2>4. ValidUntil(i) \in Int /\ job.now \in Int
    BY <1>1, <1>2, Lengths DEF InvitationRow, JobState, ValidUntil
  <2>5. Due(f)
    BY <2>2, <2>3, <2>4, DateFacts DEF Due
  <2> QED BY <2>2, <2>5 DEF RunOK, Due
<1>4. CASE invitation[i].status # "PENDING"
  <2>1. file'[f] = file[f]
    BY <1>2, <1>4, NoNewImages
  <2>2. JobDeleteInvitations
    BY <1>2, <2>1, OnlyTheRunDeletes DEF NoImageWithoutInvitation
  <2>3. /\ job.pc = "invitations"
        /\ ValidUntil(i) < AddDays(job.now, -InvitationKeepDays)
    BY <1>2, <2>1, <2>2 DEF JobDeleteInvitations, NoImageWithoutInvitation
  <2>4. file[f].purgeAfter = AddDays(ValidUntil(i), InvitationKeepDays)
    BY <1>1, <2>1 DEF ImageRow
  <2>5. ValidUntil(i) \in Int /\ job.now \in Int
    BY <1>1, <1>2, Lengths DEF InvitationRow, JobState, ValidUntil
  <2>6. Due(f)
    BY <2>1, <2>3, <2>4, <2>5, DateFacts DEF Due
  <2> QED BY <2>3, <2>6 DEF RunOK, Due
<1> QED BY <1>3, <1>4

LEMMA OnlyErasureErases ==
  ASSUME IInv, [Next]_vars, NEW v \in Visits,
         visit[v].status # "ERASED", visit'[v].status = "ERASED"
  PROVE  \E r \in Requests : EraseForget(r) /\ req[r].visit = v
<1> DEFINE Cause == \E r \in Requests : EraseForget(r) /\ req[r].visit = v
<1>0. TypeOK /\ visit \in [Visits -> VisitRow]
  BY DEF IInv, TypeOK
<1>1. ASSUME NEW r \in Requests, EraseForget(r) PROVE Cause
  <2>1. req[r].visit = v
    BY <1>0, <1>1 DEF EraseForget, VisitRow
  <2> QED BY <1>1, <2>1
<1> HIDE DEF Cause
<1>2. ASSUME NEW r \in Requests, CheckInCommit(r) PROVE FALSE
  BY <1>0, <1>2 DEF CheckInCommit
<1>3. ASSUME NEW r \in Requests, CheckOutCommit(r) PROVE FALSE
  BY <1>0, <1>3 DEF CheckOutCommit, VisitRow
<1>4. ASSUME NEW w \in Visits, ManualCheckout(w) PROVE FALSE
  BY <1>0, <1>4 DEF ManualCheckout, VisitRow
<1>5. ASSUME JobForget PROVE FALSE
  BY <1>0, <1>5 DEF JobForget, VisitRow
<1>6. ASSUME JobClose PROVE FALSE
  BY <1>0, <1>6 DEF JobClose, VisitRow
<1>7. ASSUME NEW r \in Requests, SubmitCommit(r) \/ CancelUpdate(r) PROVE FALSE
  BY <1>7 DEF SubmitCommit, CancelUpdate
<1>8. ASSUME NEW i \in Invitations, NEW d \in 0..(MaxTime \div DayLength),
             CreateInvitation(i, d * DayLength) PROVE FALSE
  BY <1>8 DEF CreateInvitation
<1>9. ~JobDeleteInvitations
  BY DEF JobDeleteInvitations
<1>10. Cause
  BY Writers, <1>1, <1>2, <1>3, <1>4, <1>5, <1>6, <1>7, <1>8, <1>9 DEF Writes
<1> QED BY <1>10 DEF Cause

LEMMA StepErased == IInv /\ Bearings /\ EraseOK /\ ErasedKeepsNoImageOfPerson /\ [Next]_vars
                    => ErasedKeepsNoImageOfPerson'
<1> SUFFICES ASSUME IInv, Bearings, EraseOK, ErasedKeepsNoImageOfPerson, [Next]_vars,
                    NEW v \in Visits, visit'[v].status = "ERASED",
                    NEW f \in Files, file'[f].state = "STORED", file'[f].visit = v,
                    f[2] # "ASSET_OUT"
             PROVE FALSE
  BY DEF ErasedKeepsNoImageOfPerson, FilesOfVisit
<1> USE DEF Bearings
<1>1. /\ TypeOK /\ RequestsOK /\ ImageChange(f) /\ v # None /\ visit \in [Visits -> VisitRow]
  BY StepOnward, NothingIsNoOne DEF IInv, TypeOK, Onward
<1>2. ~CheckInCommit(v)
  BY <1>1 DEF CheckInCommit
<1>3. ~Submitted(f)
  BY <1>1 DEF Submitted, StoredRow
<1>4. ~TakenAtCheckIn(f) /\ ~TakenAtCheckOut(f)
  BY <1>2 DEF TakenAtCheckIn, TakenAtCheckOut, StoredRow
<1>5. ~\E q \in Requests : HandedOver(q, f)
  BY <1>2, HandOvers DEF HandedOver
<1>6. ~\E p \in Purgers : Marked(p, f)
  BY <1>1, MarkedRow
<1>7. f \in FilesOfVisit(v) /\ file[f].state = "STORED" /\ file[f].visit = v
  BY <1>1, <1>3, <1>4, <1>5, <1>6 DEF ImageChange, FilesOfVisit
<1>8. visit[v].status # "ERASED"
  BY <1>7 DEF ErasedKeepsNoImageOfPerson
<1> PICK r \in Requests : EraseForget(r) /\ req[r].visit = v
  BY <1>8, OnlyErasureErases
<1>9. req[r].pc = "forget" /\ req[r].op = "erase"
  BY <1>1 DEF EraseForget, RequestsOK
<1> QED BY <1>7, <1>9 DEF EraseOK

LEMMA StepImagesAccountedFor ==
  IInv /\ Bearings /\ EraseOK /\ RunOK /\ ImagesAccountedFor /\ [Next]_vars => ImagesAccountedFor'
  BY StepRowMatchesBlob, StepNoOrphan, StepErased DEF ImagesAccountedFor

-----------------------------------------------------------------------------
(* Theorems *)

LEMMA InitImageInv == Init => ImageInv
<1> SUFFICES ASSUME Init PROVE ImageInv
  OBVIOUS
<1>1. /\ \A r \in Requests : req[r].op = None /\ req[r].pc = "idle"
      /\ \A f \in Files : /\ file[f].state = "ABSENT" /\ file[f].visit = None
                          /\ file[f].invitation = None
      /\ \A v \in Visits : visit[v].status = "ABSENT"
      /\ \A i \in Invitations : invitation[i].status = "ABSENT" /\ invitation[i].pre = None
      /\ \A p \in Purgers : todo[p] = {} /\ cut[p] = {}
      /\ job.pc = "idle" /\ job.visits = {} /\ job.now = now /\ now = 0
  BY DEF Init
<1>2. None \notin AllOperations
  BY NothingIsNoOne
<1>3. ImageRows
  BY <1>1 DEF ImageRows, ImageRow
<1>4. Known
  BY <1>1, <1>2 DEF Known, AllOperations
<1>5. Timely
  BY <1>1 DEF Timely, InFlight
<1>6. FoundOK /\ PurgeOK /\ ListedOK
  BY <1>1 DEF FoundOK, PurgeOK, ListedOK
<1>7. CancelOK /\ EraseOK
  BY <1>1 DEF CancelOK, EraseOK
<1>8. RunOK
  BY <1>1 DEF RunOK
<1>9. DataOK /\ Ready
  BY <1>1, <1>2 DEF DataOK, Ready, AllOperations
<1>10. ImagesFollowOwner
  BY <1>1 DEF ImagesFollowOwner, CancelledKeepsNoImages, SignatureSurvivesCheckIn
<1>11. ImagesAccountedFor
  BY <1>1 DEF ImagesAccountedFor, RowMatchesBlob, NoImageWithoutInvitation,
              ErasedKeepsNoImageOfPerson
<1> QED BY InitIInv, <1>3, <1>4, <1>5, <1>6, <1>7, <1>8, <1>9, <1>10, <1>11 DEF ImageInv, Bearings

LEMMA StepIInv == IInv /\ [Next]_vars => IInv'
  BY StepTypeOK, StepRequestsOK, StepJobOK, StepOneVisit DEF IInv

LEMMA StepImageInv == ImageInv /\ [Next]_vars => ImageInv'
<1> SUFFICES ASSUME ImageInv, [Next]_vars PROVE ImageInv'
  OBVIOUS
<1>1. /\ IInv /\ Bearings /\ ListedOK /\ CancelOK /\ EraseOK /\ RunOK /\ DataOK /\ Ready
      /\ ImagesFollowOwner /\ ImagesAccountedFor
  BY DEF ImageInv
<1>2. IInv' /\ Bearings'
  BY <1>1, StepIInv, StepBearings
<1>3. ListedOK' /\ CancelOK' /\ EraseOK'
  BY <1>1, StepListedOK, StepCancelOK, StepEraseOK
<1>4. RunOK' /\ DataOK' /\ Ready'
  BY <1>1, StepRunOK, StepDataOK, StepReady
<1>5. ImagesFollowOwner' /\ ImagesAccountedFor'
  BY <1>1, StepImagesFollowOwner, StepImagesAccountedFor
<1> QED BY <1>2, <1>3, <1>4, <1>5 DEF ImageInv

LEMMA ImagesInductive == Spec => []ImageInv
  BY InitImageInv, StepImageInv, PTL DEF Spec

(* An image that belongs to a visit stays with this visit, and a purged one never returns,
   whichever requests and retention runs deal with the same row (files.service). *)
THEOREM ImagesKeepTheirVisit == Spec => ImagesStay
<1>1. ImageInv /\ [Next]_vars => [ImagesStayStep]_vars
  BY StepImagesStay DEF ImageInv
<1> QED BY ImagesInductive, <1>1, PTL DEF Spec, ImagesStay

(* The images of a guest go to the visit that was let in or away with the invitation that was
   withdrawn: check-in, cancel, submission and purge in any order (kiosk.service persist,
   invitations.service cancel, guest.controller submit). *)
THEOREM ImagesGoWithOwner == Spec => []ImagesFollowOwner
<1>1. ImageInv => ImagesFollowOwner
  BY DEF ImageInv
<1> QED BY ImagesInductive, <1>1, PTL

(* No image is forgotten by the storage, by the deletion of its invitation or by an erasure,
   however often purges die half-way (files.service purge, retention.service run, anonymize). *)
THEOREM NoImageForgotten == Spec => []ImagesAccountedFor
<1>1. ImageInv => ImagesAccountedFor
  BY DEF ImageInv
<1> QED BY ImagesInductive, <1>1, PTL
=============================================================================
