-------------------------- MODULE ReceptionProofs --------------------------
(***************************************************************************)
(* Theorems about the front desk, for any number of requests, invitations, *)
(* codes and ticks: types, the one use of an invitation, the life of a     *)
(* visit, and the implementation of module Admission.                      *)
(***************************************************************************)
EXTENDS Reception, TLAPS

(* The dates the tables hold are integers. *)
LEMMA DatesAreIntegers ==
  /\ \A t, d \in Int : AddDays(t, d) \in Int
  /\ \A kind \in Kinds : KeepDays(kind) \in Int
<1>1. DayLength \in Int /\ VisitRetentionDays \in Int
      /\ DocumentPhotoRetentionDays \in Int /\ AssetPhotoRetentionDays \in Int
  BY ReceptionAssumption
<1>2. \A t, d \in Int : AddDays(t, d) \in Int
  BY <1>1 DEF AddDays
<1>3. \A kind \in Kinds : KeepDays(kind) \in Int
  BY <1>1 DEF KeepDays, SmallerOf, Kinds
<1> QED BY <1>2, <1>3

LEMMA NothingIsNoOne ==
  /\ None \notin Requests /\ None \notin Invitations /\ None \notin ExitCodes
  /\ None \notin AllOperations /\ Job \notin Requests
  BY ReceptionAssumption

(* A request writes images under its own name, of known kinds. *)
LEMMA ImagesAreFiles == ASSUME NEW r \in Requests PROVE ImagesOf(r) \subseteq Files
  BY DEF ImagesOf, Files, Kinds

LEMMA ListedFiles ==
  /\ \A i \in Invitations : FilesOfInvitation(i) \in SUBSET Files
  /\ \A v \in Visits : FilesOfVisit(v) \in SUBSET Files
  BY DEF FilesOfInvitation, FilesOfVisit

LEMMA FileKinds == \A f \in Files : f[2] \in Kinds
  BY DEF Files

-----------------------------------------------------------------------------
(* What the code knows about a request at each point of its handler: the    *)
(* operands it has loaded, that a check-in has created no visit before its   *)
(* commit, and that only a request that purges has files listed.             *)
RequestsOK ==
  \A r \in Requests :
    /\ req[r].pc = "submit" => req[r].op = "submit" /\ req[r].inv # None
    /\ req[r].pc \in {"cancel", "cancelFiles"} => req[r].op = "cancel" /\ req[r].inv # None
    /\ req[r].pc \in {"code", "checkin"} =>
         req[r].op \in {"form", "preregistered"} /\ req[r].data # None
    /\ req[r].op = "preregistered" => req[r].inv # None
    /\ req[r].pc = "checkin" => req[r].code # None
    /\ req[r].pc = "purge" => req[r].op \in {"submit", "cancel", "erase"}
    /\ req[r].pc = "forget" => req[r].op = "erase"
    /\ req[r].pc = "checkout" => req[r].visit # None
    /\ req[r].op = "erase" => req[r].visit # None /\ visit[req[r].visit].status # "ABSENT"
    /\ visit[r].status # "ABSENT" => req[r].pc = "done"
    /\ todo[r] # {} \/ cut[r] # {} => req[r].pc = "purge"

JobOK ==
  /\ \A v \in job.visits : visit[v].status # "ABSENT"
  /\ job.pc = "images" => job.visit # None /\ visit[job.visit].status # "ABSENT"

IInv == TypeOK /\ RequestsOK /\ JobOK /\ OneVisitPerInvitation

USE DEF Visits, Purgers

(* Moving a request to another point of its handler keeps its type. *)
LEMMA MoveType ==
  TypeOK => \A r \in Requests : \A l \in Labels :
              [req EXCEPT ![r].pc = l] \in [Requests -> RequestState]
  BY DEF TypeOK, RequestState

-----------------------------------------------------------------------------
(* Types *)

LEMMA InitTypeOK == Init => TypeOK
  BY ReceptionAssumption
     DEF Init, TypeOK, InvitationRow, VisitRow, FileRow, RequestState, JobState, AllOperations, Labels

LEMMA StepTypeOK == TypeOK /\ RequestsOK /\ JobOK /\ [Next]_vars => TypeOK'
<1> SUFFICES ASSUME TypeOK, RequestsOK, JobOK, [Next]_vars PROVE TypeOK'
  OBVIOUS
<1> USE DEF TypeOK, InvitationRow
<1>1. ASSUME NEW r \in Requests, NEW i \in Invitations, CancelLoad(r, i) PROVE TypeOK'
  BY <1>1 DEF CancelLoad, CanBegin, RequestState, AllOperations, Labels
<1>2. ASSUME NEW r \in Requests, NEW i \in Invitations, SubmitLoad(r, i) PROVE TypeOK'
  BY <1>2, ListedFiles DEF SubmitLoad, CanBegin, RequestState, AllOperations, Labels
<1>3. ASSUME NEW r \in Requests, NEW i \in Invitations, PreregisteredLoad(r, i) PROVE TypeOK'
  BY <1>3 DEF PreregisteredLoad, CanBegin, RequestState, AllOperations, Labels
<1>4. ASSUME NEW r \in Requests, NEW i \in Invitations \cup {None}, FormLoad(r, i) PROVE TypeOK'
  BY <1>4 DEF FormLoad, CanBegin, RequestState, AllOperations, Labels
<1>5. ASSUME NEW r \in Requests, NEW v \in Visits, CheckOutLoad(r, v) PROVE TypeOK'
  BY <1>5 DEF CheckOutLoad, CanBegin, RequestState, AllOperations, Labels
<1>6. ASSUME NEW r \in Requests, NEW v \in Visits, EraseLoad(r, v) PROVE TypeOK'
  <2>1. req' \in [Requests -> RequestState]
    <3> DEFINE l == PurgeThen(r, FilesOfVisit(v), "forget")
    <3>1. l \in Labels
      BY DEF PurgeThen, Labels
    <3>2. req' = [req EXCEPT ![r].op = "erase", ![r].visit = v, ![r].since = now, ![r].pc = l]
      BY <1>6 DEF EraseLoad
    <3> HIDE DEF l
    <3> DEFINE q == [req[r] EXCEPT !.op = "erase", !.visit = v, !.since = now, !.pc = l]
    <3>3. q \in RequestState
      <4>1. req[r] \in RequestState /\ "erase" \in AllOperations
        BY DEF AllOperations
      <4> QED BY <4>1, <3>1 DEF RequestState
    <3> QED BY <3>2, <3>3
  <2> QED BY <1>6, <2>1, ListedFiles DEF EraseLoad
<1>7. ASSUME NEW r \in Requests, CancelUpdate(r) PROVE TypeOK'
  <2>1. req[r].inv \in Invitations
    BY <1>7 DEF CancelUpdate, RequestsOK, RequestState
  <2>2. req' \in [Requests -> RequestState]
    BY <1>7, MoveType DEF CancelUpdate, Labels
  <2>3. invitation' \in [Invitations -> InvitationRow]
    BY SMTT(30), <1>7, <2>1 DEF CancelUpdate
  <2> QED BY <1>7, <2>2, <2>3 DEF CancelUpdate
<1>8. ASSUME NEW r \in Requests, CancelFind(r) PROVE TypeOK'
  <2>1. req[r].inv \in Invitations
    BY <1>8 DEF CancelFind, RequestsOK, RequestState
  <2>2. req' \in [Requests -> RequestState]
    BY <1>8, MoveType DEF CancelFind, PurgeThen, Labels
  <2> QED BY <1>8, <2>1, <2>2, ListedFiles DEF CancelFind
<1>9. ASSUME NEW r \in Requests, SubmitCommit(r) PROVE TypeOK'
  <2> DEFINE i == req[r].inv
             keep == AddDays(ValidUntil(i), InvitationKeepDays)
  <2>1. i \in Invitations
    BY <1>9 DEF SubmitCommit, RequestsOK, RequestState
  <2>2. keep \in Int
    <3>1. invitation[i].validFrom \in Int
      BY <2>1
    <3>2. DayLength \in Int /\ InvitationKeepDays \in Int
      BY ReceptionAssumption
    <3>3. invitation[i].validFrom + DayLength \in Int
      BY <3>1, <3>2
    <3> QED BY <3>2, <3>3, DatesAreIntegers DEF ValidUntil
  <2>3. file' = [f \in Files |-> IF f \in ImagesOf(r) THEN StoredRow(i, None, keep) ELSE file[f]]
    BY <1>9 DEF SubmitCommit
  <2>4. file' \in [Files -> FileRow]
    <3> HIDE DEF i, keep
    <3> QED BY <2>1, <2>2, <2>3 DEF StoredRow, FileRow
  <2>5. req' \in [Requests -> RequestState]
    BY <1>9, MoveType DEF SubmitCommit, PurgeThen, Labels
  <2>6. invitation' \in [Invitations -> InvitationRow]
    BY <1>9, <2>1 DEF SubmitCommit
  <2>7. todo' \in [Purgers -> SUBSET Files]
    BY <1>9 DEF SubmitCommit, RequestState
  <2> QED BY <1>9, <2>4, <2>5, <2>6, <2>7, ImagesAreFiles DEF SubmitCommit
<1>10. ASSUME NEW r \in Requests, SubmitRefused(r) PROVE TypeOK'
  BY <1>10, MoveType DEF SubmitRefused, Labels
<1>11. ASSUME NEW r \in Requests, NEW c \in ExitCodes, CheckInBegin(r, c) PROVE TypeOK'
  <2> DEFINE F == IF req[r].op = "preregistered" THEN FilesOfInvitation(req[r].inv) ELSE {}
             u == req[r].inv # None /\ invitation[req[r].inv].status = "PENDING"
  <2>1. F \in SUBSET Files /\ u \in BOOLEAN
    BY DEF FilesOfInvitation
  <2>2. req' = [req EXCEPT ![r].pc = "checkin", ![r].code = c, ![r].found = F, ![r].usable = u]
    BY <1>11 DEF CheckInBegin
  <2>3. req' \in [Requests -> RequestState]
    <3> HIDE DEF F, u
    <3> DEFINE q == [req[r] EXCEPT !.pc = "checkin", !.code = c, !.found = F, !.usable = u]
    <3>1. q \in RequestState
      <4>1. req[r] \in RequestState /\ "checkin" \in Labels
        BY DEF Labels
      <4> QED BY <4>1, <2>1 DEF RequestState
    <3>2. req' = [req EXCEPT ![r] = q]
      BY <2>2
    <3> QED BY <3>1, <3>2
  <2> QED BY <1>11, <2>3 DEF CheckInBegin
<1>12. ASSUME NEW r \in Requests, CheckInCommit(r) PROVE TypeOK'
  <2>1. file' \in [Files -> FileRow]
    <3>1. \A f \in Files : AddDays(req[r].since, KeepDays(f[2])) \in Int
      BY DatesAreIntegers, FileKinds DEF RequestState
    <3>2. file' = [f \in Files |->
            CASE f \in ImagesOf(r) -> StoredRow(None, r, AddDays(req[r].since, KeepDays(f[2])))
              [] f \in req[r].found -> TakenOver(r, f)
              [] OTHER -> file[f]]
      BY <1>12 DEF CheckInCommit
    <3>3. ASSUME NEW f \in Files PROVE file'[f] \in FileRow
      BY ZenonT(30), <3>1, <3>2 DEF StoredRow, TakenOver, FileRow
    <3> QED BY <3>2, <3>3
  <2>2. visit' \in [Visits -> VisitRow]
    BY <1>12 DEF CheckInCommit, VisitRow, RequestState
  <2>3. invitation' \in [Invitations -> InvitationRow]
    <3>1. req[r].inv \in Invitations \cup {None}
      BY DEF RequestState
    <3>2. CASE req[r].inv = None
      BY <1>12, <3>2 DEF CheckInCommit
    <3>3. CASE req[r].inv # None
      <4> DEFINE i == req[r].inv
      <4>1. invitation' = [invitation EXCEPT ![i].status = "USED", ![i].visit = r]
        BY <1>12, <3>3 DEF CheckInCommit
      <4> QED BY <4>1, <3>1, <3>3
    <3> QED BY <3>2, <3>3
  <2>4. req' \in [Requests -> RequestState]
    BY <1>12, MoveType DEF CheckInCommit, Labels
  <2> QED BY <1>12, <2>1, <2>2, <2>3, <2>4, ImagesAreFiles DEF CheckInCommit
<1>13. ASSUME NEW r \in Requests, CheckInRollback(r) PROVE TypeOK'
  BY <1>13, ImagesAreFiles, MoveType DEF CheckInRollback, Labels
<1>14. ASSUME NEW r \in Requests, CheckOutCommit(r) PROVE TypeOK'
  <2> DEFINE v == req[r].visit
  <2>1. v \in Visits /\ visit[v] \in VisitRow
    BY <1>14 DEF CheckOutCommit, RequestsOK, RequestState
  <2>2. \A f \in Files : AddDays(visit[v].checkInAt, KeepDays(f[2])) \in Int
    BY <2>1, DatesAreIntegers, FileKinds DEF VisitRow
  <2>3. file' \in [Files -> FileRow]
    BY <1>14, <2>1, <2>2 DEF CheckOutCommit, StoredRow, FileRow
  <2>4. req' \in [Requests -> RequestState]
    BY <1>14, MoveType DEF CheckOutCommit, Labels
  <2>5. visit' \in [Visits -> VisitRow]
    BY <1>14, <2>1 DEF CheckOutCommit, VisitRow
  <2> QED BY <1>14, <2>3, <2>4, <2>5, ImagesAreFiles DEF CheckOutCommit
<1>15. ASSUME NEW r \in Requests, CheckOutRefused(r) PROVE TypeOK'
  BY <1>15, MoveType DEF CheckOutRefused, Labels
<1>16. ASSUME NEW r \in Requests, EraseForget(r) PROVE TypeOK'
  <2>1. req[r].visit \in Visits
    BY <1>16 DEF EraseForget, RequestsOK, RequestState
  <2>2. req' \in [Requests -> RequestState]
    BY <1>16, MoveType DEF EraseForget, Labels
  <2>3. visit' \in [Visits -> VisitRow]
    BY SMTT(30), <1>16, <2>1 DEF EraseForget, VisitRow
  <2> QED BY <1>16, <2>2, <2>3 DEF EraseForget
<1>17. ASSUME NEW p \in Purgers, NEW f \in Files, PurgeBlob(p, f) PROVE TypeOK'
  BY <1>17 DEF PurgeBlob
<1>18. ASSUME NEW p \in Purgers, NEW f \in Files, PurgeMark(p, f) PROVE TypeOK'
  <2>1. req' \in [Requests -> RequestState]
    BY <1>18, MoveType DEF PurgeMark, AfterPurge, Labels
  <2>2. file' \in [Files -> FileRow]
    BY SMTT(30), <1>18 DEF PurgeMark, FileRow
  <2>3. todo' \in [Purgers -> SUBSET Files] /\ cut' \in [Purgers -> SUBSET Files]
    BY <1>18 DEF PurgeMark
  <2> QED BY <1>18, <2>1, <2>2, <2>3 DEF PurgeMark
<1>19. ASSUME NEW r \in Requests, RequestFails(r) PROVE TypeOK'
  <2>1. req' \in [Requests -> RequestState]
    BY <1>19, MoveType DEF RequestFails, Labels
  <2>2. blobs' \in SUBSET Files
    BY <1>19, ImagesAreFiles DEF RequestFails
  <2>3. todo' \in [Purgers -> SUBSET Files] /\ cut' \in [Purgers -> SUBSET Files]
    BY <1>19 DEF RequestFails
  <2> QED BY <1>19, <2>1, <2>2, <2>3 DEF RequestFails
<1>20. ASSUME NEW i \in Invitations, NEW d \in 0..(MaxTime \div DayLength),
              CreateInvitation(i, d * DayLength) PROVE TypeOK'
  <2>1. d * DayLength \in Int
    BY ReceptionAssumption
  <2> PICK day \in Int : CreateInvitation(i, day)
    BY <1>20, <2>1
  <2> DEFINE row == [invitation[i] EXCEPT !.status = "PENDING", !.validFrom = day]
  <2>2. row \in InvitationRow /\ invitation' = [invitation EXCEPT ![i] = row]
    BY DEF CreateInvitation
  <2>3. invitation' \in [Invitations -> InvitationRow]
    <3> HIDE DEF row, InvitationRow
    <3> QED BY <2>2
  <2> QED BY <2>3 DEF CreateInvitation
<1>21. ASSUME NEW v \in Visits, ManualCheckout(v) PROVE TypeOK'
  BY <1>21 DEF ManualCheckout, VisitRow
<1>22. ASSUME JobStart PROVE TypeOK'
  BY <1>22 DEF JobStart, JobState
<1>23. ASSUME JobFindVisits PROVE TypeOK'
  BY <1>23 DEF JobFindVisits, JobState
<1>24. ASSUME JobForget PROVE TypeOK'
  <2>1. job.visit \in Visits
    BY <1>24 DEF JobForget, JobOK, JobState
  <2>2. job' \in JobState
    BY <1>24 DEF JobForget, JobState
  <2>3. visit' \in [Visits -> VisitRow]
    BY <1>24, <2>1 DEF JobForget, VisitRow
  <2> QED BY <1>24, <2>2, <2>3 DEF JobForget
<1>25. ASSUME JobClose PROVE TypeOK'
  <2>1. job' \in JobState
    BY <1>25 DEF JobClose, JobState
  <2>2. visit' \in [Visits -> VisitRow]
    <3>1. ASSUME NEW w \in Visits PROVE [visit[w] EXCEPT !.status = "AUTO_CLOSED"] \in VisitRow
      BY DEF VisitRow
    <3> QED BY <1>25, <3>1 DEF JobClose
  <2> QED BY <1>25, <2>1, <2>2 DEF JobClose
<1>26. ASSUME JobDeleteInvitations PROVE TypeOK'
  <2>1. \A i \in Invitations :
          [invitation[i] EXCEPT !.status = "DELETED"] \in InvitationRow
    OBVIOUS
  <2>2. invitation' \in [Invitations -> InvitationRow]
    BY <1>26, <2>1 DEF JobDeleteInvitations
  <2>3. job' \in JobState
    BY <1>26 DEF JobDeleteInvitations, JobState
  <2> QED BY <1>26, <2>2, <2>3 DEF JobDeleteInvitations
<1>27. ASSUME NEW v \in Visits, JobAnonymise(v) PROVE TypeOK'
  BY <1>27 DEF JobAnonymise, FilesOfVisit, JobState
<1>28. ASSUME JobFails PROVE TypeOK'
  <2>1. job' \in JobState
    BY <1>28 DEF JobFails, JobState
  <2>2. todo' \in [Purgers -> SUBSET Files] /\ cut' \in [Purgers -> SUBSET Files]
    BY <1>28 DEF JobFails
  <2> QED BY <1>28, <2>1, <2>2 DEF JobFails
<1>29. ASSUME Tick PROVE TypeOK'
  BY <1>29 DEF Tick
<1>30. ASSUME UNCHANGED vars PROVE TypeOK'
  BY <1>30 DEF vars
<1> QED
  BY <1>1, <1>2, <1>3, <1>4, <1>5, <1>6, <1>7, <1>8, <1>9, <1>10, <1>11, <1>12, <1>13,
     <1>14, <1>15, <1>16, <1>17, <1>18, <1>19, <1>20, <1>21, <1>22, <1>23, <1>24, <1>25,
     <1>26, <1>27, <1>28, <1>29, <1>30
     DEF Next, Arrive, RequestStep, JobStep

-----------------------------------------------------------------------------
(* The handlers *)

LEMMA InitIInv == Init => IInv
<1> SUFFICES ASSUME Init PROVE IInv
  OBVIOUS
<1>1. TypeOK
  BY InitTypeOK
<1>2. RequestsOK
  BY ReceptionAssumption DEF Init, RequestsOK, AllOperations
<1>3. JobOK /\ OneVisitPerInvitation
  <2>1. JobOK
    BY DEF Init, JobOK
  <2>2. OneVisitPerInvitation
    <3>1. /\ \A v \in Visits : visit[v].status = "ABSENT"
          /\ \A i \in Invitations : invitation[i].status = "ABSENT"
      BY DEF Init
    <3> QED BY <3>1 DEF OneVisitPerInvitation
  <2> QED BY <2>1, <2>2
<1> QED BY <1>1, <1>2, <1>3 DEF IInv

LEMMA StepRequestsOK == TypeOK /\ RequestsOK /\ JobOK /\ [Next]_vars => RequestsOK'
<1> SUFFICES ASSUME TypeOK, RequestsOK, JobOK, [Next]_vars PROVE RequestsOK'
  OBVIOUS
<1> USE DEF TypeOK, RequestsOK
<1>1. ASSUME NEW r \in Requests, NEW i \in Invitations, CancelLoad(r, i) PROVE RequestsOK'
  BY <1>1, NothingIsNoOne DEF CancelLoad, CanBegin, RequestState, VisitRow
<1>2. ASSUME NEW r \in Requests, NEW i \in Invitations, SubmitLoad(r, i) PROVE RequestsOK'
  BY SMTT(30), <1>2, NothingIsNoOne DEF SubmitLoad, CanBegin, RequestState, VisitRow
<1>3. ASSUME NEW r \in Requests, NEW i \in Invitations, PreregisteredLoad(r, i) PROVE RequestsOK'
  BY SMTT(30), <1>3, NothingIsNoOne DEF PreregisteredLoad, CanBegin, RequestState, VisitRow
<1>4. ASSUME NEW r \in Requests, NEW i \in Invitations \cup {None}, FormLoad(r, i) PROVE RequestsOK'
  BY SMTT(30), <1>4, NothingIsNoOne DEF FormLoad, CanBegin, RequestState, VisitRow
<1>5. ASSUME NEW r \in Requests, NEW v \in Visits, CheckOutLoad(r, v) PROVE RequestsOK'
  BY <1>5, NothingIsNoOne DEF CheckOutLoad, CanBegin, RequestState, VisitRow
<1>6. ASSUME NEW r \in Requests, NEW v \in Visits, EraseLoad(r, v) PROVE RequestsOK'
  BY <1>6, NothingIsNoOne DEF EraseLoad, CanBegin, PurgeThen, RequestState, VisitRow
<1>7. ASSUME NEW r \in Requests, CancelUpdate(r) PROVE RequestsOK'
  BY <1>7, NothingIsNoOne DEF CancelUpdate, RequestState, VisitRow
<1>8. ASSUME NEW r \in Requests, CancelFind(r) PROVE RequestsOK'
  BY <1>8, NothingIsNoOne DEF CancelFind, PurgeThen, RequestState, VisitRow
<1>9. ASSUME NEW r \in Requests, SubmitCommit(r) PROVE RequestsOK'
  <2>1. /\ req[r].pc = "submit"
        /\ req' = [req EXCEPT ![r].pc = PurgeThen(r, req[r].found, "done")]
        /\ todo' = [todo EXCEPT ![r] = req[r].found]
        /\ UNCHANGED <<visit, cut>>
    BY <1>9 DEF SubmitCommit
  <2> QED BY <2>1, NothingIsNoOne DEF PurgeThen, RequestState, VisitRow
<1>10. ASSUME NEW r \in Requests, SubmitRefused(r) PROVE RequestsOK'
  BY SMTT(30), <1>10, NothingIsNoOne DEF SubmitRefused, RequestState, VisitRow
<1>11. ASSUME NEW r \in Requests, NEW c \in ExitCodes, CheckInBegin(r, c) PROVE RequestsOK'
  <2>1. /\ req[r].pc = "code" /\ UNCHANGED <<visit, todo, cut>>
        /\ \A q \in Requests :
             /\ req'[q].op = req[q].op /\ req'[q].inv = req[q].inv
             /\ req'[q].visit = req[q].visit /\ req'[q].data = req[q].data
             /\ req'[q].pc = IF q = r THEN "checkin" ELSE req[q].pc
             /\ req'[q].code = IF q = r THEN c ELSE req[q].code
    BY <1>11 DEF CheckInBegin, RequestState
  <2> HIDE DEF TypeOK
  <2> QED BY <2>1, NothingIsNoOne
<1>12. ASSUME NEW r \in Requests, CheckInCommit(r) PROVE RequestsOK'
  <2>1. /\ req[r].pc = "checkin"
        /\ req' = [req EXCEPT ![r].pc = "done"]
        /\ visit' = [visit EXCEPT ![r] = [status |-> "OPEN", code |-> req[r].code,
                                          checkInAt |-> req[r].since, data |-> req[r].data]]
        /\ UNCHANGED <<todo, cut>>
    BY <1>12 DEF CheckInCommit
  <2> QED BY <2>1, NothingIsNoOne DEF RequestState, VisitRow
<1>13. ASSUME NEW r \in Requests, CheckInRollback(r) PROVE RequestsOK'
  BY <1>13, NothingIsNoOne DEF CheckInRollback, RequestState, VisitRow
<1>14. ASSUME NEW r \in Requests, CheckOutCommit(r) PROVE RequestsOK'
  BY <1>14, NothingIsNoOne DEF CheckOutCommit, RequestState, VisitRow
<1>15. ASSUME NEW r \in Requests, CheckOutRefused(r) PROVE RequestsOK'
  BY <1>15, NothingIsNoOne DEF CheckOutRefused, RequestState, VisitRow
<1>16. ASSUME NEW r \in Requests, EraseForget(r) PROVE RequestsOK'
  BY <1>16, NothingIsNoOne DEF EraseForget, RequestState, VisitRow
<1>17. ASSUME NEW p \in Purgers, NEW f \in Files, PurgeBlob(p, f) PROVE RequestsOK'
  BY <1>17, NothingIsNoOne DEF PurgeBlob, RequestState, VisitRow
<1>18. ASSUME NEW p \in Purgers, NEW f \in Files, PurgeMark(p, f) PROVE RequestsOK'
  BY <1>18, NothingIsNoOne DEF PurgeMark, AfterPurge, RequestState, VisitRow
<1>19. ASSUME NEW r \in Requests, RequestFails(r) PROVE RequestsOK'
  BY <1>19, NothingIsNoOne DEF RequestFails, InFlight, RequestState, VisitRow
<1>20. ASSUME NEW i \in Invitations, NEW d \in 0..(MaxTime \div DayLength),
              CreateInvitation(i, d * DayLength) PROVE RequestsOK'
  BY <1>20, NothingIsNoOne DEF CreateInvitation, RequestState, VisitRow
<1>21. ASSUME NEW v \in Visits, ManualCheckout(v) PROVE RequestsOK'
  BY <1>21, NothingIsNoOne DEF ManualCheckout, RequestState, VisitRow
<1>22. ASSUME JobStart PROVE RequestsOK'
  BY <1>22, NothingIsNoOne DEF JobStart, RequestState, VisitRow
<1>23. ASSUME JobFindVisits PROVE RequestsOK'
  BY <1>23, NothingIsNoOne DEF JobFindVisits, RequestState, VisitRow
<1>24. ASSUME JobForget PROVE RequestsOK'
  BY <1>24, NothingIsNoOne DEF JobForget, RequestState, VisitRow
<1>25. ASSUME JobClose PROVE RequestsOK'
  BY <1>25, NothingIsNoOne DEF JobClose, RequestState, VisitRow
<1>26. ASSUME JobDeleteInvitations PROVE RequestsOK'
  BY <1>26, NothingIsNoOne DEF JobDeleteInvitations, RequestState, VisitRow
<1>27. ASSUME NEW v \in Visits, JobAnonymise(v) PROVE RequestsOK'
  BY <1>27, NothingIsNoOne DEF JobAnonymise, RequestState, VisitRow
<1>28. ASSUME JobFails PROVE RequestsOK'
  BY <1>28, NothingIsNoOne DEF JobFails, RequestState, VisitRow
<1>29. ASSUME Tick PROVE RequestsOK'
  BY <1>29, NothingIsNoOne DEF Tick, RequestState, VisitRow
<1>30. ASSUME UNCHANGED vars PROVE RequestsOK'
  BY <1>30, NothingIsNoOne DEF vars, RequestState, VisitRow
<1> QED
  BY <1>1, <1>2, <1>3, <1>4, <1>5, <1>6, <1>7, <1>8, <1>9, <1>10, <1>11, <1>12, <1>13,
     <1>14, <1>15, <1>16, <1>17, <1>18, <1>19, <1>20, <1>21, <1>22, <1>23, <1>24, <1>25,
     <1>26, <1>27, <1>28, <1>29, <1>30
     DEF Next, Arrive, RequestStep, JobStep

LEMMA StepJobOK == TypeOK /\ RequestsOK /\ JobOK /\ [Next]_vars => JobOK'
<1> SUFFICES ASSUME TypeOK, RequestsOK, JobOK, [Next]_vars PROVE JobOK'
  OBVIOUS
<1> USE DEF TypeOK, JobOK
<1>1. ASSUME NEW r \in Requests, NEW i \in Invitations, CancelLoad(r, i) PROVE JobOK'
  BY <1>1 DEF CancelLoad, CanBegin, RequestState, JobState, VisitRow
<1>2. ASSUME NEW r \in Requests, NEW i \in Invitations, SubmitLoad(r, i) PROVE JobOK'
  BY <1>2 DEF SubmitLoad, CanBegin, RequestState, JobState, VisitRow
<1>3. ASSUME NEW r \in Requests, NEW i \in Invitations, PreregisteredLoad(r, i) PROVE JobOK'
  BY <1>3 DEF PreregisteredLoad, CanBegin, RequestState, JobState, VisitRow
<1>4. ASSUME NEW r \in Requests, NEW i \in Invitations \cup {None}, FormLoad(r, i) PROVE JobOK'
  BY <1>4 DEF FormLoad, CanBegin, RequestState, JobState, VisitRow
<1>5. ASSUME NEW r \in Requests, NEW v \in Visits, CheckOutLoad(r, v) PROVE JobOK'
  BY <1>5 DEF CheckOutLoad, CanBegin, RequestState, JobState, VisitRow
<1>6. ASSUME NEW r \in Requests, NEW v \in Visits, EraseLoad(r, v) PROVE JobOK'
  BY <1>6 DEF EraseLoad, CanBegin, PurgeThen, RequestState, JobState, VisitRow
<1>7. ASSUME NEW r \in Requests, CancelUpdate(r) PROVE JobOK'
  BY <1>7 DEF CancelUpdate, RequestState, JobState, VisitRow
<1>8. ASSUME NEW r \in Requests, CancelFind(r) PROVE JobOK'
  BY <1>8 DEF CancelFind, PurgeThen, RequestState, JobState, VisitRow
<1>9. ASSUME NEW r \in Requests, SubmitCommit(r) PROVE JobOK'
  BY <1>9 DEF SubmitCommit, PurgeThen, RequestState, JobState, VisitRow
<1>10. ASSUME NEW r \in Requests, SubmitRefused(r) PROVE JobOK'
  BY <1>10 DEF SubmitRefused, RequestState, JobState, VisitRow
<1>11. ASSUME NEW r \in Requests, NEW c \in ExitCodes, CheckInBegin(r, c) PROVE JobOK'
  BY <1>11 DEF CheckInBegin, RequestState, JobState, VisitRow
<1>12. ASSUME NEW r \in Requests, CheckInCommit(r) PROVE JobOK'
  BY <1>12 DEF CheckInCommit, RequestState, JobState, VisitRow
<1>13. ASSUME NEW r \in Requests, CheckInRollback(r) PROVE JobOK'
  BY <1>13 DEF CheckInRollback, RequestState, JobState, VisitRow
<1>14. ASSUME NEW r \in Requests, CheckOutCommit(r) PROVE JobOK'
  BY <1>14 DEF CheckOutCommit, RequestState, JobState, VisitRow
<1>15. ASSUME NEW r \in Requests, CheckOutRefused(r) PROVE JobOK'
  BY <1>15 DEF CheckOutRefused, RequestState, JobState, VisitRow
<1>16. ASSUME NEW r \in Requests, EraseForget(r) PROVE JobOK'
  BY <1>16 DEF EraseForget, RequestState, JobState, VisitRow
<1>17. ASSUME NEW p \in Purgers, NEW f \in Files, PurgeBlob(p, f) PROVE JobOK'
  BY <1>17 DEF PurgeBlob, RequestState, JobState, VisitRow
<1>18. ASSUME NEW p \in Purgers, NEW f \in Files, PurgeMark(p, f) PROVE JobOK'
  BY <1>18 DEF PurgeMark, AfterPurge, RequestState, JobState, VisitRow
<1>19. ASSUME NEW r \in Requests, RequestFails(r) PROVE JobOK'
  BY <1>19 DEF RequestFails, InFlight, RequestState, JobState, VisitRow
<1>20. ASSUME NEW i \in Invitations, NEW d \in 0..(MaxTime \div DayLength),
              CreateInvitation(i, d * DayLength) PROVE JobOK'
  BY <1>20 DEF CreateInvitation, RequestState, JobState, VisitRow
<1>21. ASSUME NEW v \in Visits, ManualCheckout(v) PROVE JobOK'
  BY <1>21 DEF ManualCheckout, RequestState, JobState, VisitRow
<1>22. ASSUME JobStart PROVE JobOK'
  BY <1>22 DEF JobStart, RequestState, JobState, VisitRow
<1>23. ASSUME JobFindVisits PROVE JobOK'
  BY <1>23 DEF JobFindVisits, RequestState, JobState, VisitRow
<1>24. ASSUME JobForget PROVE JobOK'
  BY <1>24 DEF JobForget, RequestState, JobState, VisitRow
<1>25. ASSUME JobClose PROVE JobOK'
  BY <1>25 DEF JobClose, RequestState, JobState, VisitRow
<1>26. ASSUME JobDeleteInvitations PROVE JobOK'
  BY <1>26 DEF JobDeleteInvitations, RequestState, JobState, VisitRow
<1>27. ASSUME NEW v \in Visits, JobAnonymise(v) PROVE JobOK'
  BY <1>27, NothingIsNoOne DEF JobAnonymise, RequestState, JobState, VisitRow
<1>28. ASSUME JobFails PROVE JobOK'
  BY <1>28 DEF JobFails, RequestState, JobState, VisitRow
<1>29. ASSUME Tick PROVE JobOK'
  BY <1>29 DEF Tick, RequestState, JobState, VisitRow
<1>30. ASSUME UNCHANGED vars PROVE JobOK'
  <2> HIDE DEF TypeOK
  <2> QED BY <1>30 DEF vars
<1> QED
  BY <1>1, <1>2, <1>3, <1>4, <1>5, <1>6, <1>7, <1>8, <1>9, <1>10, <1>11, <1>12, <1>13,
     <1>14, <1>15, <1>16, <1>17, <1>18, <1>19, <1>20, <1>21, <1>22, <1>23, <1>24, <1>25,
     <1>26, <1>27, <1>28, <1>29, <1>30
     DEF Next, Arrive, RequestStep, JobStep

LEMMA StepOneVisit == TypeOK /\ RequestsOK /\ JobOK /\ OneVisitPerInvitation /\ [Next]_vars => OneVisitPerInvitation'
<1> SUFFICES ASSUME TypeOK, RequestsOK, JobOK, OneVisitPerInvitation, [Next]_vars PROVE OneVisitPerInvitation'
  OBVIOUS
<1> USE DEF TypeOK, OneVisitPerInvitation
<1>1. ASSUME NEW r \in Requests, NEW i \in Invitations, CancelLoad(r, i) PROVE OneVisitPerInvitation'
  BY <1>1, NothingIsNoOne DEF CancelLoad, CanBegin, RequestsOK, RequestState, VisitRow, InvitationRow
<1>2. ASSUME NEW r \in Requests, NEW i \in Invitations, SubmitLoad(r, i) PROVE OneVisitPerInvitation'
  BY SMTT(30), <1>2, NothingIsNoOne DEF SubmitLoad, CanBegin, RequestsOK, RequestState, VisitRow, InvitationRow
<1>3. ASSUME NEW r \in Requests, NEW i \in Invitations, PreregisteredLoad(r, i) PROVE OneVisitPerInvitation'
  BY SMTT(30), <1>3, NothingIsNoOne DEF PreregisteredLoad, CanBegin, RequestsOK, RequestState, VisitRow, InvitationRow
<1>4. ASSUME NEW r \in Requests, NEW i \in Invitations \cup {None}, FormLoad(r, i) PROVE OneVisitPerInvitation'
  BY SMTT(30), <1>4, NothingIsNoOne DEF FormLoad, CanBegin, RequestsOK, RequestState, VisitRow, InvitationRow
<1>5. ASSUME NEW r \in Requests, NEW v \in Visits, CheckOutLoad(r, v) PROVE OneVisitPerInvitation'
  BY <1>5, NothingIsNoOne DEF CheckOutLoad, CanBegin, RequestsOK, RequestState, VisitRow, InvitationRow
<1>6. ASSUME NEW r \in Requests, NEW v \in Visits, EraseLoad(r, v) PROVE OneVisitPerInvitation'
  BY <1>6, NothingIsNoOne DEF EraseLoad, CanBegin, PurgeThen, RequestsOK, RequestState, VisitRow, InvitationRow
<1>7. ASSUME NEW r \in Requests, CancelUpdate(r) PROVE OneVisitPerInvitation'
  BY <1>7, NothingIsNoOne DEF CancelUpdate, RequestsOK, RequestState, VisitRow, InvitationRow
<1>8. ASSUME NEW r \in Requests, CancelFind(r) PROVE OneVisitPerInvitation'
  BY <1>8, NothingIsNoOne DEF CancelFind, PurgeThen, RequestsOK, RequestState, VisitRow, InvitationRow
<1>9. ASSUME NEW r \in Requests, SubmitCommit(r) PROVE OneVisitPerInvitation'
  BY <1>9, NothingIsNoOne DEF SubmitCommit, PurgeThen, RequestsOK, RequestState, VisitRow, InvitationRow
<1>10. ASSUME NEW r \in Requests, SubmitRefused(r) PROVE OneVisitPerInvitation'
  BY SMTT(30), <1>10, NothingIsNoOne DEF SubmitRefused, RequestsOK, RequestState, VisitRow, InvitationRow
<1>11. ASSUME NEW r \in Requests, NEW c \in ExitCodes, CheckInBegin(r, c) PROVE OneVisitPerInvitation'
  BY SMTT(30), <1>11, NothingIsNoOne DEF CheckInBegin, RequestsOK, RequestState, VisitRow, InvitationRow
<1>12. ASSUME NEW r \in Requests, CheckInCommit(r) PROVE OneVisitPerInvitation'
  <2> DEFINE i == req[r].inv
  <2>1. /\ req[r].pc = "checkin" /\ Consumable(r)
        /\ req' = [req EXCEPT ![r].pc = "done"]
        /\ visit' = [visit EXCEPT ![r] = [status |-> "OPEN", code |-> req[r].code,
                                          checkInAt |-> req[r].since, data |-> req[r].data]]
        /\ invitation' = IF i = None THEN invitation
                         ELSE [invitation EXCEPT ![i].status = "USED", ![i].visit = r]
    BY <1>12 DEF CheckInCommit
  <2>2. visit[r].status = "ABSENT"
    BY <2>1 DEF RequestsOK
  <2>3. CASE i = None
    BY SMTT(30), <2>1, <2>2, <2>3 DEF RequestState, VisitRow, InvitationRow
  <2>4. CASE i # None
    <3>1. i \in Invitations /\ invitation[i].status = "PENDING"
      BY <2>1, <2>4 DEF Consumable, UsableAt, RequestState
    <3>2. invitation' = [invitation EXCEPT ![i].status = "USED", ![i].visit = r]
      BY <2>1, <2>4
    <3>3. \A v \in Visits \ {r} : visit[v].status # "ABSENT" => req[v].inv # i
      BY <3>1, <2>4
    <3> QED BY SMTT(30), <2>1, <2>2, <3>1, <3>2, <3>3 DEF RequestState, VisitRow, InvitationRow
  <2> QED BY <2>3, <2>4
<1>13. ASSUME NEW r \in Requests, CheckInRollback(r) PROVE OneVisitPerInvitation'
  BY <1>13, NothingIsNoOne DEF CheckInRollback, RequestsOK, RequestState, VisitRow, InvitationRow
<1>14. ASSUME NEW r \in Requests, CheckOutCommit(r) PROVE OneVisitPerInvitation'
  BY <1>14, NothingIsNoOne DEF CheckOutCommit, RequestsOK, RequestState, VisitRow, InvitationRow
<1>15. ASSUME NEW r \in Requests, CheckOutRefused(r) PROVE OneVisitPerInvitation'
  BY <1>15, NothingIsNoOne DEF CheckOutRefused, RequestsOK, RequestState, VisitRow, InvitationRow
<1>16. ASSUME NEW r \in Requests, EraseForget(r) PROVE OneVisitPerInvitation'
  BY <1>16, NothingIsNoOne DEF EraseForget, RequestsOK, RequestState, VisitRow, InvitationRow
<1>17. ASSUME NEW p \in Purgers, NEW f \in Files, PurgeBlob(p, f) PROVE OneVisitPerInvitation'
  BY <1>17, NothingIsNoOne DEF PurgeBlob, RequestsOK, RequestState, VisitRow, InvitationRow
<1>18. ASSUME NEW p \in Purgers, NEW f \in Files, PurgeMark(p, f) PROVE OneVisitPerInvitation'
  BY <1>18, NothingIsNoOne DEF PurgeMark, AfterPurge, RequestsOK, RequestState, VisitRow, InvitationRow
<1>19. ASSUME NEW r \in Requests, RequestFails(r) PROVE OneVisitPerInvitation'
  BY <1>19, NothingIsNoOne DEF RequestFails, InFlight, RequestsOK, RequestState, VisitRow, InvitationRow
<1>20. ASSUME NEW i \in Invitations, NEW d \in 0..(MaxTime \div DayLength),
              CreateInvitation(i, d * DayLength) PROVE OneVisitPerInvitation'
  BY SMTT(30), <1>20, NothingIsNoOne DEF CreateInvitation, RequestsOK, RequestState, VisitRow, InvitationRow
<1>21. ASSUME NEW v \in Visits, ManualCheckout(v) PROVE OneVisitPerInvitation'
  BY <1>21, NothingIsNoOne DEF ManualCheckout, RequestsOK, RequestState, VisitRow, InvitationRow
<1>22. ASSUME JobStart PROVE OneVisitPerInvitation'
  BY <1>22, NothingIsNoOne DEF JobStart, RequestsOK, RequestState, VisitRow, InvitationRow
<1>23. ASSUME JobFindVisits PROVE OneVisitPerInvitation'
  BY <1>23, NothingIsNoOne DEF JobFindVisits, RequestsOK, RequestState, VisitRow, InvitationRow
<1>24. ASSUME JobForget PROVE OneVisitPerInvitation'
  BY <1>24, NothingIsNoOne DEF JobForget, RequestsOK, RequestState, VisitRow, InvitationRow
<1>25. ASSUME JobClose PROVE OneVisitPerInvitation'
  BY <1>25, NothingIsNoOne DEF JobClose, RequestsOK, RequestState, VisitRow, InvitationRow
<1>26. ASSUME JobDeleteInvitations PROVE OneVisitPerInvitation'
  BY <1>26, NothingIsNoOne DEF JobDeleteInvitations, RequestsOK, RequestState, VisitRow, InvitationRow
<1>27. ASSUME NEW v \in Visits, JobAnonymise(v) PROVE OneVisitPerInvitation'
  BY <1>27, NothingIsNoOne DEF JobAnonymise, RequestsOK, RequestState, VisitRow, InvitationRow
<1>28. ASSUME JobFails PROVE OneVisitPerInvitation'
  BY <1>28, NothingIsNoOne DEF JobFails, RequestsOK, RequestState, VisitRow, InvitationRow
<1>29. ASSUME Tick PROVE OneVisitPerInvitation'
  BY <1>29, NothingIsNoOne DEF Tick, RequestsOK, RequestState, VisitRow, InvitationRow
<1>30. ASSUME UNCHANGED vars PROVE OneVisitPerInvitation'
  BY <1>30, NothingIsNoOne DEF vars, RequestsOK, RequestState, VisitRow, InvitationRow
<1> QED
  BY <1>1, <1>2, <1>3, <1>4, <1>5, <1>6, <1>7, <1>8, <1>9, <1>10, <1>11, <1>12, <1>13,
     <1>14, <1>15, <1>16, <1>17, <1>18, <1>19, <1>20, <1>21, <1>22, <1>23, <1>24, <1>25,
     <1>26, <1>27, <1>28, <1>29, <1>30
     DEF Next, Arrive, RequestStep, JobStep

-----------------------------------------------------------------------------
(* The invariants of the specification *)

LEMMA Inductive == Spec => []IInv
<1>1. IInv /\ [Next]_vars => IInv'
  BY StepTypeOK, StepRequestsOK, StepJobOK, StepOneVisit DEF IInv
<1> QED BY InitIInv, <1>1, PTL DEF Spec

(* Every variable keeps its type, whatever the operations and their interleaving. *)
THEOREM TypeCorrect == Spec => []TypeOK
<1>1. IInv => TypeOK
  BY DEF IInv
<1> QED BY Inductive, <1>1, PTL

(* However many check-ins, submissions and cancellations carry the same invitation code, it
   lets in one visit, and the invitation says which (kiosk.service persist, consume). *)
THEOREM InvitationUsedOnce == Spec => []OneVisitPerInvitation
<1>1. IInv => OneVisitPerInvitation
  BY DEF IInv
<1> QED BY Inductive, <1>1, PTL

-----------------------------------------------------------------------------
(* The steps that write the tables of invitations and visits *)

Writes ==
  \/ \E r \in Requests : SubmitCommit(r) \/ CancelUpdate(r) \/ CheckInCommit(r)
                          \/ CheckOutCommit(r) \/ EraseForget(r)
  \/ \E i \in Invitations : \E d \in 0..(MaxTime \div DayLength) :
       CreateInvitation(i, d * DayLength)
  \/ \E v \in Visits : ManualCheckout(v)
  \/ JobForget \/ JobClose \/ JobDeleteInvitations

LEMMA Writers == [Next]_vars => Writes \/ UNCHANGED <<invitation, visit>>
<1> SUFFICES ASSUME [Next]_vars, ~Writes PROVE UNCHANGED <<invitation, visit>>
  OBVIOUS
<1> USE DEF Writes
<1>1. ASSUME NEW r \in Requests, NEW i \in Invitations, CancelLoad(r, i) PROVE UNCHANGED <<invitation, visit>>
  BY <1>1 DEF CancelLoad
<1>2. ASSUME NEW r \in Requests, NEW i \in Invitations, SubmitLoad(r, i) PROVE UNCHANGED <<invitation, visit>>
  BY <1>2 DEF SubmitLoad
<1>3. ASSUME NEW r \in Requests, NEW i \in Invitations, PreregisteredLoad(r, i) PROVE UNCHANGED <<invitation, visit>>
  BY <1>3 DEF PreregisteredLoad
<1>4. ASSUME NEW r \in Requests, NEW i \in Invitations \cup {None}, FormLoad(r, i) PROVE UNCHANGED <<invitation, visit>>
  BY <1>4 DEF FormLoad
<1>5. ASSUME NEW r \in Requests, NEW v \in Visits, CheckOutLoad(r, v) PROVE UNCHANGED <<invitation, visit>>
  BY <1>5 DEF CheckOutLoad
<1>6. ASSUME NEW r \in Requests, NEW v \in Visits, EraseLoad(r, v) PROVE UNCHANGED <<invitation, visit>>
  BY <1>6 DEF EraseLoad
<1>7. ASSUME NEW r \in Requests, CancelFind(r) PROVE UNCHANGED <<invitation, visit>>
  BY <1>7 DEF CancelFind
<1>8. ASSUME NEW r \in Requests, SubmitRefused(r) PROVE UNCHANGED <<invitation, visit>>
  BY <1>8 DEF SubmitRefused
<1>9. ASSUME NEW r \in Requests, NEW c \in ExitCodes, CheckInBegin(r, c) PROVE UNCHANGED <<invitation, visit>>
  BY <1>9 DEF CheckInBegin
<1>10. ASSUME NEW r \in Requests, CheckInRollback(r) PROVE UNCHANGED <<invitation, visit>>
  BY <1>10 DEF CheckInRollback
<1>11. ASSUME NEW r \in Requests, CheckOutRefused(r) PROVE UNCHANGED <<invitation, visit>>
  BY <1>11 DEF CheckOutRefused
<1>12. ASSUME NEW p \in Purgers, NEW f \in Files, PurgeBlob(p, f) PROVE UNCHANGED <<invitation, visit>>
  BY <1>12 DEF PurgeBlob
<1>13. ASSUME NEW p \in Purgers, NEW f \in Files, PurgeMark(p, f) PROVE UNCHANGED <<invitation, visit>>
  BY <1>13 DEF PurgeMark
<1>14. ASSUME NEW r \in Requests, RequestFails(r) PROVE UNCHANGED <<invitation, visit>>
  BY <1>14 DEF RequestFails
<1>15. ASSUME JobStart PROVE UNCHANGED <<invitation, visit>>
  BY <1>15 DEF JobStart
<1>16. ASSUME JobFindVisits PROVE UNCHANGED <<invitation, visit>>
  BY <1>16 DEF JobFindVisits
<1>17. ASSUME NEW v \in Visits, JobAnonymise(v) PROVE UNCHANGED <<invitation, visit>>
  BY <1>17 DEF JobAnonymise
<1>18. ASSUME JobFails PROVE UNCHANGED <<invitation, visit>>
  BY <1>18 DEF JobFails
<1>19. ASSUME Tick PROVE UNCHANGED <<invitation, visit>>
  BY <1>19 DEF Tick
<1>20. ASSUME UNCHANGED vars PROVE UNCHANGED <<invitation, visit>>
  BY <1>20 DEF vars
<1> QED
  BY <1>1, <1>2, <1>3, <1>4, <1>5, <1>6, <1>7, <1>8, <1>9, <1>10, <1>11, <1>12, <1>13,
     <1>14, <1>15, <1>16, <1>17, <1>18, <1>19, <1>20
     DEF Next, Arrive, RequestStep, JobStep

-----------------------------------------------------------------------------
(* The life of a visit *)

LEMMA StepLifecycle == IInv /\ [Next]_vars => VisitLifecycleStep
<1> SUFFICES ASSUME TypeOK, RequestsOK, JobOK, [Next]_vars PROVE VisitLifecycleStep
  BY DEF IInv
<1> USE DEF TypeOK, VisitLifecycleStep, Successors
<1>1. ASSUME NEW r \in Requests, CheckInCommit(r) PROVE VisitLifecycleStep
  BY <1>1 DEF CheckInCommit, RequestsOK
<1>2. ASSUME NEW r \in Requests, CheckOutCommit(r) PROVE VisitLifecycleStep
  BY <1>2 DEF CheckOutCommit
<1>3. ASSUME NEW r \in Requests, EraseForget(r) PROVE VisitLifecycleStep
  BY <1>3 DEF EraseForget, RequestsOK, RequestState, VisitRow
<1>4. ASSUME NEW v \in Visits, ManualCheckout(v) PROVE VisitLifecycleStep
  BY <1>4 DEF ManualCheckout
<1>5. ASSUME JobForget PROVE VisitLifecycleStep
  BY <1>5 DEF JobForget, JobOK, JobState, VisitRow
<1>6. ASSUME JobClose PROVE VisitLifecycleStep
  BY <1>6 DEF JobClose
<1>7. ASSUME NEW r \in Requests, SubmitCommit(r) PROVE VisitLifecycleStep
  BY <1>7 DEF SubmitCommit
<1>8. ASSUME NEW r \in Requests, CancelUpdate(r) PROVE VisitLifecycleStep
  BY <1>8 DEF CancelUpdate
<1>9. ASSUME NEW i \in Invitations, NEW d \in 0..(MaxTime \div DayLength),
             CreateInvitation(i, d * DayLength) PROVE VisitLifecycleStep
  BY <1>9 DEF CreateInvitation
<1>10. ASSUME JobDeleteInvitations PROVE VisitLifecycleStep
  BY <1>10 DEF JobDeleteInvitations
<1>11. CASE UNCHANGED visit
  BY <1>11
<1> HIDE DEF VisitLifecycleStep
<1> QED
  BY Writers, <1>1, <1>2, <1>3, <1>4, <1>5, <1>6, <1>7, <1>8, <1>9, <1>10, <1>11 DEF Writes

(* The tablet, the console, the end of the day and the erasure may all try to end a visit:
   it is ended once, an erasure is final, and no step brings personal data back. *)
THEOREM VisitsEndOnce == Spec => VisitLifecycle
<1>1. IInv /\ [Next]_vars => [VisitLifecycleStep]_vars
  BY StepLifecycle
<1> QED BY Inductive, <1>1, PTL DEF Spec, VisitLifecycle

-----------------------------------------------------------------------------
(* The front desk implements Admission *)

LEMMA InitAdmission == Init => Promise!AInit
  BY DEF Init, Promise!AInit, Worth, Whereabouts

AdmissionStep == Promise!ANext \/ UNCHANGED Promise!avars

LEMMA StepAdmission == IInv /\ [Next]_vars => AdmissionStep
<1> SUFFICES ASSUME TypeOK, RequestsOK, JobOK, [Next]_vars PROVE AdmissionStep
  BY DEF IInv
<1> USE DEF TypeOK, InvitationRow, VisitRow
<1>1. ASSUME NEW r \in Requests, SubmitCommit(r) PROVE AdmissionStep
  <2>1. /\ req[r].inv \in Invitations
        /\ invitation' = [invitation EXCEPT ![req[r].inv].pre = r]
        /\ visit' = visit
    BY <1>1 DEF SubmitCommit, RequestsOK, RequestState
  <2> QED BY <2>1 DEF AdmissionStep, Promise!avars
<1>2. ASSUME NEW r \in Requests, CancelUpdate(r) PROVE AdmissionStep
  <2> DEFINE i == req[r].inv
  <2>1. /\ i \in Invitations
        /\ invitation' = [invitation EXCEPT ![i].status = IF @ = "PENDING" THEN "CANCELLED" ELSE @]
        /\ visit' = visit
    BY <1>2 DEF CancelUpdate, RequestsOK, RequestState
  <2>2. CASE invitation[i].status = "PENDING"
    <3>1. Promise!Withdraw(i)
      BY <2>1, <2>2 DEF Promise!Withdraw, Worth
    <3> QED BY <3>1, <2>1 DEF AdmissionStep, Promise!ANext
  <2>3. CASE invitation[i].status # "PENDING"
    BY <2>1, <2>3 DEF AdmissionStep, Promise!avars
  <2> QED BY <2>2, <2>3
<1>3. ASSUME NEW r \in Requests, CheckInCommit(r) PROVE AdmissionStep
  <2> DEFINE i == req[r].inv
  <2>1. /\ req[r].pc = "checkin" /\ Consumable(r)
        /\ visit' = [visit EXCEPT ![r] = [status |-> "OPEN", code |-> req[r].code,
                                          checkInAt |-> req[r].since, data |-> req[r].data]]
        /\ invitation' = IF i = None THEN invitation
                         ELSE [invitation EXCEPT ![i].status = "USED", ![i].visit = r]
    BY <1>3 DEF CheckInCommit
  <2>2. visit[r].status = "ABSENT" /\ req[r].data # None
    BY <2>1 DEF RequestsOK
  <2>3. Promise!Enter(r)
    <3>1. [v \in Visits |-> Whereabouts(visit'[v].status)]
            = [[v \in Visits |-> Whereabouts(visit[v].status)] EXCEPT ![r] = "inside"]
      BY <2>1, <2>2 DEF Whereabouts
    <3>2. {v \in Visits : visit'[v].data # None} = {v \in Visits : visit[v].data # None} \cup {r}
      BY <2>1, <2>2
    <3>3. Whereabouts(visit[r].status) = "outside"
      BY <2>2 DEF Whereabouts
    <3> QED BY <3>1, <3>2, <3>3 DEF Promise!Enter
  <2>4. CASE i = None
    <3>1. Promise!WalkIn(r)
      BY <2>1, <2>3, <2>4 DEF Promise!WalkIn
    <3> QED BY <3>1 DEF AdmissionStep, Promise!ANext
  <2>5. CASE i # None
    <3> PICK j \in Invitations : j = i
      BY <2>5 DEF RequestState
    <3>1. invitation[j].status = "PENDING"
      BY <2>1, <2>5 DEF Consumable, UsableAt
    <3>2. invitation' = [invitation EXCEPT ![j].status = "USED", ![j].visit = r]
      BY <2>1, <2>5
    <3>3. \A k \in Invitations :
            /\ invitation'[k].status = IF k = j THEN "USED" ELSE invitation[k].status
            /\ invitation'[k].visit = IF k = j THEN r ELSE invitation[k].visit
      BY <3>2
    <3>4. /\ Worth(invitation[j].status) = "open"
          /\ \A k \in Invitations : Worth(invitation'[k].status)
                                     = IF k = j THEN "used" ELSE Worth(invitation[k].status)
      BY <3>1, <3>3 DEF Worth
    <3>5. /\ [k \in Invitations |-> Worth(invitation'[k].status)]
                = [[k \in Invitations |-> Worth(invitation[k].status)] EXCEPT ![j] = "used"]
          /\ [k \in Invitations |-> invitation'[k].visit]
                = [[k \in Invitations |-> invitation[k].visit] EXCEPT ![j] = r]
      BY ZenonT(30), <3>3, <3>4
    <3>6. Promise!Admit(r, j)
      BY <2>3, <3>4, <3>5 DEF Promise!Admit
    <3> HIDE DEF TypeOK
    <3>7. \E v \in Visits, k \in Invitations : Promise!Admit(v, k)
      BY <3>6 DEF Visits
    <3> QED BY <3>7 DEF AdmissionStep, Promise!ANext
  <2> QED BY <2>4, <2>5
<1>4. ASSUME NEW r \in Requests, CheckOutCommit(r) PROVE AdmissionStep
  <2> DEFINE v == req[r].visit
  <2>1. /\ v \in Visits /\ visit[v].status = "OPEN"
        /\ visit' = [visit EXCEPT ![v].status = "CLOSED"]
        /\ invitation' = invitation
    BY <1>4 DEF CheckOutCommit, RequestsOK, RequestState
  <2>2. Promise!Leave({v})
    BY <2>1 DEF Promise!Leave, Whereabouts
  <2> QED BY <2>1, <2>2 DEF AdmissionStep, Promise!ANext
<1>5. ASSUME NEW v \in Visits, ManualCheckout(v) PROVE AdmissionStep
  <2>1. Promise!Leave({v})
    BY <1>5 DEF ManualCheckout, Promise!Leave, Whereabouts
  <2> QED BY <2>1 DEF AdmissionStep, Promise!ANext
<1>6. ASSUME NEW r \in Requests, EraseForget(r) PROVE AdmissionStep
  <2> PICK v \in Visits : v = req[r].visit
    BY <1>6 DEF EraseForget, RequestsOK, RequestState
  <2>1. /\ visit[v].status # "ABSENT"
        /\ visit' = [visit EXCEPT ![v].status = "ERASED", ![v].data = None]
        /\ invitation' = invitation
    BY <1>6 DEF EraseForget, RequestsOK, RequestState
  <2>2. {w \in Visits : visit'[w].data # None} = {w \in Visits : visit[w].data # None} \ {v}
    BY <2>1
  <2>3. [w \in Visits |-> Whereabouts(visit'[w].status)] = 
       [[w \in Visits |-> Whereabouts(visit[w].status)] EXCEPT ![v] = "left"]
    BY <2>1 DEF Whereabouts
  <2>4. Whereabouts(visit[v].status) # "outside"
    BY <2>1 DEF Whereabouts
  <2>5. Promise!Forget(v)
    BY <2>1, <2>2, <2>3, <2>4 DEF Promise!Forget
  <2> HIDE DEF TypeOK
  <2>6. \E w \in Visits : Promise!WalkIn(w) \/ Promise!Forget(w)
    BY <2>5
  <2> QED BY <2>6 DEF AdmissionStep, Promise!ANext
<1>7. ASSUME NEW i \in Invitations, NEW d \in 0..(MaxTime \div DayLength),
             CreateInvitation(i, d * DayLength) PROVE AdmissionStep
  <2>1. /\ invitation[i].status = "ABSENT"
        /\ invitation' = [invitation EXCEPT ![i].status = "PENDING", ![i].validFrom = d * DayLength]
        /\ visit' = visit
    BY <1>7 DEF CreateInvitation
  <2>2. \A k \in Invitations :
          /\ invitation'[k].status = IF k = i THEN "PENDING" ELSE invitation[k].status
          /\ invitation'[k].visit = invitation[k].visit
    BY <2>1
  <2>3. /\ Worth(invitation[i].status) = "none"
        /\ \A k \in Invitations : Worth(invitation'[k].status)
                                   = IF k = i THEN "open" ELSE Worth(invitation[k].status)
    BY <2>1, <2>2 DEF Worth
  <2>4. /\ [k \in Invitations |-> Worth(invitation'[k].status)]
              = [[k \in Invitations |-> Worth(invitation[k].status)] EXCEPT ![i] = "open"]
        /\ [k \in Invitations |-> invitation'[k].visit] = [k \in Invitations |-> invitation[k].visit]
    BY <2>2, <2>3
  <2>5. Promise!Invite(i)
    BY <2>1, <2>3, <2>4 DEF Promise!Invite
  <2> QED BY <2>5 DEF AdmissionStep, Promise!ANext
<1>8. ASSUME JobForget PROVE AdmissionStep
  <2> PICK v \in Visits : v = job.visit
    BY <1>8 DEF JobForget, JobOK, JobState
  <2>1. /\ visit[v].status # "ABSENT"
        /\ visit' = [visit EXCEPT ![v].data = None]
        /\ invitation' = invitation
    BY <1>8 DEF JobForget, JobOK, JobState
  <2>2. {w \in Visits : visit'[w].data # None} = {w \in Visits : visit[w].data # None} \ {v}
    BY <2>1
  <2>3. [w \in Visits |-> Whereabouts(visit'[w].status)] = 
       [w \in Visits |-> Whereabouts(visit[w].status)]
    BY <2>1 DEF Whereabouts
  <2>4. Whereabouts(visit[v].status) # "outside"
    BY <2>1 DEF Whereabouts
  <2>5. Promise!Forget(v)
    BY <2>1, <2>2, <2>3, <2>4 DEF Promise!Forget
  <2> HIDE DEF TypeOK
  <2>6. \E w \in Visits : Promise!WalkIn(w) \/ Promise!Forget(w)
    BY <2>5
  <2> QED BY <2>6 DEF AdmissionStep, Promise!ANext
<1>9. ASSUME JobClose PROVE AdmissionStep
  <2> DEFINE V == {v \in Visits : visit[v].status = "OPEN"
                                  /\ visit[v].checkInAt < StartOfLocalDay(job.now)}
  <2>1. Promise!Leave(V)
    BY <1>9 DEF JobClose, Promise!Leave, Whereabouts
  <2> QED BY <2>1 DEF AdmissionStep, Promise!ANext
<1>10. ASSUME JobDeleteInvitations PROVE AdmissionStep
  <2> DEFINE I == {i \in Invitations : invitation[i].status # "ABSENT"
                    /\ ValidUntil(i) < AddDays(job.now, -InvitationKeepDays)}
  <2>1. Promise!Discard(I)
    BY <1>10 DEF JobDeleteInvitations, Promise!Discard, Worth
  <2> QED BY <2>1 DEF AdmissionStep, Promise!ANext
<1>11. CASE UNCHANGED <<invitation, visit>>
  BY <1>11 DEF AdmissionStep, Promise!avars
<1> QED
  BY Writers, <1>1, <1>2, <1>3, <1>4, <1>5, <1>6, <1>7, <1>8, <1>9, <1>10, <1>11 DEF Writes

(* Requests, transactions, files, failures and the retention run are one way to keep the
   promises of Admission: a pass is spent in the step that lets its guest in, and once. *)
THEOREM FrontDeskImplementsAdmission == Spec => ImplementsAdmission
<1>1. IInv /\ [Next]_vars => [Promise!ANext]_(Promise!avars)
  BY StepAdmission DEF AdmissionStep
<1> QED BY Inductive, InitAdmission, <1>1, PTL DEF Spec, ImplementsAdmission, Promise!ASpec
=============================================================================
