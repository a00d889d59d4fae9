------------------------------- MODULE Badges -------------------------------
(***************************************************************************)
(* Employees and their badges.  The HR system and the console write the    *)
(* employees, their card and their doors; an employee turns a phone into a *)
(* badge with a code sent by mail or with the company account, receives    *)
(* notices on it and may remove it; a reader asks who stands at its door.  *)
(*                                                                         *)
(* Each request stops at its awaits, where the others go on.  The table of *)
(* employees has a unique index on externalId and none on the card or the  *)
(* address.  One door stands for the doors; a minute of the day for which  *)
(* a rule is good is part of the rule.                                     *)
(*                                                                         *)
(* A definition under a "Bug:" comment is not part of the specification:   *)
(* it is the definition that follows with a plausible mistake in it, which *)
(* the properties must notice.                                             *)
(***************************************************************************)
EXTENDS Integers, FiniteSets

CONSTANTS
  Requests,     \* requests that may be in progress at the same time
  Employees,    \* rows of the table employees, each is used once
  Staff,        \* those of the initial state
  Externals,    \* identifiers of the external system
  Phones, Cards, Emails, Projects,
  None, Keep,   \* null, and undefined: the column is left as it is
  Inputs,       \* what a PUT of an employee says
  Agendas,      \* the kinds of requests of a behaviour, one set for each
  MaxAttempts,  \* LOGIN_CODE_MAX_ATTEMPTS
  MaxCodes,     \* bound on the codes sent
  MaxBadges,    \* bound on the badges issued
  MaxStarts     \* bound on the other requests

Kinds == {"put", "delete", "ask", "activate", "sso", "revoke", "remove", "register", "verify", "project", "settings"}
Rules == {"none", "outside", "inside"}

ASSUME BadgesAssumption ==
  /\ Staff \subseteq Employees
  /\ None \notin Employees \cup Phones \cup Cards \cup Emails \cup Projects \cup {Keep}
  /\ Keep \notin Cards \cup Projects
  /\ {MaxAttempts, MaxCodes, MaxBadges, MaxStarts} \subseteq Nat
  /\ Agendas \subseteq SUBSET Kinds
  /\ Inputs \subseteq [card : Cards \cup {None, Keep}, email : Emails \cup {None}, active : BOOLEAN,
                       valid : BOOLEAN, rule : Rules, project : Projects \cup {None, Keep}]

VARIABLES
  agenda,    \* the kinds of requests of this behaviour
  person,    \* table employees with access_rules
  login,     \* its columns of the activation code
  phone,     \* what the phones keep: whose badge, which secret
  devices,   \* table push_devices, with the secret a device had (history)
  projects,  \* table projects
  open,      \* the door is in use
  selfRemove,\* the organisation's setting
  request,   \* the requests
  codes, badges, starts,
  guesses,   \* codes compared in this window (history)
  overlaps,  \* code requests that crossed a guess (history)
  raced,     \* cards and projects two requests crossed on, phones whose
             \* registration crossed the end of their badge (history)
  held       \* what has been true of a verification's person since it began (history)

vars == <<agenda, person, login, phone, devices, projects, open, selfRemove, request,
            codes, badges, starts, guesses, overlaps, raced, held>>

-----------------------------------------------------------------------------
(* Types and initial state *)

Person == [row : {"absent", "here", "gone"}, ext : Externals \cup {None}, active : BOOLEAN,
           valid : BOOLEAN, accessOff : BOOLEAN, card : Cards \cup {None}, email : Emails \cup {None},
           rule : Rules, project : Projects \cup {None}, secret : 0..(MaxBadges + 1)]

Login == [code : 0..MaxCodes, open : BOOLEAN, attempts : 0..MaxAttempts]

Facts == {"row", "credential", "active", "app", "valid", "door", "rule"}

\* ext, input: of a PUT; row: the employee it found; seen: the code's columns;
\* guess: the code typed; owns: the secret or the card shown, the project to
\* delete; over: another request crossed this one (history).
Request ==
  [op : {"idle", "put", "delete", "ask", "activate", "revoke", "remove", "register", "verify", "project"},
   pc : {"idle", "read", "write", "take", "forget", "store", "door", "rules", "granted", "denied"},
   ext : Externals \cup {None}, row : Employees \cup {None}, phone : Phones \cup {None},
   over : BOOLEAN, seen : Login, guess : 0..MaxCodes, input : Inputs \cup {None},
   owns : 0..(MaxBadges + 1) \cup Cards \cup Projects]

TypeOK ==
  /\ agenda \in Agendas
  /\ person \in [Employees -> Person] /\ login \in [Employees -> Login]
  /\ phone \in [Phones -> [of : Employees \cup {None}, secret : 0..(MaxBadges + 1)]]
  /\ devices \in [Employees -> SUBSET (Phones \X (0..(MaxBadges + 1)))]
  /\ projects \subseteq Projects /\ open \in BOOLEAN /\ selfRemove \in BOOLEAN
  /\ request \in [Requests -> Request]
  /\ codes \in 0..MaxCodes /\ badges \in 0..MaxBadges /\ starts \in 0..MaxStarts
  /\ guesses \in [Employees -> Nat] /\ overlaps \in [Employees -> Nat]
  /\ raced \subseteq Cards \cup Projects \cup Phones
  /\ held \in [Requests -> SUBSET Facts]

NoLogin == [code |-> 0, open |-> FALSE, attempts |-> 0]

Idle == [op |-> "idle", pc |-> "idle", ext |-> None, row |-> None, phone |-> None, over |-> FALSE,
         seen |-> NoLogin, guess |-> 0, input |-> None, owns |-> 0]

NewPerson == [row |-> "absent", ext |-> None, active |-> FALSE, valid |-> FALSE, accessOff |-> FALSE,
              card |-> None, email |-> None, rule |-> "none", project |-> None, secret |-> 0]

Injections(A, B) == {f \in [A -> B] : \A x, y \in A : f[x] = f[y] => x = y}

\* The staff has doors, an address and a phone badge each.
Init ==
  /\ agenda \in Agendas
  /\ \E ext \in Injections(Staff, Externals), email \in Injections(Staff, Emails), holder \in Injections(Staff, Phones) :
       /\ person = [e \in Employees |->
            IF e \in Staff THEN [NewPerson EXCEPT !.row = "here", !.ext = ext[e], !.active = TRUE, !.valid = TRUE,
                                   !.email = email[e], !.rule = "inside", !.secret = 1]
            ELSE NewPerson]
       /\ phone = [p \in Phones |->
            IF \E e \in Staff : holder[e] = p THEN [of |-> CHOOSE e \in Staff : holder[e] = p, secret |-> 1]
            ELSE [of |-> None, secret |-> 0]]
  /\ login = [e \in Employees |-> NoLogin]
  /\ devices = [e \in Employees |-> {}]
  /\ projects = Projects /\ open = TRUE /\ selfRemove \in BOOLEAN
  /\ request = [r \in Requests |-> Idle]
  /\ codes = 0 /\ badges = 0 /\ starts = 0
  /\ guesses = [e \in Employees |-> 0] /\ overlaps = [e \in Employees |-> 0]
  /\ raced = {} /\ held = [r \in Requests |-> {}]

-----------------------------------------------------------------------------
(* Requests *)

Here == {e \in Employees : person[e].row = "here"}
WithExternal(x) == {e \in Here : person[e].ext = x}

\* Process r begins request new.
Starts(r, new) ==
  /\ new.op \in agenda /\ request[r].op = "idle"
  /\ IF new.op \in {"ask", "activate"} THEN UNCHANGED starts
     ELSE starts < MaxStarts /\ starts' = starts + 1
  /\ request' = [request EXCEPT ![r] = new]

At(r, op, pc) == request[r].op = op /\ request[r].pc = pc
Moves(r, pc) == request' = [request EXCEPT ![r].pc = pc]
Ends(r) == request' = [request EXCEPT ![r] = Idle]

\* Request r becomes new, and those it crosses know.
Crosses(crossed, r, new) ==
  request' = [q \in Requests |->
    IF q = r THEN new ELSE IF q \in crossed THEN [request[q] EXCEPT !.over = TRUE] ELSE request[q]]
Of(op, e) == {q \in Requests : request[q].op = op /\ request[q].row = e}

-----------------------------------------------------------------------------
(* Employees: PUT and DELETE of the integration API, the forms of the console *)

EmailFree(email, self) == email = None \/ \A e \in Here \ {self} : person[e].email # email

\* The console asks first whether the identifier and the address are free, or
\* loads the row it edits; the API asks nothing.
ConsoleCreates(r) ==
  \E x \in Externals, input \in Inputs :
    /\ WithExternal(x) = {} /\ EmailFree(input.email, None)
    /\ Starts(r, [Idle EXCEPT !.op = "put", !.pc = "read", !.ext = x, !.input = input])
ConsoleUpdates(r) ==
  \E e \in Here, input \in Inputs :
    /\ EmailFree(input.email, e)
    /\ Starts(r, [Idle EXCEPT !.op = "put", !.pc = "read", !.ext = person[e].ext, !.input = input])
ApiPuts(r) ==
  \E x \in Externals, input \in Inputs :
    Starts(r, [Idle EXCEPT !.op = "put", !.pc = "read", !.ext = x, !.input = input])

PutStarts(r) ==
  /\ ConsoleCreates(r) \/ ConsoleUpdates(r) \/ ApiPuts(r)
  /\ UNCHANGED <<person, login, phone, devices, projects, open, selfRemove, codes, badges, guesses, overlaps, raced>>

\* Bug: the card is given whoever has it.
CardFreeAlways(card, x) == TRUE

CardFree(card, x) == card \in {None, Keep} \/ \A e \in Here : person[e].card = card => person[e].ext = x

\* The project, then the transaction's first read: the employee, the card's owner.
PutReads(r) ==
  LET q == request[r] IN
  /\ At(r, "put", "read")
  /\ IF q.input.project \in projects \cup {None, Keep} /\ CardFree(q.input.card, q.ext)
     THEN request' = [request EXCEPT ![r].pc = "write",
                        ![r].row = IF WithExternal(q.ext) = {} THEN None ELSE CHOOSE e \in WithExternal(q.ext) : TRUE]
     ELSE Ends(r)
  /\ UNCHANGED <<person, login, phone, devices, projects, open, selfRemove, codes, badges, starts, guesses, overlaps, raced>>

Put(old, x, input) ==
  [old EXCEPT !.row = "here", !.ext = x, !.active = input.active, !.valid = input.valid,
     !.email = input.email, !.rule = input.rule,
     !.card = IF input.card = Keep THEN @ ELSE input.card,
     !.project = IF input.project = Keep THEN @ ELSE input.project]

\* The card is being given by another request, too, past its read.
PutsCrossing(r, x, input) ==
  {c \in Cards : input.card = c /\ \E s \in Requests \ {r} :
                   At(s, "put", "write") /\ request[s].input.card = c /\ request[s].ext # x}

\* The row of a new person, unless the index refuses a second one; the row that
\* was found, unless it has gone.
PutWrites(r) ==
  LET q == request[r] IN
  /\ At(r, "put", "write")
  /\ \/ /\ q.row = None /\ WithExternal(q.ext) = {}
        /\ \E e \in Employees : person[e].row = "absent" /\ person' = [person EXCEPT ![e] = Put(@, q.ext, q.input)]
     \/ /\ q.row = None /\ WithExternal(q.ext) # {} /\ UNCHANGED person
     \/ /\ q.row # None
        /\ person' = IF person[q.row].row = "here" THEN [person EXCEPT ![q.row] = Put(@, q.ext, q.input)] ELSE person
  /\ raced' = raced \cup PutsCrossing(r, q.ext, q.input)
  /\ Crosses({s \in Requests : request[s].op = "project" /\ request[s].owns = q.input.project}, r, Idle)
  /\ UNCHANGED <<login, phone, devices, projects, open, selfRemove, codes, badges, starts, guesses, overlaps>>

\* The database cancels the transaction for a deadlock: it runs again.
PutRetries(r) ==
  /\ At(r, "put", "write") /\ Cardinality({s \in Requests : request[s].op = "put"}) > 1
  /\ request' = [request EXCEPT ![r].pc = "read", ![r].row = None]
  /\ UNCHANGED <<person, login, phone, devices, projects, open, selfRemove, codes, badges, starts, guesses, overlaps, raced>>

DeleteReads(r) ==
  /\ \E e \in Here : Starts(r, [Idle EXCEPT !.op = "delete", !.pc = "write", !.row = e])
  /\ UNCHANGED <<person, login, phone, devices, projects, open, selfRemove, codes, badges, guesses, overlaps, raced>>

DeleteCommits(r) ==
  LET e == request[r].row IN
  /\ At(r, "delete", "write")
  /\ person' = [person EXCEPT ![e] = [NewPerson EXCEPT !.row = "gone"]]
  /\ login' = [login EXCEPT ![e] = NoLogin]
  /\ devices' = [devices EXCEPT ![e] = {}]
  /\ guesses' = [guesses EXCEPT ![e] = 0] /\ overlaps' = [overlaps EXCEPT ![e] = 0]
  /\ Crosses(Of("register", e), r, Idle)
  /\ UNCHANGED <<phone, projects, open, selfRemove, codes, badges, starts, raced>>

Unused(j) == \A e \in Here : person[e].project # j

\* Nobody is on it: it goes in a second statement.
ProjectReads(r) ==
  /\ \E j \in projects : Unused(j) /\ Starts(r, [Idle EXCEPT !.op = "project", !.pc = "write", !.owns = j])
  /\ UNCHANGED <<person, login, phone, devices, projects, open, selfRemove, codes, badges, guesses, overlaps, raced>>

ProjectDeletes(r) ==
  LET j == request[r].owns IN
  /\ At(r, "project", "write")
  /\ projects' = projects \ {j}
  /\ raced' = IF request[r].over \/ \E s \in Requests : At(s, "put", "write") /\ request[s].input.project = j
              THEN raced \cup {j} ELSE raced
  /\ Ends(r)
  /\ UNCHANGED <<person, login, phone, devices, open, selfRemove, codes, badges, starts, guesses, overlaps>>

-----------------------------------------------------------------------------
(* Settings of the console, and time *)

AppsChange(e) ==
  /\ "settings" \in agenda
  /\ e \in Here /\ starts < MaxStarts /\ starts' = starts + 1
  /\ person' = [person EXCEPT ![e].accessOff = ~@]
  /\ UNCHANGED <<login, phone, devices, projects, open, selfRemove, request, codes, badges, guesses, overlaps, raced>>

DoorChanges ==
  /\ "settings" \in agenda
  /\ starts < MaxStarts /\ starts' = starts + 1
  /\ open' = ~open
  /\ UNCHANGED <<person, login, phone, devices, projects, selfRemove, request, codes, badges, guesses, overlaps, raced>>

SettingChanges ==
  /\ "settings" \in agenda
  /\ starts < MaxStarts /\ starts' = starts + 1
  /\ selfRemove' = ~selfRemove
  /\ UNCHANGED <<person, login, phone, devices, projects, open, request, codes, badges, guesses, overlaps, raced>>

\* validFrom or validUntil comes; the hour leaves or enters the rule's window.
TimePasses(e) ==
  /\ "settings" \in agenda
  /\ e \in Here /\ starts < MaxStarts /\ starts' = starts + 1
  /\ \/ person' = [person EXCEPT ![e].valid = ~@]
     \/ /\ person[e].rule # "none"
        /\ person' = [person EXCEPT ![e].rule = IF @ = "inside" THEN "outside" ELSE "inside"]
  /\ UNCHANGED <<login, phone, devices, projects, open, selfRemove, request, codes, badges, guesses, overlaps, raced>>

\* The ten minutes are over: no request takes that long.
WindowEnds(e) ==
  /\ login[e].open
  /\ \A r \in Requests : request[r].op = "ask" => request[r].row # e
  /\ login' = [login EXCEPT ![e].open = FALSE]
  /\ guesses' = [guesses EXCEPT ![e] = 0] /\ overlaps' = [overlaps EXCEPT ![e] = 0]
  /\ UNCHANGED <<person, phone, devices, projects, open, selfRemove, request, codes, badges, starts, raced>>

-----------------------------------------------------------------------------
(* The phone becomes a badge *)

ByEmail(m) == {e \in Here : person[e].active /\ person[e].email = m}

AskReads(r) ==
  /\ codes < MaxCodes
  /\ \E m \in Emails : \E e \in ByEmail(m) :
       /\ login[e].open => login[e].attempts < MaxAttempts
       /\ Starts(r, [Idle EXCEPT !.op = "ask", !.pc = "write", !.row = e, !.seen = login[e]])
  /\ UNCHANGED <<person, login, phone, devices, projects, open, selfRemove, codes, badges, guesses, overlaps, raced>>

\* Bug: a new code comes with new attempts.
CodeSetFresh(seen, code) == [code |-> code, open |-> TRUE, attempts |-> 0]

\* The count and the window are those of the read.
CodeSet(seen, code) == [code |-> code, open |-> TRUE, attempts |-> IF seen.open THEN seen.attempts ELSE 0]

AskWrites(r) ==
  LET q == request[r] IN
  /\ At(r, "ask", "write") /\ codes < MaxCodes
  /\ codes' = codes + 1
  /\ login' = IF q.row \in Here THEN [login EXCEPT ![q.row] = CodeSet(q.seen, codes + 1)] ELSE login
  /\ overlaps' = IF q.over THEN [overlaps EXCEPT ![q.row] = @ + 1] ELSE overlaps
  /\ Ends(r)
  /\ UNCHANGED <<person, phone, devices, projects, open, selfRemove, badges, starts, guesses, raced>>

ActivateReads(r) ==
  /\ badges < MaxBadges
  /\ \E m \in Emails, p \in Phones, guess \in 0..codes : \E e \in ByEmail(m) :
       /\ login[e].open /\ login[e].code # 0
       /\ Starts(r, [Idle EXCEPT !.op = "activate", !.pc = "take", !.row = e, !.phone = p,
                                 !.guess = guess, !.seen = login[e]])
  /\ UNCHANGED <<person, login, phone, devices, projects, open, selfRemove, codes, badges, guesses, overlaps, raced>>

\* Bug: the attempt is counted without the condition.
TakesOneAlways(e) == TRUE

TakesOne(e) == login[e].attempts < MaxAttempts

\* One attempt is taken, then the code is compared with the one that was read.
ActivateTakes(r) ==
  LET q == request[r] e == q.row IN
  /\ At(r, "activate", "take")
  /\ IF e \in Here /\ TakesOne(e)
     THEN /\ login' = [login EXCEPT ![e].attempts = @ + 1]
          /\ guesses' = [guesses EXCEPT ![e] = IF login[e].open THEN @ + 1 ELSE @]
          /\ Crosses(Of("ask", e), r, IF q.guess = q.seen.code THEN [q EXCEPT !.pc = "forget"] ELSE Idle)
     ELSE Ends(r) /\ UNCHANGED <<login, guesses>>
  /\ UNCHANGED <<person, phone, devices, projects, open, selfRemove, codes, badges, starts, overlaps, raced>>

\* The company account has confirmed the address.
ActivateBySso(r) ==
  /\ badges < MaxBadges /\ "sso" \in agenda
  /\ \E m \in Emails, p \in Phones : \E e \in ByEmail(m) :
       Starts(r, [Idle EXCEPT !.op = "activate", !.pc = "forget", !.row = e, !.phone = p])
  /\ UNCHANGED <<person, login, phone, devices, projects, open, selfRemove, codes, badges, guesses, overlaps, raced>>

\* Bug: the notices of the old phone stay.
IssueForgetsNothing(r) ==
  /\ At(r, "activate", "forget")
  /\ Moves(r, "store")
  /\ UNCHANGED <<person, login, phone, devices, projects, open, selfRemove, codes, badges, starts, guesses, overlaps, raced>>

IssueForgets(r) ==
  LET q == request[r] IN
  /\ At(r, "activate", "forget")
  /\ devices' = [devices EXCEPT ![q.row] = {}]
  /\ Crosses(Of("register", q.row), r, [q EXCEPT !.pc = "store"])
  /\ UNCHANGED <<person, login, phone, projects, open, selfRemove, codes, badges, starts, guesses, overlaps, raced>>

\* The new secrets; the phone may never get the answer.
IssueStores(r) ==
  LET q == request[r] e == q.row new == badges + 2 IN
  /\ At(r, "activate", "store") /\ badges < MaxBadges
  /\ badges' = badges + 1
  /\ IF e \in Here
     THEN /\ person' = [person EXCEPT ![e].secret = new]
          /\ login' = [login EXCEPT ![e] = NoLogin]
          /\ guesses' = [guesses EXCEPT ![e] = 0] /\ overlaps' = [overlaps EXCEPT ![e] = 0]
     ELSE UNCHANGED <<person, login, guesses, overlaps>>
  /\ \E arrives \in BOOLEAN :
       phone' = IF arrives THEN [phone EXCEPT ![q.phone] = [of |-> e, secret |-> new]] ELSE phone
  /\ Crosses(Of("register", e), r, Idle)
  /\ raced' = raced \cup {d[1] : d \in {d \in devices[e] : q.over}}
  /\ UNCHANGED <<devices, projects, open, selfRemove, codes, starts>>

-----------------------------------------------------------------------------
(* The badge leaves the phone *)

Revoked(e) == person' = IF e \in Here THEN [person EXCEPT ![e].secret = 0] ELSE person

\* From the console: two statements.
RevokePhone(r) ==
  /\ \E e \in Here :
       /\ "revoke" \in agenda /\ request[r].op = "idle" /\ starts < MaxStarts /\ starts' = starts + 1
       /\ Revoked(e)
       /\ Crosses(Of("register", e), r, [Idle EXCEPT !.op = "revoke", !.pc = "forget", !.row = e])
  /\ UNCHANGED <<login, phone, devices, projects, open, selfRemove, codes, badges, guesses, overlaps, raced>>

RevokeForgets(r) ==
  LET e == request[r].row IN
  /\ At(r, "revoke", "forget")
  /\ devices' = [devices EXCEPT ![e] = {}]
  /\ Ends(r)
  /\ UNCHANGED <<person, login, phone, projects, open, selfRemove, codes, badges, starts, guesses, overlaps, raced>>

\* EmployeeAppGuard: the token of the badge, an active employee, in the period.
Passes(p) ==
  LET e == phone[p].of IN
  e # None /\ e \in Here /\ phone[p].secret # 0 /\ person[e].secret = phone[p].secret
  /\ person[e].active /\ person[e].valid

RemoveStarts(r) ==
  /\ \E p \in Phones :
       /\ Passes(p)
       /\ Starts(r, [Idle EXCEPT !.op = "remove", !.pc = "write", !.row = phone[p].of, !.phone = p])
  /\ UNCHANGED <<person, login, phone, devices, projects, open, selfRemove, codes, badges, guesses, overlaps, raced>>

\* The phone forgets its secrets when the answer comes, or without one.
RemoveCommits(r) ==
  LET q == request[r] IN
  /\ At(r, "remove", "write")
  /\ IF selfRemove
     THEN /\ Revoked(q.row)
          /\ devices' = [devices EXCEPT ![q.row] = {}]
          /\ phone' \in {phone, [phone EXCEPT ![q.phone] = [of |-> None, secret |-> 0]]}
          /\ Crosses(Of("register", q.row), r, Idle)
     ELSE Ends(r) /\ UNCHANGED <<person, devices, phone>>
  /\ UNCHANGED <<login, projects, open, selfRemove, codes, badges, starts, guesses, overlaps, raced>>

RegisterStarts(r) ==
  /\ \E p \in Phones :
       /\ Passes(p)
       /\ Starts(r, [Idle EXCEPT !.op = "register", !.pc = "write", !.row = phone[p].of, !.phone = p,
                                 !.owns = phone[p].secret])
  /\ UNCHANGED <<person, login, phone, devices, projects, open, selfRemove, codes, badges, guesses, overlaps, raced>>

\* The old row of this device goes, whoever's it was.  An activation may be
\* between its two statements: it is crossed.
RegisterWrites(r) ==
  LET q == request[r] IN
  /\ At(r, "register", "write")
  /\ devices' = [e \in Employees |-> {d \in devices[e] : d[1] # q.phone} \cup {d \in {<<q.phone, q.owns>>} : e = q.row}]
  /\ raced' = IF q.over THEN raced \cup {q.phone} ELSE raced
  /\ Crosses(Of("activate", q.row), r, Idle)
  /\ UNCHANGED <<person, login, phone, projects, open, selfRemove, codes, badges, starts, guesses, overlaps>>

Unregister(p) ==
  /\ Passes(p) /\ \E d \in devices[phone[p].of] : d[1] = p
  /\ devices' = [devices EXCEPT ![phone[p].of] = {d \in @ : d[1] # p}]
  /\ UNCHANGED <<person, login, phone, projects, open, selfRemove, request, codes, badges, starts, guesses, overlaps, raced>>

-----------------------------------------------------------------------------
(* At the door *)

\* Bug: the identifier in the QR is enough.
SignedByAnyone(e, secret) == person[e].secret # 0

Signed(e, secret) == person[e].secret = secret

Allowed(e) == person[e].active /\ ~person[e].accessOff /\ person[e].valid

\* The employee of the QR or of the card, as the row is now; a QR of another
\* half minute, or of no phone, is refused with nothing else to read.
VerifyReads(r) ==
  /\ \E e \in Here :
       \/ \E p \in Phones, steps \in -2..2 :
            /\ phone[p].of = e /\ phone[p].secret # 0 /\ Signed(e, phone[p].secret)
            /\ Starts(r, [Idle EXCEPT !.op = "verify", !.row = e, !.owns = phone[p].secret,
                                      !.pc = IF steps \in -1..1 /\ Allowed(e) THEN "door" ELSE "denied"])
       \/ \E c \in Cards :
            /\ person[e].card = c
            /\ Starts(r, [Idle EXCEPT !.op = "verify", !.row = e, !.owns = c,
                                      !.pc = IF Allowed(e) THEN "door" ELSE "denied"])
  /\ UNCHANGED <<person, login, phone, devices, projects, open, selfRemove, codes, badges, guesses, overlaps, raced>>

VerifyDoor(r) ==
  /\ At(r, "verify", "door")
  /\ Moves(r, IF open THEN "rules" ELSE "denied")
  /\ UNCHANGED <<person, login, phone, devices, projects, open, selfRemove, codes, badges, starts, guesses, overlaps, raced>>

\* A person deleted meanwhile has no rules.
VerifyRules(r) ==
  /\ At(r, "verify", "rules")
  /\ Moves(r, IF person[request[r].row].rule = "inside" THEN "granted" ELSE "denied")
  /\ UNCHANGED <<person, login, phone, devices, projects, open, selfRemove, codes, badges, starts, guesses, overlaps, raced>>

\* The event is written and the reader answers.
VerifyEnds(r) ==
  /\ request[r].op = "verify" /\ request[r].pc \in {"granted", "denied"}
  /\ Ends(r)
  /\ UNCHANGED <<person, login, phone, devices, projects, open, selfRemove, codes, badges, starts, guesses, overlaps, raced>>

-----------------------------------------------------------------------------
(* The system *)

RequestStep(r) ==
  \/ PutStarts(r) \/ PutReads(r) \/ PutWrites(r) \/ PutRetries(r) \/ DeleteReads(r) \/ DeleteCommits(r)
  \/ ProjectReads(r) \/ ProjectDeletes(r)
  \/ AskReads(r) \/ AskWrites(r) \/ ActivateReads(r) \/ ActivateTakes(r) \/ ActivateBySso(r)
  \/ IssueForgets(r) \/ IssueStores(r)
  \/ RevokePhone(r) \/ RevokeForgets(r) \/ RemoveStarts(r) \/ RemoveCommits(r)
  \/ RegisterStarts(r) \/ RegisterWrites(r)
  \/ VerifyReads(r) \/ VerifyDoor(r) \/ VerifyRules(r) \/ VerifyEnds(r)

Step ==
  \/ \E r \in Requests : RequestStep(r)
  \/ \E e \in Employees : AppsChange(e) \/ TimePasses(e) \/ WindowEnds(e)
  \/ \E p \in Phones : Unregister(p)
  \/ DoorChanges \/ SettingChanges

\* What is true now of the person a verification is about.
Holds(r) ==
  LET q == request[r] p == person[q.row] IN
  IF q.op # "verify" THEN {}
  ELSE {f \in Facts : CASE f = "row" -> p.row = "here"
                         [] f = "credential" -> q.owns \in {p.secret, p.card}
                         [] f = "active" -> p.active
                         [] f = "app" -> ~p.accessOff
                         [] f = "valid" -> p.valid
                         [] f = "door" -> open
                         [] f = "rule" -> p.rule = "inside"}

Remembers == held' = [r \in Requests |-> Holds(r)' \cup (IF request[r].op = "verify" /\ request'[r].op = "verify" THEN held[r] ELSE {})]

Next == Step /\ Remembers /\ UNCHANGED agenda

Spec == Init /\ [][Next]_vars

-----------------------------------------------------------------------------
(* Properties *)

\* Codes are guessed at most MaxAttempts times in a window of ten minutes,
\* however many codes are asked for; a request for a code that crosses a guess
\* may give the attempts back, once.
GuessesBounded == \A e \in Employees : guesses[e] <= MaxAttempts * (1 + overlaps[e])

\* Two people have one card only if two requests were giving it at once, and an
\* employee is on a project that is gone only if its deletion crossed the request
\* that put the employee there.
WhatIsShared ==
  /\ \A e, f \in Here : e # f /\ person[e].card = person[f].card => person[e].card \in raced \cup {None}
  /\ \A e \in Here : person[e].project \in projects \cup raced \cup {None}

\* A phone whose badge was replaced or revoked gets no notices, unless it was
\* registering as that happened.
NoticesFollowBadge ==
  \A e \in Employees : \A d \in devices[e] :
    \/ person[e].secret = d[2] \/ d[1] \in raced
    \/ \E r \in Requests : At(r, "revoke", "forget") /\ request[r].row = e

\* The door opens only when each thing that is asked of a person was true at some
\* time while the reader waited: the badge was theirs and not revoked, they were
\* employed, in their period, with the app on, the door in use, a rule for now.
GrantedHeld == \A r \in Requests : At(r, "verify", "granted") => held[r] = Facts
=============================================================================
