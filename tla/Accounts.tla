------------------------------ MODULE Accounts ------------------------------
(***************************************************************************)
(* The accounts of the console: sign-in with a password, the second        *)
(* factor, sessions, single sign-on with the organisation's directory, and *)
(* the administrators who change all of these for one another.             *)
(*                                                                         *)
(* A request stops at its awaits: between the row it read and the UPDATE   *)
(* it makes of it the others go on.  What a request relies on is in its    *)
(* field reads; a write by another request to one of these facts is noted  *)
(* in its field over, and when it then writes nevertheless the facts enter *)
(* the history variable crossed.                                           *)
(*                                                                         *)
(* A definition under a "Bug:" comment is not part of the specification:   *)
(* it is the definition that follows with a plausible mistake in it, which *)
(* the properties must notice.                                             *)
(***************************************************************************)
EXTENDS Integers, FiniteSets

CONSTANTS
  Requests,     \* requests that may be in progress at the same time
  Users,        \* rows of the table users
  Browsers,     \* browsers, and the phone app that activates a badge
  Directories,  \* Entra tenants and Workspace domains
  Attempts,     \* rows of the table sso_requests, each is used once
  None,         \* null
  Agendas,      \* the kinds of requests of a behaviour, how many there are, and
                \* how many accounts there are at first
  MaxFailed,    \* maxFailedLogins
  MaxUsers,     \* the plan's limit
  MaxStep       \* bound on the clock of the codes

Kinds == {"login", "mfa", "setup", "enable", "codes", "disable", "logout", "password", "reset", "resetMfa",
          "update", "sites", "create", "enforce", "unlink", "sso", "link", "badge"}

ASSUME AccountsAssumption ==
  /\ IsFiniteSet(Users) /\ Directories # {}
  /\ None \notin Users \cup Browsers \cup Directories \cup Attempts
  /\ Agendas \subseteq [kinds : SUBSET Kinds, starts : Nat, staff : 1..Cardinality(Users)]
  /\ {MaxFailed, MaxUsers} \subseteq Nat \ {0} /\ MaxStep \in Nat

VARIABLES
  agenda,    \* the requests of this behaviour
  user,      \* table users
  tenant,    \* the organisation's row
  tokens,    \* every session token and every ticket to the second step, signed so far
  attempt,   \* table sso_requests
  request,   \* the requests
  step,      \* the clock of the codes
  starts,
  fresh,     \* secrets and recovery codes drawn so far
  ended,     \* session tokens that have been refused for their version (history)
  missed,    \* wrong passwords and codes compared since a success (history)
  proven,    \* the secret a first code confirmed (history)
  accepted,  \* codes that opened a second step, and how often (history)
  opened,    \* what each attempt opened, and where (history)
  overlaps,  \* writes of a count of failures that was no longer the one read (history)
  crossed    \* facts somebody wrote while another request relied on them (history)

vars == <<agenda, user, tenant, tokens, attempt, request, step, starts, fresh, ended, missed, proven,
          accepted, opened, overlaps, crossed>>

-----------------------------------------------------------------------------
(* Types and initial state *)

\* locked: lockedUntil is in the future; pw: which password passwordHash is of;
\* last: mfaLastStep, -1 for null; recovery: the unused codes.
User ==
  [row : {"absent", "here"}, active : BOOLEAN, super : BOOLEAN, exempt : BOOLEAN, sv : Nat, pw : Nat,
   must : BOOLEAN, failed : 0..(MaxFailed - 1), locked : BOOLEAN, on : BOOLEAN, secret : Nat, last : -1..(MaxStep + 1),
   recovery : SUBSET Nat, subject : Directories \cup {None}]

Tenant == [enforced : BOOLEAN, dir : Directories \cup {None}, mfaRequired : BOOLEAN]

Token == [user : Users, sv : Nat, typ : {"session", "sso", "mfa"}, pw : Nat]

\* dir, who: what the provider confirmed; None in who: an error; for a link or a
\* badge it does not matter which account of the console it was.
Attempt ==
  [state : {"unused", "begun", "handed", "gone"}, mode : {"sso", "link", "badge", None}, browser : Browsers \cup {None},
   admin : Users \cup {None}, dir : Directories \cup {None}, who : Users \cup {None, "somebody"}]

Facts == ({"failed", "version", "factor", "subject", "row"} \X Users) \cup ({"admins", "users", "directory"} \X {None})

\* What the form of a user may say.
Changes == {"name", "demote", "promote", "sites", "off", "on", "exempt", "required"}

Codes == [secret : Nat, step : 0..(MaxStep + 1)]
NoCode == [secret |-> 0, step |-> 0]

\* found: the directory and the account the provider has confirmed.
Request ==
  [op : Kinds \cup {"idle", "callback", "finish"},
   pc : {"idle", "read", "check", "write", "factor", "won", "lost", "users"},
   of : Users \cup {None}, me : Users \cup {None}, seen : User, reads : SUBSET Facts, over : SUBSET Facts,
   attempt : Attempts \cup {None}, browser : Browsers \cup {None}, code : Codes, good : BOOLEAN,
   says : Changes \cup {"required", "free", "mfa", None},
   found : (Directories \cup {None}) \X (Users \cup {None, "somebody"})]

TypeOK ==
  /\ agenda \in Agendas
  /\ user \in [Users -> User] /\ tenant \in Tenant
  /\ tokens \subseteq Token /\ ended \subseteq tokens
  /\ attempt \in [Attempts -> Attempt]
  /\ request \in [Requests -> Request] /\ \A r \in Requests : request[r].over \subseteq request[r].reads
  /\ step \in 0..MaxStep /\ starts \in 0..agenda.starts /\ fresh \in Nat
  /\ missed \in [Users -> Nat] /\ overlaps \in [Users -> Nat] /\ proven \in [Users -> Nat]
  /\ DOMAIN accepted \subseteq Users \X Codes /\ accepted \in [DOMAIN accepted -> Nat]
  /\ opened \in [Attempts -> [Browsers -> Nat]]
  /\ crossed \subseteq Facts

NoUser == [row |-> "absent", active |-> FALSE, super |-> FALSE, exempt |-> FALSE, sv |-> 0, pw |-> 0, must |-> TRUE,
           failed |-> 0, locked |-> FALSE, on |-> FALSE, secret |-> 0, last |-> -1, recovery |-> {}, subject |-> None]

NoAttempt == [state |-> "unused", mode |-> None, browser |-> None, admin |-> None, dir |-> None, who |-> None]

Idle == [op |-> "idle", pc |-> "idle", of |-> None, me |-> None, seen |-> NoUser, reads |-> {}, over |-> {},
         attempt |-> None, browser |-> None, code |-> NoCode, good |-> FALSE, says |-> None, found |-> <<None, None>>]

\* Every account of the staff administers and is an emergency account; where
\* the second factor matters it is already set up.  Where the directory does,
\* one is linked, everybody has signed in with it and it is required.
Init ==
  /\ agenda \in Agendas
  /\ \E Staff \in {S \in SUBSET Users : Cardinality(S) = agenda.staff} :
     LET directory == agenda.kinds \cap {"enforce", "unlink", "sso", "link"} # {}
         factor == agenda.kinds \cap {"mfa", "disable"} # {}
         d == CHOOSE x \in Directories : TRUE
         at == [user : Staff, sv : {1}, typ : {IF directory THEN "sso" ELSE "session"}, pw : {1}]
     IN /\ tokens = at
        /\ tenant = [enforced |-> directory, dir |-> IF directory THEN d ELSE None, mfaRequired |-> FALSE]
        /\ user = [u \in Users |-> IF u \notin Staff THEN NoUser ELSE
             [NoUser EXCEPT !.row = "here", !.active = TRUE, !.super = TRUE, !.exempt = TRUE, !.sv = 1, !.pw = 1, !.must = FALSE,
               !.subject = IF directory THEN d ELSE None,
               !.on = factor, !.secret = IF factor THEN 1 ELSE 0, !.recovery = IF factor THEN {2, 3} ELSE {}]]
        /\ fresh = IF factor THEN 3 ELSE 0
        /\ proven = [u \in Users |-> IF factor /\ u \in Staff THEN 1 ELSE 0]
  /\ attempt = [a \in Attempts |-> NoAttempt]
  /\ request = [r \in Requests |-> Idle]
  /\ step = 0 /\ starts = 0 /\ ended = {}
  /\ missed = [u \in Users |-> 0] /\ overlaps = [u \in Users |-> 0]
  /\ accepted = [x \in {} |-> 0] /\ crossed = {}
  /\ opened = [a \in Attempts |-> [b \in Browsers |-> 0]]

-----------------------------------------------------------------------------
(* Requests *)

Start(r, op, q) ==
  /\ op \in agenda.kinds /\ request[r].op = "idle" /\ starts < agenda.starts
  /\ starts' = starts + 1
  /\ request' = [request EXCEPT ![r] = [q EXCEPT !.op = op]]

At(r, op, pc) == request[r].op = op /\ request[r].pc = pc

\* The request goes on, or ends, without having written anything.
Goes(r, pc) == request' = [request EXCEPT ![r].pc = pc]
Ends(r) == request' = [request EXCEPT ![r] = Idle]

\* The request writes the facts ws; those who relied on them are overtaken.
Overtaken(r, ws) == [q \in Requests |->
  IF q = r THEN request[q] ELSE [request[q] EXCEPT !.over = @ \cup (request[q].reads \cap ws)]]

Writes(r, ws, next) ==
  /\ request' = [Overtaken(r, ws) EXCEPT ![r] = next]
  /\ crossed' = crossed \cup request[r].over
  /\ overlaps' = [u \in Users |-> overlaps[u] + (IF <<"failed", u>> \in request[r].over THEN 1 ELSE 0)]

\* A version that moves on refuses the tokens that carry another.
Refused(rows) == {t \in tokens : rows[t.user].sv # t.sv}
UserBecomes(rows) ==
  /\ user' = rows
  /\ ended' = ended \cup {t \in Refused(rows) : t.typ # "mfa"}

Valid(t) == user[t.user].active /\ user[t.user].sv = t.sv

\* Who passes AdminAuthGuard; a password to change or a factor to set up lets
\* only the routes through that are for it.
Signed(u) == {t \in tokens : t.user = u /\ t.typ # "mfa" /\ Valid(t)}
Pending(t) == t.typ = "session" /\ (user[t.user].must \/ (tenant.mfaRequired /\ ~user[t.user].on))
SignedIn(u) == Signed(u) # {}
Free(u) == \E t \in Signed(u) : ~Pending(t)
Administers(u) == Free(u) /\ user[u].super

Here == {u \in Users : user[u].row = "here"}
Active == {u \in Here : user[u].active}
EmergencyAdmins == {u \in Active : user[u].super /\ user[u].exempt}
WithinPlan == Cardinality(Active) < MaxUsers

-----------------------------------------------------------------------------
(* Signing in with a password *)

\* Bug: the count is kept with the lock, so that it never starts again.
FailAttemptLate(u, seen) == LET failed == seen.failed + 1 IN
  IF failed > MaxFailed THEN [user EXCEPT ![u].failed = 0, ![u].locked = TRUE]
  ELSE [user EXCEPT ![u].failed = failed, ![u].locked = FALSE]

\* A wrong password or code: counted on the row that was read.
FailAttempt(u, seen) == LET failed == seen.failed + 1 IN
  IF failed >= MaxFailed THEN [user EXCEPT ![u].failed = 0, ![u].locked = TRUE]
  ELSE [user EXCEPT ![u].failed = failed, ![u].locked = FALSE]

\* The session of a user as it was read: a version that has moved on since
\* makes the token useless at once.
OpensSession(r, seen, typ, rows) == LET u == request[r].of IN
  /\ UserBecomes([rows EXCEPT ![u].failed = 0, ![u].locked = FALSE])
  /\ tokens' = tokens \cup {[user |-> u, sv |-> seen.sv, typ |-> typ, pw |-> seen.pw]}
  /\ missed' = [missed EXCEPT ![u] = 0]
  /\ Writes(r, {<<"failed", u>>, <<"subject", u>>}, Idle)

Fails(r) == LET u == request[r].of IN
  /\ UserBecomes(FailAttempt(u, request[r].seen))
  /\ missed' = [missed EXCEPT ![u] = @ + 1]
  /\ Writes(r, {<<"failed", u>>}, Idle)

\* The password is compared with the hash of the row, right or wrong (good).
LoginReads(r) == \E u \in Here, good \in BOOLEAN :
  /\ Start(r, "login", [Idle EXCEPT !.pc = "check", !.of = u, !.seen = user[u], !.good = good, !.reads = {<<"failed", u>>}])
  /\ UNCHANGED <<agenda, user, tenant, tokens, attempt, step, fresh, ended, missed, proven, accepted, opened, overlaps, crossed>>

PasswordAllowed(seen) == seen.exempt \/ ~tenant.enforced \/ tenant.dir = None

LoginFails(r) == LET q == request[r] IN
  /\ At(r, "login", "check") /\ ~q.seen.locked /\ ~q.good
  /\ Fails(r)
  /\ UNCHANGED <<agenda, tenant, tokens, attempt, step, starts, fresh, proven, accepted, opened>>

LoginRefused(r) == LET q == request[r] IN
  /\ At(r, "login", "check")
  /\ \/ q.seen.locked
     \/ q.good /\ (~q.seen.active \/ ~PasswordAllowed(q.seen))
  /\ Ends(r)
  /\ UNCHANGED <<agenda, user, tenant, tokens, attempt, step, starts, fresh, ended, missed, proven, accepted, opened, overlaps, crossed>>

LoginPasses(r) == LET q == request[r] IN
  At(r, "login", "check") /\ ~q.seen.locked /\ q.seen.active /\ q.good /\ PasswordAllowed(q.seen)

\* With a second factor the password opens nothing but a ticket.
LoginTickets(r) == LET q == request[r] IN
  /\ LoginPasses(r) /\ q.seen.on
  /\ tokens' = tokens \cup {[user |-> q.of, sv |-> q.seen.sv, typ |-> "mfa", pw |-> q.seen.pw]}
  /\ Ends(r)
  /\ UNCHANGED <<agenda, user, tenant, attempt, step, starts, fresh, ended, missed, proven, accepted, opened, overlaps, crossed>>

LoginOpens(r) == LET q == request[r] IN
  /\ LoginPasses(r) /\ ~q.seen.on
  /\ OpensSession(r, q.seen, "session", user)
  /\ UNCHANGED <<agenda, tenant, attempt, step, starts, fresh, proven, accepted, opened>>

\* lockMinutes go by.
LockEnds(u) ==
  /\ user[u].locked /\ \A r \in Requests : request[r].of # u
  /\ user' = [user EXCEPT ![u].locked = FALSE] /\ missed' = [missed EXCEPT ![u] = 0]
  /\ UNCHANGED <<agenda, tenant, tokens, attempt, request, step, starts, fresh, ended, proven, accepted, opened, overlaps, crossed>>

-----------------------------------------------------------------------------
(* The second factor *)

\* Codes somebody may type: any secret that was ever shown, a step of drift.
Typed == {NoCode} \cup [secret : 1..fresh, step : {s \in {step - 1, step, step + 1} : s >= 0}]

\* verifyTotp, and the look for a recovery code.
Totp(seen, c) == c.secret # 0 /\ c.secret = seen.secret /\ c.step \in (step - 1)..(step + 1) /\ c.step > seen.last
Recovery(seen, c) == c.secret \in seen.recovery /\ c.step = 0

FactorFacts(u) == {<<"factor", u>>, <<"failed", u>>}

MfaReads(r) == \E t \in tokens, c \in Typed : LET u == t.user IN
  /\ t.typ = "mfa" /\ Valid(t) /\ user[u].on /\ ~user[u].locked
  /\ Start(r, "mfa", [Idle EXCEPT !.pc = "factor", !.of = u, !.seen = user[u], !.code = c, !.reads = FactorFacts(u)])
  /\ UNCHANGED <<agenda, user, tenant, tokens, attempt, step, fresh, ended, missed, proven, accepted, opened, overlaps, crossed>>

\* The guard's look at the account comes before the handler's; who may pass it
\* with a password to change or a factor to set up: those who set it up.
OwnStarts(r, op, who) == \E u \in who, c \in Typed :
  /\ Start(r, op, [Idle EXCEPT !.pc = "read", !.of = u, !.me = u, !.code = IF op = "setup" THEN NoCode ELSE c,
                   !.reads = IF op = "setup" THEN {<<"factor", u>>} ELSE {}])
  /\ UNCHANGED <<agenda, user, tenant, tokens, attempt, step, fresh, ended, missed, proven, accepted, opened, overlaps, crossed>>

WithoutFactor == {u \in Users : SignedIn(u) /\ ~user[u].on}
SetupStarts(r) == OwnStarts(r, "setup", WithoutFactor)
EnableStarts(r) == OwnStarts(r, "enable", WithoutFactor)
CodesStarts(r) == OwnStarts(r, "codes", {u \in Users : Free(u)})
DisableStarts(r) == ~tenant.mfaRequired /\ OwnStarts(r, "disable", {u \in Users : Free(u)})

OwnReads(r) == LET q == request[r] now == user[q.of] IN
  /\ q.op \in {"enable", "codes", "disable"} /\ q.pc = "read"
  /\ LET fits == IF q.op = "enable" THEN now.secret # 0 ELSE now.on IN
     request' = [request EXCEPT ![r] = IF fits THEN [q EXCEPT !.pc = "factor", !.seen = now, !.reads = {<<"factor", q.of>>}] ELSE Idle]
  /\ UNCHANGED <<agenda, user, tenant, tokens, attempt, step, starts, fresh, ended, missed, proven, accepted, opened, overlaps, crossed>>

\* Bug: the code is looked for and spent by a plain UPDATE.
SpendsAgain(u, seen, c) == Totp(seen, c) \/ Recovery(seen, c)

\* checkSecondFactor: what the row it read says of the code, then the
\* conditional UPDATE that spends it.
Spends(u, seen, c) ==
  IF Totp(seen, c) THEN user[u].last < c.step
  ELSE Recovery(seen, c) /\ user[u].recovery = seen.recovery
Spent(u, seen, c) ==
  IF Totp(seen, c) THEN [user EXCEPT ![u].last = c.step]
  ELSE [user EXCEPT ![u].recovery = seen.recovery \ {c.secret}]

Accept(u, c) == [x \in DOMAIN accepted \cup {<<u, c>>} |->
  (IF x \in DOMAIN accepted THEN accepted[x] ELSE 0) + (IF x = <<u, c>> THEN 1 ELSE 0)]

\* Only a code of the app confirms a secret or draws new recovery codes.
FactorUsed(r) == LET q == request[r] u == q.of IN
  /\ q.pc = "factor" /\ Spends(u, q.seen, q.code)
  /\ user' = Spent(u, q.seen, q.code)
  /\ accepted' = Accept(u, q.code)
  /\ Goes(r, IF q.op \in {"enable", "codes"} /\ ~Totp(q.seen, q.code) THEN "lost" ELSE "won")
  /\ crossed' = crossed \cup (q.over \cap {<<"factor", u>>})
  /\ UNCHANGED <<agenda, tenant, tokens, attempt, step, starts, fresh, ended, missed, proven, opened, overlaps>>

FactorRefused(r) == LET q == request[r] IN
  /\ q.pc = "factor" /\ ~Spends(q.of, q.seen, q.code)
  /\ Goes(r, "lost")
  /\ UNCHANGED <<agenda, user, tenant, tokens, attempt, step, starts, fresh, ended, missed, proven, accepted, opened, overlaps, crossed>>

MfaFails(r) ==
  /\ At(r, "mfa", "lost") /\ Fails(r)
  /\ UNCHANGED <<agenda, tenant, tokens, attempt, step, starts, fresh, proven, accepted, opened>>

MfaOpens(r) ==
  /\ At(r, "mfa", "won") /\ OpensSession(r, request[r].seen, "session", user)
  /\ UNCHANGED <<agenda, tenant, attempt, step, starts, fresh, proven, accepted, opened>>

\* On the other routes a wrong code is an error and no more.
OwnRefused(r) ==
  /\ request[r].op \in {"enable", "codes", "disable"} /\ request[r].pc = "lost"
  /\ Ends(r)
  /\ UNCHANGED <<agenda, user, tenant, tokens, attempt, step, starts, fresh, ended, missed, proven, accepted, opened, overlaps, crossed>>

SetupWrites(r) == LET u == request[r].of IN
  /\ At(r, "setup", "read")
  /\ user' = [user EXCEPT ![u].secret = fresh + 1, ![u].last = -1, ![u].recovery = {}]
  /\ fresh' = fresh + 1
  /\ Writes(r, {<<"factor", u>>}, Idle)
  /\ UNCHANGED <<agenda, tenant, tokens, attempt, step, starts, ended, missed, proven, accepted, opened>>

EnableWrites(r) == LET q == request[r] u == q.of IN
  /\ At(r, "enable", "won")
  /\ user' = [user EXCEPT ![u].on = TRUE, ![u].recovery = {fresh + 1, fresh + 2}]
  /\ fresh' = fresh + 2 /\ proven' = [proven EXCEPT ![u] = q.code.secret]
  /\ Writes(r, {<<"factor", u>>}, Idle)
  /\ UNCHANGED <<agenda, tenant, tokens, attempt, step, starts, ended, missed, accepted, opened>>

CodesWrites(r) == LET u == request[r].of IN
  /\ At(r, "codes", "won")
  /\ user' = [user EXCEPT ![u].recovery = {fresh + 1, fresh + 2}] /\ fresh' = fresh + 2
  /\ Writes(r, {<<"factor", u>>}, Idle)
  /\ UNCHANGED <<agenda, tenant, tokens, attempt, step, starts, ended, missed, proven, accepted, opened>>

NoFactor(u) == [user EXCEPT ![u].on = FALSE, ![u].secret = 0, ![u].last = -1, ![u].recovery = {}]

DisableWrites(r) == LET u == request[r].of IN
  /\ At(r, "disable", "won")
  /\ user' = NoFactor(u)
  /\ Writes(r, {<<"factor", u>>}, Idle)
  /\ UNCHANGED <<agenda, tenant, tokens, attempt, step, starts, fresh, ended, missed, proven, accepted, opened>>

\* Thirty seconds go by.
Ticks ==
  /\ step < MaxStep /\ step' = step + 1
  /\ UNCHANGED <<agenda, user, tenant, tokens, attempt, request, starts, fresh, ended, missed, proven, accepted, opened, overlaps, crossed>>

-----------------------------------------------------------------------------
(* Sessions end *)

Logout(r) == \E u \in Users :
  /\ SignedIn(u) /\ Start(r, "logout", [Idle EXCEPT !.pc = "write", !.of = u, !.me = u])
  /\ UNCHANGED <<agenda, user, tenant, tokens, attempt, step, fresh, ended, missed, proven, accepted, opened, overlaps, crossed>>

LogoutWrites(r) == LET u == request[r].of IN
  /\ At(r, "logout", "write")
  /\ UserBecomes([user EXCEPT ![u].sv = @ + 1])
  /\ Writes(r, {<<"version", u>>}, Idle)
  /\ UNCHANGED <<agenda, tenant, tokens, attempt, step, starts, fresh, missed, proven, accepted, opened>>

\* One's own password, the old one given right; somebody's, by an administrator.
PasswordReads(r) == \E u \in Users :
  /\ SignedIn(u)
  /\ Start(r, "password", [Idle EXCEPT !.pc = "write", !.of = u, !.me = u, !.seen = user[u], !.reads = {<<"version", u>>}])
  /\ UNCHANGED <<agenda, user, tenant, tokens, attempt, step, fresh, ended, missed, proven, accepted, opened, overlaps, crossed>>

AdminReads(r, op) == \E me \in Users, u \in Here :
  /\ Administers(me) /\ (op = "resetMfa" => u # me)
  /\ Start(r, op, [Idle EXCEPT !.pc = "write", !.of = u, !.me = me, !.seen = user[u], !.reads = {<<"version", u>>}])
  /\ UNCHANGED <<agenda, user, tenant, tokens, attempt, step, fresh, ended, missed, proven, accepted, opened, overlaps, crossed>>

ResetReads(r) == AdminReads(r, "reset")
ResetMfaReads(r) == AdminReads(r, "resetMfa")

\* Bug: the version stays and the sessions go on.
SameVersion(seen) == seen.sv

NewVersion(seen) == seen.sv + 1

PasswordWrites(r) == LET q == request[r] u == q.of IN
  /\ At(r, "password", "write")
  /\ UserBecomes([user EXCEPT ![u].pw = @ + 1, ![u].must = FALSE, ![u].sv = NewVersion(q.seen)])
  /\ Writes(r, {<<"version", u>>}, Idle)
  /\ UNCHANGED <<agenda, tenant, tokens, attempt, step, starts, fresh, missed, proven, accepted, opened>>

\* A password set for somebody else unlocks the account.
WithPasswordSet(was, sv) == [was EXCEPT !.pw = @ + 1, !.must = TRUE, !.sv = sv, !.failed = 0, !.locked = FALSE]

ResetWrites(r) == LET q == request[r] u == q.of IN
  /\ At(r, "reset", "write")
  /\ UserBecomes([user EXCEPT ![u] = WithPasswordSet(@, NewVersion(q.seen))])
  /\ missed' = [missed EXCEPT ![u] = 0]
  /\ Writes(r, {<<"version", u>>, <<"failed", u>>}, Idle)
  /\ UNCHANGED <<agenda, tenant, tokens, attempt, step, starts, fresh, proven, accepted, opened>>

ResetMfaWrites(r) == LET q == request[r] u == q.of IN
  /\ At(r, "resetMfa", "write")
  /\ UserBecomes([NoFactor(u) EXCEPT ![u].sv = NewVersion(q.seen)])
  /\ Writes(r, {<<"version", u>>, <<"factor", u>>}, Idle)
  /\ UNCHANGED <<agenda, tenant, tokens, attempt, step, starts, fresh, missed, proven, accepted, opened>>

-----------------------------------------------------------------------------
(* Users *)

\* The row that will be saved whole: every column the query loaded.
Changed(seen, says) ==
  LET privilege == (says = "demote" /\ seen.super) \/ (says = "promote" /\ ~seen.super) \/ says \in {"sites", "off"} IN
  [seen EXCEPT !.super = (@ \/ says = "promote") /\ says # "demote",
               !.active = (@ \/ says = "on") /\ says # "off",
               !.exempt = (@ \/ says = "exempt") /\ says # "required",
               !.sv = IF privilege THEN @ + 1 ELSE @]

\* Everything the save writes back: the secret, the codes and the password are
\* not loaded, hence not saved.
Loaded(u) == {"failed", "version", "factor", "subject", "row"} \X {u}

LosesEmergency(row) == ~row.exempt \/ ~row.active \/ ~row.super

UpdateReads(r) == \E me \in Users, u \in Here, says \in Changes :
  /\ Administers(me) /\ ~(u = me /\ says \in {"demote", "off"})
  /\ Start(r, "update", [Idle EXCEPT !.pc = "check", !.of = u, !.me = me, !.seen = user[u], !.says = says,
                           !.reads = Loaded(u) \cup (IF says = "on" THEN {<<"users", None>>} ELSE {})
                                     \cup (IF LosesEmergency(Changed(user[u], says)) THEN {<<"admins", None>>} ELSE {})])
  /\ UNCHANGED <<agenda, user, tenant, tokens, attempt, step, fresh, ended, missed, proven, accepted, opened, overlaps, crossed>>

\* Bug: the one who goes is counted too.
MayLoseSelf(u) == EmergencyAdmins # {} \/ ~tenant.enforced

MayLose(u) == EmergencyAdmins \ {u} # {} \/ ~tenant.enforced

UpdateChecks(r) == LET q == request[r] next == Changed(q.seen, q.says) IN
  /\ At(r, "update", "check")
  /\ IF /\ q.says = "on" /\ ~q.seen.active => WithinPlan
        /\ LosesEmergency(next) => MayLose(q.of)
     THEN request' = [request EXCEPT ![r].pc = "write", ![r].seen = next]
     ELSE Ends(r)
  /\ UNCHANGED <<agenda, user, tenant, tokens, attempt, step, starts, fresh, ended, missed, proven, accepted, opened, overlaps, crossed>>

UpdateSaves(r) == LET q == request[r] u == q.of IN
  /\ At(r, "update", "write")
  /\ UserBecomes([user EXCEPT ![u] = [q.seen EXCEPT !.pw = user[u].pw, !.secret = user[u].secret, !.last = user[u].last,
                                                    !.recovery = user[u].recovery]])
  /\ Writes(r, Loaded(u) \cup {<<"users", None>>, <<"admins", None>>}, Idle)
  /\ UNCHANGED <<agenda, tenant, tokens, attempt, step, starts, fresh, missed, proven, accepted, opened>>

CreateReads(r) == \E me \in Users, u \in Users \ Here, super \in BOOLEAN :
  /\ Administers(me) /\ WithinPlan
  /\ Start(r, "create", [Idle EXCEPT !.pc = "write", !.of = u, !.me = me, !.good = super, !.reads = {<<"users", None>>}])
  /\ UNCHANGED <<agenda, user, tenant, tokens, attempt, step, fresh, ended, missed, proven, accepted, opened, overlaps, crossed>>

\* The unique index on the address refuses the second of two equal ones.
CreateSaves(r) == LET q == request[r] IN
  /\ At(r, "create", "write")
  /\ IF user[q.of].row = "here" THEN Ends(r) /\ UNCHANGED <<user, ended, overlaps, crossed>>
     ELSE /\ UserBecomes([user EXCEPT ![q.of] = [NoUser EXCEPT !.row = "here", !.active = TRUE, !.super = q.good, !.pw = 1]])
          /\ Writes(r, {<<"users", None>>}, Idle)
  /\ UNCHANGED <<agenda, tenant, tokens, attempt, step, starts, fresh, missed, proven, accepted, opened>>

-----------------------------------------------------------------------------
(* The organisation and its directory *)

\* Single sign-on is required by somebody who has just used it; the second
\* factor by somebody who has it.
OrganisationReads(r) == \E me \in Users, says \in {"required", "free", "mfa"} :
  /\ Administers(me)
  /\ says = "required" => /\ tenant.dir # None /\ EmergencyAdmins # {}
                          /\ \E t \in Signed(me) : t.typ = "sso"
  /\ says = "mfa" => user[me].on
  /\ Start(r, "enforce", [Idle EXCEPT !.pc = "write", !.me = me, !.says = says,
                          !.reads = IF says = "required" THEN {<<"admins", None>>, <<"directory", None>>} ELSE {}])
  /\ UNCHANGED <<agenda, user, tenant, tokens, attempt, step, fresh, ended, missed, proven, accepted, opened, overlaps, crossed>>

OrganisationWrites(r) == LET q == request[r] IN
  /\ At(r, "enforce", "write")
  /\ tenant' = IF q.says = "mfa" THEN [tenant EXCEPT !.mfaRequired = TRUE] ELSE [tenant EXCEPT !.enforced = q.says = "required"]
  /\ Writes(r, IF q.says = "required" THEN {<<"admins", None>>} ELSE {}, Idle)
  /\ UNCHANGED <<agenda, user, tokens, attempt, step, starts, fresh, ended, missed, proven, accepted, opened>>

Unlink(r) == \E me \in Users :
  /\ Administers(me) /\ Start(r, "unlink", [Idle EXCEPT !.pc = "write", !.me = me])
  /\ UNCHANGED <<agenda, user, tenant, tokens, attempt, step, fresh, ended, missed, proven, accepted, opened, overlaps, crossed>>

\* Two statements: the organisation, then its accounts.
UnlinkTenant(r) ==
  /\ At(r, "unlink", "write")
  /\ tenant' = [tenant EXCEPT !.dir = None, !.enforced = FALSE]
  /\ Writes(r, {<<"directory", None>>}, [request[r] EXCEPT !.pc = "users", !.reads = {<<"directory", None>>}])
  /\ UNCHANGED <<agenda, user, tokens, attempt, step, starts, fresh, ended, missed, proven, accepted, opened>>

Unbound == [u \in Users |-> [user[u] EXCEPT !.subject = None]]

UnlinkUsers(r) ==
  /\ At(r, "unlink", "users")
  /\ user' = Unbound
  /\ Writes(r, {"subject"} \X Users, Idle)
  /\ UNCHANGED <<agenda, tenant, tokens, attempt, step, starts, fresh, ended, missed, proven, accepted, opened>>

-----------------------------------------------------------------------------
(* Single sign-on *)

\* The attempt is bound to the browser that starts it (to the app, for a badge).
SsoBegins(op, a, b, admin) ==
  /\ op \in agenda.kinds /\ attempt[a].state = "unused"
  /\ attempt' = [attempt EXCEPT ![a] = [NoAttempt EXCEPT !.state = "begun", !.mode = op, !.browser = b, !.admin = admin]]
  /\ UNCHANGED <<agenda, user, tenant, tokens, request, step, starts, fresh, ended, missed, proven, accepted, opened, overlaps, crossed>>

SignInBegins(a, b) == tenant.dir # None /\ SsoBegins("sso", a, b, None)
BadgeBegins(a, b) == tenant.dir # None /\ SsoBegins("badge", a, b, None)
LinkBegins(a, b) == \E me \in Users : Administers(me) /\ SsoBegins("link", a, b, me)

\* Ten minutes.
SsoExpires(a) ==
  /\ attempt[a].state \in {"begun", "handed"}
  /\ attempt' = [attempt EXCEPT ![a].state = "gone"]
  /\ UNCHANGED <<agenda, user, tenant, tokens, request, step, starts, fresh, ended, missed, proven, accepted, opened, overlaps, crossed>>

Continues(r, op, a, b, pc) ==
  /\ request[r] = Idle
  /\ request' = [request EXCEPT ![r] = [Idle EXCEPT !.op = op, !.pc = pc, !.attempt = a, !.browser = b]]

\* The browser comes back from the provider, perhaps twice.
CallbackReads(r) == \E a \in Attempts :
  /\ attempt[a].state = "begun" /\ Continues(r, "callback", a, None, "read")
  /\ UNCHANGED <<agenda, user, tenant, tokens, attempt, step, starts, fresh, ended, missed, proven, accepted, opened, overlaps, crossed>>

\* Which account of which directory the provider and the checks of the token
\* let through; for a link any directory, else the organisation's.
Confirmed(a) == {<<None, None>>} \cup
  CASE attempt[a].mode = "link" -> Directories \X {"somebody"}
    [] attempt[a].mode = "badge" -> ({tenant.dir} \ {None}) \X {"somebody"}
    [] OTHER -> ({tenant.dir} \ {None}) \X Users

CallbackRedeems(r) == LET q == request[r] IN
  /\ At(r, "callback", "read")
  /\ \E found \in Confirmed(q.attempt) :
       request' = [request EXCEPT ![r].pc = "write", ![r].found = found]
  /\ UNCHANGED <<agenda, user, tenant, tokens, attempt, step, starts, fresh, ended, missed, proven, accepted, opened, overlaps, crossed>>

\* Conditional on no hand-off code yet; a row that is only out of time is
\* written, and not found again.
CallbackWrites(r) == LET q == request[r] a == q.attempt IN
  /\ At(r, "callback", "write")
  /\ attempt' = IF attempt[a].state = "begun"
                THEN [attempt EXCEPT ![a].state = "handed", ![a].dir = q.found[1], ![a].who = q.found[2]] ELSE attempt
  /\ Ends(r)
  /\ UNCHANGED <<agenda, user, tenant, tokens, step, starts, fresh, ended, missed, proven, accepted, opened, overlaps, crossed>>

\* Any browser that has got hold of the hand-off code.
FinishReads(r) == \E a \in Attempts, b \in Browsers :
  /\ attempt[a].state = "handed" /\ Continues(r, "finish", a, b, "read")
  /\ UNCHANGED <<agenda, user, tenant, tokens, attempt, step, starts, fresh, ended, missed, proven, accepted, opened, overlaps, crossed>>

\* Bug: the DELETE is not asked what it deleted.
DeletesAnyway(a) == TRUE

\* Whoever deletes the row first goes on, where the attempt began.
DeletesFirst(a) == attempt[a].state = "handed"

SameBrowser(a, b) == attempt[a].browser = b

\* Opens counts what the attempt opened: a session, a link or a badge.
Opens(a, b) == opened' = [opened EXCEPT ![a][b] = @ + 1]

FinishTakes(r) == LET q == request[r] a == q.attempt x == attempt[a] IN
  /\ At(r, "finish", "read")
  /\ attempt' = [attempt EXCEPT ![a].state = "gone"]
  /\ IF ~DeletesFirst(a) \/ ~SameBrowser(a, q.browser) \/ x.who = None THEN Ends(r) ELSE Goes(r, "check")
  /\ UNCHANGED <<agenda, user, tenant, tokens, step, starts, fresh, ended, missed, proven, accepted, opened, overlaps, crossed>>

\* One transaction.  Another directory: every account binds again, and nobody
\* has to use it yet.
LinkCommits(r) == LET q == request[r] x == attempt[q.attempt] IN
  /\ At(r, "finish", "check") /\ x.mode = "link"
  /\ IF user[x.admin].active /\ user[x.admin].super
     THEN /\ tenant' = [tenant EXCEPT !.dir = x.dir, !.enforced = @ /\ tenant.dir = x.dir]
          /\ user' = IF tenant.dir = x.dir THEN user ELSE Unbound
          /\ Opens(q.attempt, q.browser)
          /\ Writes(r, IF tenant.dir = x.dir THEN {} ELSE ({"subject"} \X Users) \cup {<<"directory", None>>}, Idle)
     ELSE Ends(r) /\ UNCHANGED <<tenant, user, opened, overlaps, crossed>>
  /\ UNCHANGED <<agenda, tokens, attempt, step, starts, fresh, ended, missed, proven, accepted>>

\* The link may have changed while the person was at the provider.
SameDirectory(a) == attempt[a].dir = tenant.dir

BadgeRedeems(r) == LET q == request[r] x == attempt[q.attempt] IN
  /\ At(r, "finish", "check") /\ x.mode = "badge"
  /\ IF SameDirectory(q.attempt) THEN Opens(q.attempt, q.browser) ELSE UNCHANGED opened
  /\ Ends(r)
  /\ UNCHANGED <<agenda, user, tenant, tokens, attempt, step, starts, fresh, ended, missed, proven, accepted, overlaps, crossed>>

\* The account of the address; one already bound to another directory account
\* is refused.
SignInReads(r) == LET q == request[r] x == attempt[q.attempt] u == x.who IN
  /\ At(r, "finish", "check") /\ x.mode = "sso"
  /\ request' = [request EXCEPT ![r] =
       IF SameDirectory(q.attempt) /\ user[u].row = "here" /\ user[u].active /\ user[u].subject \in {None, x.dir}
       THEN [q EXCEPT !.pc = "write", !.of = u, !.seen = user[u],
                      !.reads = {<<"failed", u>>, <<"subject", u>>, <<"directory", None>>}]
       ELSE Idle]
  /\ UNCHANGED <<agenda, user, tenant, tokens, attempt, step, starts, fresh, ended, missed, proven, accepted, opened, overlaps, crossed>>

SignInOpens(r) == LET q == request[r] u == q.of x == attempt[q.attempt] IN
  /\ At(r, "finish", "write")
  /\ IF q.seen.subject = None /\ user[u].subject # None
     THEN Ends(r) /\ UNCHANGED <<user, tokens, ended, missed, opened, overlaps, crossed>>
     ELSE /\ OpensSession(r, q.seen, "sso", IF q.seen.subject = None THEN [user EXCEPT ![u].subject = x.dir] ELSE user)
          /\ Opens(q.attempt, q.browser)
  /\ UNCHANGED <<agenda, tenant, attempt, step, starts, fresh, proven, accepted>>

-----------------------------------------------------------------------------

Next ==
  \/ \E r \in Requests :
       \/ LoginReads(r) \/ LoginFails(r) \/ LoginRefused(r) \/ LoginTickets(r) \/ LoginOpens(r)
       \/ MfaReads(r) \/ SetupStarts(r) \/ EnableStarts(r) \/ CodesStarts(r) \/ DisableStarts(r) \/ OwnReads(r)
       \/ FactorUsed(r) \/ FactorRefused(r) \/ MfaFails(r) \/ MfaOpens(r) \/ OwnRefused(r)
       \/ SetupWrites(r) \/ EnableWrites(r) \/ CodesWrites(r) \/ DisableWrites(r)
       \/ Logout(r) \/ LogoutWrites(r) \/ PasswordReads(r) \/ PasswordWrites(r)
       \/ ResetReads(r) \/ ResetWrites(r) \/ ResetMfaReads(r) \/ ResetMfaWrites(r)
       \/ UpdateReads(r) \/ UpdateChecks(r) \/ UpdateSaves(r) \/ CreateReads(r) \/ CreateSaves(r)
       \/ OrganisationReads(r) \/ OrganisationWrites(r) \/ Unlink(r) \/ UnlinkTenant(r) \/ UnlinkUsers(r)
       \/ CallbackReads(r) \/ CallbackRedeems(r) \/ CallbackWrites(r) \/ FinishReads(r) \/ FinishTakes(r)
       \/ LinkCommits(r) \/ BadgeRedeems(r) \/ SignInReads(r) \/ SignInOpens(r)
  \/ \E a \in Attempts :
       \/ \E b \in Browsers : SignInBegins(a, b) \/ BadgeBegins(a, b) \/ LinkBegins(a, b)
       \/ SsoExpires(a)
  \/ \E u \in Users : LockEnds(u)
  \/ Ticks

Spec == Init /\ [][Next]_vars

-----------------------------------------------------------------------------
(* Properties *)

Stale(kind, u) == <<kind, u>> \in crossed \/ <<"row", u>> \in crossed

\* Wrong passwords and codes compared since the last success, the end of a lock
\* or a reset stay below what the lock allows, over both steps of the sign-in,
\* and each write of a count that was no longer the one read gives at most one
\* round more (auth.controller.ts:92 to 98, :110 to 133, :146 to 157).
LockBoundsGuesses == \A u \in Users : missed[u] <= MaxFailed * (1 + overlaps[u])

\* A session that was refused once because its version had moved on, or that
\* was opened with a password since replaced, is never accepted again, unless a
\* version was written by a request that had read an older one
\* (auth.controller.ts:234 to 269, management.controller.ts:372 to 403,
\* guards.ts:52).
EndedStaysEnded == \A t \in tokens :
  (t.typ # "mfa" /\ Valid(t)) => \/ t \notin ended /\ t.pw = user[t.user].pw
                                 \/ Stale("version", t.user)

\* A code opens the second step once, and an account that asks for codes asks
\* for those of a secret a first code has confirmed, unless the factor was
\* changed under a request that had read it (auth.controller.ts:71 to 91,
\* :171 to 201).
SecondFactorHolds == \A u \in Users :
  \/ Stale("factor", u)
  \/ /\ \A x \in DOMAIN accepted : x[1] = u => accepted[x] <= 1
     /\ user[u].on => user[u].secret = proven[u] /\ user[u].secret # 0

\* While the directory is required there is a directory, and an administrator
\* who can sign in without it; an account is bound to the directory that is
\* linked: unless two requests crossed on the administrators or on the link
\* (management.controller.ts:66 to 70, :104 to 113, :364 to 371;
\* sso.controller.ts:245 to 276).
WayInStays ==
  \/ {"admins", "row", "directory", "subject"} \cap {f[1] : f \in crossed} # {}
  \/ /\ tenant.enforced => tenant.dir # None /\ EmergencyAdmins # {}
     /\ \A u \in Here : user[u].subject = None \/ user[u].subject = tenant.dir
                        \/ \E r \in Requests : At(r, "unlink", "users")

\* An attempt opens one session, link or badge, where it began, however often
\* the provider's answer and the hand-off code are presented
\* (sso.controller.ts:168 to 176, :210 to 234).
AttemptOpensOnce == \A a \in Attempts : \A b \in Browsers :
  opened[a][b] <= (IF b = attempt[a].browser THEN 1 ELSE 0)

\* What one try opens or costs is bounded, in both ways in: guesses by the lock, sessions by the
\* attempt (the two entrances share the rows of the users and the requests that write them).
EntriesBounded == LockBoundsGuesses /\ AttemptOpensOnce
=============================================================================
