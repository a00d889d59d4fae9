--------------------------- MODULE AccountsProofs ---------------------------
(***************************************************************************)
(* Theorems about the accounts of the console, for any number of users,    *)
(* requests, browsers and attempts: the types, and the promises that hold  *)
(* unless two requests cross.                                              *)
(*                                                                         *)
(* The invariant has a part for each column that requests read and write:  *)
(* what is true of the column, and what a request that has read it still   *)
(* knows of it while nobody has written it since.                          *)
(***************************************************************************)
EXTENDS Accounts, FiniteSetTheorems, TLAPS

-----------------------------------------------------------------------------
(* What requests carry *)

AboutOneUser == Kinds \ {"enforce", "unlink", "sso", "link", "badge"}
OfFactor == {"mfa", "enable", "codes", "disable"}

\* A finish that has found out which account it signs in.
SigningIn(r) == At(r, "finish", "write")

\* Whom a request is about, and at which step it can be.
Carried(r) == LET q == request[r] IN
  /\ q.op \in AboutOneUser \/ SigningIn(r) => q.of \in Users
  /\ q.op \in AboutOneUser \ {"create"} \/ SigningIn(r) => user[q.of].row = "here"
  /\ q.pc \in {"factor", "won", "lost"} => q.op \in OfFactor
  /\ q.op \in OfFactor /\ q.pc = "read" => q.op # "mfa" /\ q.reads = {}
  /\ q.op = "update" => q.seen.row = "here"
  /\ At(r, "unlink", "write") \/ (q.op = "finish" /\ q.pc # "write") => q.reads = {}
  /\ q.op \notin {"sso", "link", "badge"}

\* Every token is somebody's who is in the table.
TokensOfUsers == \A t \in tokens : user[t.user].row = "here"

\* A finish past the deletion of its attempt.
Holds(r) == request[r].op = "finish" /\ request[r].pc \in {"check", "write"}

AttemptCarried(r) == LET q == request[r] IN
  /\ q.op \in {"callback", "finish"} => q.attempt \in Attempts /\ attempt[q.attempt].state # "unused"
  /\ q.op = "finish" => q.browser \in Browsers
  /\ At(r, "callback", "write") /\ attempt[q.attempt].mode = "sso" => q.found[2] \in Users \cup {None}
  /\ Holds(r) => /\ attempt[q.attempt].state = "gone" /\ q.browser = attempt[q.attempt].browser
                 /\ \A b \in Browsers : opened[q.attempt][b] = 0
                 /\ attempt[q.attempt].who # None

\* An attempt that may still be taken has opened nothing; one that is taken, is by one request.
AttemptsTaken ==
  /\ \A a \in Attempts : attempt[a].state # "gone" => \A b \in Browsers : opened[a][b] = 0
  /\ \A a \in Attempts : attempt[a].mode = "sso" => attempt[a].who \in Users \cup {None}
  /\ \A r, x \in Requests : Holds(r) /\ Holds(x) /\ request[r].attempt = request[x].attempt => r = x

AttemptState == AttemptsTaken /\ AttemptOpensOnce

-----------------------------------------------------------------------------
(* The count of failures *)

\* The column holds all that was missed since the last success but what crossings lost.
Counted(u) == missed[u] <= MaxFailed * overlaps[u] + (IF user[u].locked THEN MaxFailed ELSE user[u].failed)

ReadsFailed(r) == request[r].op \in {"login", "mfa", "update"} \/ SigningIn(r)

FailedKnown(r) == LET q == request[r] u == q.of IN
  /\ ReadsFailed(r) =>
       /\ <<"failed", u>> \in q.reads
       /\ <<"failed", u>> \notin q.over => q.seen.failed = user[u].failed /\ q.seen.locked = user[u].locked
  /\ q.op = "mfa" => ~q.seen.locked

CountState == \A u \in Users : Counted(u)

\* Nobody has tried an account that does not exist.
Untried == \A u \in Users : user[u].row = "absent" => user[u].failed = 0 /\ ~user[u].locked

-----------------------------------------------------------------------------
(* The version of the sessions *)

\* A version, and the password that was the user's when it was: never ahead of the row.
Behind(u, sv, pw) == sv <= user[u].sv /\ (sv = user[u].sv => pw = user[u].pw)

TokenHolds(t) == Stale("version", t.user) \/ (Behind(t.user, t.sv, t.pw) /\ (t \in ended => t.sv < user[t.user].sv))

VersionKnown(r) == LET q == request[r] u == q.of IN
  /\ q.op \in {"login", "mfa"} \/ SigningIn(r) => Stale("version", u) \/ Behind(u, q.seen.sv, q.seen.pw)
  /\ q.op \in {"password", "reset", "resetMfa", "update"} => <<"version", u>> \in q.reads
  /\ q.op \in {"password", "reset", "resetMfa"} /\ <<"version", u>> \notin q.over => q.seen.sv = user[u].sv
  /\ At(r, "update", "check") /\ <<"version", u>> \notin q.over => q.seen.sv = user[u].sv
  /\ q.op = "update" /\ <<"version", u>> \notin q.over => q.seen.sv \in {user[u].sv, user[u].sv + 1}

VersionState == \A t \in tokens : TokenHolds(t)

-----------------------------------------------------------------------------
(* The second factor *)

\* Secrets and recovery codes come from one source and are all different.
Drawn(u) == user[u].recovery \subseteq 1..fresh /\ user[u].secret <= fresh /\ user[u].secret \notin user[u].recovery

\* A code that was accepted is not accepted again by the row as it is now.
Used(x) == LET u == x[1] c == x[2] IN
  /\ accepted[x] <= 1
  /\ c.secret \in 1..fresh /\ c.secret \notin user[u].recovery
  /\ c.secret = user[u].secret => c.step <= user[u].last

FactorHolds(u) ==
  \/ Stale("factor", u)
  \/ /\ \A x \in DOMAIN accepted : x[1] = u => Used(x)
     /\ user[u].on => user[u].secret = proven[u] /\ user[u].secret # 0

FactorKnown(r) == LET q == request[r] u == q.of IN
  /\ q.op \in {"update", "setup"} \/ (q.op \in OfFactor /\ q.pc # "read") => <<"factor", u>> \in q.reads
  /\ q.op \in OfFactor /\ q.pc # "read" /\ <<"factor", u>> \notin q.over => q.seen.secret = user[u].secret
  /\ q.op = "setup" /\ <<"factor", u>> \notin q.over => ~user[u].on
  /\ q.op = "update" /\ <<"factor", u>> \notin q.over => q.seen.on = user[u].on
  /\ At(r, "enable", "won") => q.code.secret = q.seen.secret /\ q.code.secret # 0

FactorState == \A u \in Users : Drawn(u) /\ FactorHolds(u)

-----------------------------------------------------------------------------
(* The way in *)

Crossings == {"admins", "row", "directory", "subject"} \cap {f[1] : f \in crossed}

Bound(u) == user[u].subject = None \/ user[u].subject = tenant.dir

Unlinking == \E r \in Requests : At(r, "unlink", "users")

WayKnown(r) == LET q == request[r] u == q.of IN
  /\ q.op = "update" => <<"subject", u>> \in q.reads
  /\ q.op = "update" /\ <<"subject", u>> \notin q.over => q.seen.subject = user[u].subject
  /\ At(r, "update", "check") /\ LosesEmergency(Changed(q.seen, q.says)) => <<"admins", None>> \in q.reads
  /\ At(r, "update", "write") /\ LosesEmergency(q.seen) =>
       /\ <<"admins", None>> \in q.reads
       /\ <<"admins", None>> \notin q.over => MayLose(u)
  /\ q.op = "update" => q.pc \in {"check", "write"}
  /\ q.op = "enforce" /\ q.says = "required" =>
       /\ {<<"admins", None>>, <<"directory", None>>} \subseteq q.reads
       /\ <<"admins", None>> \notin q.over => EmergencyAdmins # {}
       /\ <<"directory", None>> \notin q.over => tenant.dir # None
  /\ SigningIn(r) =>
       /\ <<"directory", None>> \in q.reads
       /\ <<"directory", None>> \notin q.over => tenant.dir = attempt[q.attempt].dir

WayHolds ==
  /\ tenant.enforced => tenant.dir # None /\ EmergencyAdmins # {}
  /\ Unlinking \/ \A u \in Here : Bound(u)

WayState == Crossings # {} \/ WayHolds

\* Everything a request knows, each part of one column.
Knows(r) ==
  Carried(r) /\ AttemptCarried(r) /\ FailedKnown(r) /\ VersionKnown(r) /\ FactorKnown(r) /\ WayKnown(r)

IInv ==
  /\ TypeOK /\ TokensOfUsers /\ AttemptState /\ CountState /\ Untried /\ VersionState /\ FactorState /\ WayState
  /\ \A r \in Requests : Knows(r)

-----------------------------------------------------------------------------
(* Types *)

LEMMA Sizes ==
  /\ MaxFailed \in Nat /\ MaxFailed > 0 /\ MaxStep \in Nat
  /\ 0 \in 0..(MaxFailed - 1) /\ -1 \in -1..(MaxStep + 1) /\ 0 \in 0..(MaxStep + 1)
  /\ None \notin Users /\ None \notin Browsers /\ None \notin Directories /\ None \notin Attempts
BY AccountsAssumption, SMT

LEMMA NoUserTyped == NoUser \in User
BY Sizes, SMT DEF NoUser, User

LEMMA IdleTyped == Idle \in Request /\ Idle.over = {} /\ Idle.reads = {} /\ Idle.op = "idle" /\ Idle.pc = "idle"
<1>1. NoCode \in Codes
  BY Sizes, SMT DEF NoCode, Codes
<1> QED
  BY <1>1, NoUserTyped, SMT DEF Idle, Request

\* What TypeOK says of the requests, and of a request.
RequestsTyped == request \in [Requests -> Request] /\ \A r \in Requests : request[r].over \subseteq request[r].reads

-----------------------------------------------------------------------------
(* How the others see a step *)

\* Another request that stays where it is while the facts ws are written.
Follows(x, ws) == LET q == request[x] n == request'[x] IN
  /\ n.op = q.op /\ n.pc = q.pc /\ n.of = q.of /\ n.me = q.me /\ n.seen = q.seen /\ n.reads = q.reads
  /\ n.attempt = q.attempt /\ n.browser = q.browser /\ n.code = q.code /\ n.good = q.good /\ n.says = q.says
  /\ n.found = q.found
  /\ n.over = q.over \cup (q.reads \cap ws)

\* r becomes next, the others follow.
Moves(r, next, ws) == request'[r] = next /\ \A x \in Requests \ {r} : Follows(x, ws)

LEMMA WriteMoves ==
  ASSUME RequestsTyped, NEW r \in Requests, NEW ws, NEW next \in Request, next.over \subseteq next.reads,
         Writes(r, ws, next)
  PROVE  RequestsTyped' /\ Moves(r, next, ws)
<1> DEFINE Q(x) == [request[x] EXCEPT !.over = @ \cup (request[x].reads \cap ws)]
<1>1. \A x \in Requests : /\ request[x] \in Request /\ request[x].over \subseteq request[x].reads
                           /\ request[x].reads \subseteq Facts
  BY DEF RequestsTyped, Request
<1>2. \A x \in Requests : Q(x) \in Request /\ Q(x).over \subseteq Q(x).reads
  BY <1>1, SMT DEF Request
<1>3. \A x \in Requests : request'[x] = IF x = r THEN next ELSE Q(x)
  BY DEF Writes, Overtaken
<1>4. request' \in [Requests -> Request]
  BY <1>2 DEF Writes, Overtaken
<1>5. RequestsTyped'
  <2>1. \A x \in Requests : request'[x].over \subseteq request'[x].reads
    BY <1>2, <1>3
  <2> QED
    BY <1>4, <2>1 DEF RequestsTyped
<1>6. ASSUME NEW x \in Requests \ {r} PROVE Follows(x, ws)
  <2>1. request'[x] = Q(x)
    BY <1>3
  <2>2. request[x] \in Request
    BY <1>1
  <2> QED
    BY <2>1, <2>2, SMT DEF Follows, Request
<1> QED
  BY <1>3, <1>5, <1>6 DEF Moves

LEMMA OneMoves ==
  ASSUME RequestsTyped, NEW r \in Requests, NEW next \in Request, next.over \subseteq next.reads,
         request' = [request EXCEPT ![r] = next]
  PROVE  RequestsTyped' /\ Moves(r, next, {})
<1>1. \A x \in Requests : request'[x] = IF x = r THEN next ELSE request[x]
  BY DEF RequestsTyped
<1>2. RequestsTyped'
  <2>1. request' \in [Requests -> Request]
    BY DEF RequestsTyped
  <2> QED
    BY <1>1, <2>1 DEF RequestsTyped
<1>3. ASSUME NEW x \in Requests \ {r} PROVE Follows(x, {})
  BY <1>1 DEF Follows
<1> QED
  BY <1>1, <1>2, <1>3 DEF Moves

\* The step changes no fact but those in ws, and no version goes back unnoticed.
Covers(ws) ==
  /\ crossed \subseteq crossed'
  /\ \A u \in Here :
       /\ user'[u].row = "here"
       /\ \/ <<"failed", u>> \in ws \/ (\A x \in Requests : request[x].of # u)
          \/ user'[u].failed = user[u].failed /\ user'[u].locked = user[u].locked
       /\ <<"version", u>> \in ws \/ user'[u].sv = user[u].sv
       /\ Stale("version", u)' \/ (user[u].sv <= user'[u].sv /\ (user[u].sv = user'[u].sv => user[u].pw = user'[u].pw))
       /\ <<"factor", u>> \in ws \/ (user'[u].on = user[u].on /\ user'[u].secret = user[u].secret)
       /\ <<"subject", u>> \in ws \/ user'[u].subject = user[u].subject
  /\ <<"admins", None>> \in ws \/ (EmergencyAdmins' = EmergencyAdmins /\ (tenant'.enforced => tenant.enforced))
  /\ <<"directory", None>> \in ws \/ tenant'.dir = tenant.dir

\* What a step of r leaves of the attempts the others are about.
AttemptsStay(r) ==
  /\ \A a \in Attempts :
       /\ attempt[a].state # "unused" => attempt'[a].state # "unused" /\ attempt'[a].mode = attempt[a].mode
       /\ attempt[a].state = "gone" => attempt'[a] = attempt[a]
  /\ \A x \in Requests \ {r} : Holds(x) => \A b \in Browsers : opened'[request[x].attempt][b] = opened[request[x].attempt][b]

LEMMA OfHere ==
  ASSUME TypeOK, NEW r \in Requests, Carried(r),
         request[r].op \in AboutOneUser \ {"create"} \/ SigningIn(r)
  PROVE  request[r].of \in Users /\ request[r].of \in Here
BY DEF Carried, Here

\* Versions are numbers, and stale stays stale.
LEMMA Versions ==
  ASSUME TypeOK
  PROVE  /\ \A u \in Users : user[u] \in User /\ user[u].sv \in Nat /\ user[u].pw \in Nat
         /\ \A r \in Requests : request[r] \in Request /\ request[r].seen \in User /\ request[r].seen.sv \in Nat
              /\ request[r].seen.pw \in Nat
<1>1. \A u \in Users : user[u] \in User
  BY DEF TypeOK
<1>2. \A r \in Requests : request[r] \in Request
  BY DEF TypeOK
<1> QED
  BY <1>1, <1>2 DEF User, Request

LEMMA StaleStays ==
  ASSUME crossed \subseteq crossed', NEW kind, NEW u, Stale(kind, u)
  PROVE  Stale(kind, u)'
BY DEF Stale

-----------------------------------------------------------------------------
(* What the others know after a step *)

LEMMA OthersCarry ==
  ASSUME TypeOK, NEW r, NEW x \in Requests \ {r}, NEW ws, Carried(x), Follows(x, ws), Covers(ws)
  PROVE  Carried(x)'
<1> DEFINE q == request[x]
           n == request'[x]
<1>1. n.op = q.op /\ n.pc = q.pc /\ n.of = q.of /\ n.seen = q.seen /\ n.reads = q.reads
  BY DEF Follows
<1>2. q.op \in AboutOneUser \/ SigningIn(x) => n.of \in Users
  BY <1>1 DEF Carried
<1>3. q.op \in AboutOneUser \ {"create"} \/ SigningIn(x) => user'[n.of].row = "here"
  BY <1>1, OfHere DEF Covers
<1>4. SigningIn(x)' <=> SigningIn(x)
  BY <1>1 DEF SigningIn, At
<1>5. At(x, "unlink", "write")' <=> At(x, "unlink", "write")
  BY <1>1 DEF At
<1> QED
  BY <1>1, <1>2, <1>3, <1>4, <1>5 DEF Carried

LEMMA OthersAttempt ==
  ASSUME TypeOK, NEW r, NEW x \in Requests \ {r}, NEW ws, AttemptCarried(x), Follows(x, ws), AttemptsStay(r)
  PROVE  AttemptCarried(x)'
<1> DEFINE q == request[x]
           n == request'[x]
<1>1. n.op = q.op /\ n.pc = q.pc /\ n.attempt = q.attempt /\ n.browser = q.browser /\ n.found = q.found
  BY DEF Follows
<1>2. (Holds(x)' <=> Holds(x)) /\ (At(x, "callback", "write")' <=> At(x, "callback", "write"))
  BY <1>1 DEF Holds, At
<1>3. Holds(x) => q.op = "finish"
  BY DEF Holds
<1>4. At(x, "callback", "write") => q.op = "callback"
  BY DEF At
<1>5. q.op \in {"callback", "finish"} => q.attempt \in Attempts /\ attempt'[q.attempt].state # "unused"
        /\ attempt'[q.attempt].mode = attempt[q.attempt].mode
  BY DEF AttemptCarried, AttemptsStay
<1>6. Holds(x) => /\ attempt'[q.attempt] = attempt[q.attempt]
                  /\ \A b \in Browsers : opened'[q.attempt][b] = opened[q.attempt][b]
  BY <1>3 DEF AttemptCarried, AttemptsStay
<1>7. /\ q.op = "finish" => q.browser \in Browsers
      /\ At(x, "callback", "write") /\ attempt[q.attempt].mode = "sso" => q.found[2] \in Users \cup {None}
      /\ Holds(x) => /\ attempt[q.attempt].state = "gone" /\ q.browser = attempt[q.attempt].browser
                     /\ \A b \in Browsers : opened[q.attempt][b] = 0
                     /\ attempt[q.attempt].who # None
  BY DEF AttemptCarried
<1> HIDE DEF q, n
<1>8. AttemptCarried(x)' <=>
        /\ n.op \in {"callback", "finish"} => n.attempt \in Attempts /\ attempt'[n.attempt].state # "unused"
        /\ n.op = "finish" => n.browser \in Browsers
        /\ At(x, "callback", "write")' /\ attempt'[n.attempt].mode = "sso" => n.found[2] \in Users \cup {None}
        /\ Holds(x)' => /\ attempt'[n.attempt].state = "gone" /\ n.browser = attempt'[n.attempt].browser
                        /\ \A b \in Browsers : opened'[n.attempt][b] = 0
                        /\ attempt'[n.attempt].who # None
  BY DEF AttemptCarried, n
<1> QED
  BY <1>1, <1>2, <1>3, <1>4, <1>5, <1>6, <1>7, <1>8

LEMMA OthersCount ==
  ASSUME TypeOK, NEW r, NEW x \in Requests \ {r}, NEW ws, Carried(x), FailedKnown(x), Follows(x, ws), Covers(ws)
  PROVE  FailedKnown(x)'
<1> DEFINE q == request[x]
           n == request'[x]
           u == request[x].of
<1>1. n.op = q.op /\ n.pc = q.pc /\ n.of = q.of /\ n.seen = q.seen /\ n.reads = q.reads /\ n.over = q.over \cup (q.reads \cap ws)
  BY DEF Follows
<1>2. ReadsFailed(x)' <=> ReadsFailed(x)
  BY <1>1 DEF ReadsFailed, SigningIn, At
<1>3. ReadsFailed(x) => u \in Here
  BY OfHere DEF ReadsFailed, AboutOneUser, Kinds
<1>4. ReadsFailed(x) /\ <<"failed", u>> \notin n.over => user'[u].failed = user[u].failed /\ user'[u].locked = user[u].locked
  BY <1>1, <1>3 DEF Covers, FailedKnown
<1> QED
  BY <1>1, <1>2, <1>4 DEF FailedKnown

LEMMA OthersVersion ==
  ASSUME TypeOK, TypeOK', NEW r, NEW x \in Requests \ {r}, NEW ws, Carried(x), VersionKnown(x), Follows(x, ws), Covers(ws)
  PROVE  VersionKnown(x)'
<1> DEFINE q == request[x]
           n == request'[x]
           u == request[x].of
<1>1. n.op = q.op /\ n.pc = q.pc /\ n.of = q.of /\ n.seen = q.seen /\ n.reads = q.reads /\ n.over = q.over \cup (q.reads \cap ws)
  BY DEF Follows
<1>2. (SigningIn(x)' <=> SigningIn(x)) /\ (At(x, "update", "check")' <=> At(x, "update", "check"))
  BY <1>1 DEF SigningIn, At
<1>3. q.op \in {"login", "mfa"} \/ SigningIn(x) => (Stale("version", u) \/ Behind(u, q.seen.sv, q.seen.pw))'
  <2> SUFFICES ASSUME q.op \in {"login", "mfa"} \/ SigningIn(x) PROVE (Stale("version", u) \/ Behind(u, q.seen.sv, q.seen.pw))'
    OBVIOUS
  <2>1. u \in Here /\ u \in Users
    BY OfHere DEF AboutOneUser, Kinds
  <2>2. Stale("version", u) => (Stale("version", u))'
    BY <1>1 DEF Stale, Covers
  <2>3. Stale("version", u) \/ Behind(u, q.seen.sv, q.seen.pw)
    BY DEF VersionKnown
  <2>4. (Stale("version", u))' \/ (user[u].sv <= user'[u].sv /\ (user[u].sv = user'[u].sv => user[u].pw = user'[u].pw))
    BY <1>1, <2>1 DEF Covers, Stale
  <2>5. user[u].sv \in Nat /\ user'[u].sv \in Nat /\ q.seen.sv \in Nat
    BY <2>1, Versions DEF TypeOK, User
  <2> QED
    BY <1>1, <2>2, <2>3, <2>4, <2>5 DEF Behind
<1>4. q.op \in {"password", "reset", "resetMfa", "update"} /\ <<"version", u>> \notin n.over
        => user'[u].sv = user[u].sv /\ <<"version", u>> \notin q.over
  <2> SUFFICES ASSUME q.op \in {"password", "reset", "resetMfa", "update"}, <<"version", u>> \notin n.over
               PROVE  user'[u].sv = user[u].sv /\ <<"version", u>> \notin q.over
    OBVIOUS
  <2>1. u \in Here /\ u \in Users
    BY OfHere DEF AboutOneUser, Kinds
  <2>2. <<"version", u>> \in q.reads
    BY DEF VersionKnown
  <2> QED
    BY <1>1, <2>1, <2>2 DEF Covers
<1> QED
  <2>1. At(x, "update", "check") => q.op = "update"
    BY DEF At
  <2>2. /\ q.op \in {"password", "reset", "resetMfa", "update"} => <<"version", u>> \in q.reads
        /\ q.op \in {"password", "reset", "resetMfa"} /\ <<"version", u>> \notin n.over => q.seen.sv = user'[u].sv
        /\ At(x, "update", "check") /\ <<"version", u>> \notin n.over => q.seen.sv = user'[u].sv
        /\ q.op = "update" /\ <<"version", u>> \notin n.over => q.seen.sv \in {user'[u].sv, user'[u].sv + 1}
    BY <1>4, <2>1 DEF VersionKnown
  <2> QED
    BY <1>1, <1>2, <1>3, <2>2 DEF VersionKnown

LEMMA OthersFactor ==
  ASSUME TypeOK, NEW r, NEW x \in Requests \ {r}, NEW ws, Carried(x), FactorKnown(x), Follows(x, ws), Covers(ws)
  PROVE  FactorKnown(x)'
<1> DEFINE q == request[x]
           n == request'[x]
           u == request[x].of
           Relies == q.op \in {"update", "setup"} \/ (q.op \in OfFactor /\ q.pc # "read")
<1>1. /\ n.op = q.op /\ n.pc = q.pc /\ n.of = q.of /\ n.seen = q.seen /\ n.reads = q.reads /\ n.code = q.code
      /\ n.over = q.over \cup (q.reads \cap ws)
  BY DEF Follows
<1>2. At(x, "enable", "won")' <=> At(x, "enable", "won")
  BY <1>1 DEF At
<1>3. Relies /\ <<"factor", u>> \notin n.over =>
        user'[u].on = user[u].on /\ user'[u].secret = user[u].secret /\ <<"factor", u>> \notin q.over
  <2> SUFFICES ASSUME Relies, <<"factor", u>> \notin n.over
               PROVE  user'[u].on = user[u].on /\ user'[u].secret = user[u].secret /\ <<"factor", u>> \notin q.over
    OBVIOUS
  <2>1. u \in Here
    BY OfHere DEF AboutOneUser, Kinds, OfFactor
  <2>2. <<"factor", u>> \in q.reads
    BY DEF FactorKnown
  <2> QED
    BY <1>1, <2>1, <2>2 DEF Covers
<1> QED
  BY <1>1, <1>2, <1>3 DEF FactorKnown

LEMMA OthersWay ==
  ASSUME TypeOK, NEW r, NEW x \in Requests \ {r}, NEW ws, Carried(x), AttemptCarried(x), WayKnown(x),
         Follows(x, ws), Covers(ws), AttemptsStay(r)
  PROVE  WayKnown(x)'
<1> DEFINE q == request[x]
           n == request'[x]
           u == request[x].of
<1>1. /\ n.op = q.op /\ n.pc = q.pc /\ n.of = q.of /\ n.seen = q.seen /\ n.reads = q.reads /\ n.says = q.says
      /\ n.attempt = q.attempt /\ n.over = q.over \cup (q.reads \cap ws)
  BY DEF Follows
<1>2. /\ SigningIn(x)' <=> SigningIn(x)
      /\ At(x, "update", "check")' <=> At(x, "update", "check")
      /\ At(x, "update", "write")' <=> At(x, "update", "write")
  BY <1>1 DEF SigningIn, At
<1>3. q.op = "update" /\ <<"subject", u>> \notin n.over => q.seen.subject = user'[u].subject
  <2> SUFFICES ASSUME q.op = "update", <<"subject", u>> \notin n.over PROVE q.seen.subject = user'[u].subject
    OBVIOUS
  <2>1. u \in Here
    BY OfHere DEF AboutOneUser, Kinds
  <2>2. <<"subject", u>> \in q.reads /\ (<<"subject", u>> \notin q.over => q.seen.subject = user[u].subject)
    BY DEF WayKnown
  <2> QED
    BY <1>1, <2>1, <2>2 DEF Covers
<1>4. <<"admins", None>> \in q.reads /\ <<"admins", None>> \notin n.over =>
        /\ EmergencyAdmins' = EmergencyAdmins /\ (tenant'.enforced => tenant.enforced) /\ <<"admins", None>> \notin q.over
  BY <1>1 DEF Covers
<1>5. <<"directory", None>> \in q.reads /\ <<"directory", None>> \notin n.over =>
        tenant'.dir = tenant.dir /\ <<"directory", None>> \notin q.over
  BY <1>1 DEF Covers
<1>6. SigningIn(x) => attempt'[q.attempt] = attempt[q.attempt]
  BY DEF AttemptCarried, AttemptsStay, SigningIn, At, Holds
<1>7. At(x, "update", "write") /\ LosesEmergency(q.seen) =>
        /\ <<"admins", None>> \in q.reads
        /\ <<"admins", None>> \notin n.over => EmergencyAdmins' \ {u} # {} \/ ~tenant'.enforced
  BY <1>4 DEF WayKnown, MayLose
<1>8. q.op = "enforce" /\ q.says = "required" =>
       /\ {<<"admins", None>>, <<"directory", None>>} \subseteq q.reads
       /\ <<"admins", None>> \notin n.over => EmergencyAdmins' # {}
       /\ <<"directory", None>> \notin n.over => tenant'.dir # None
  BY <1>4, <1>5 DEF WayKnown
<1>9. SigningIn(x) =>
       /\ <<"directory", None>> \in q.reads
       /\ <<"directory", None>> \notin n.over => tenant'.dir = attempt'[q.attempt].dir
  BY <1>5, <1>6 DEF WayKnown
<1>10. /\ q.op = "update" => <<"subject", u>> \in q.reads /\ q.pc \in {"check", "write"}
       /\ At(x, "update", "check") /\ LosesEmergency(Changed(q.seen, q.says)) => <<"admins", None>> \in q.reads
  BY DEF WayKnown
<1>11. LosesEmergency(n.seen) <=> LosesEmergency(q.seen)
  BY <1>1
<1>12. LosesEmergency(Changed(n.seen, n.says)) <=> LosesEmergency(Changed(q.seen, q.says))
  BY <1>1
<1>13. MayLose(u)' <=> EmergencyAdmins' \ {u} # {} \/ ~tenant'.enforced
  BY <1>1 DEF MayLose
<1> QED
  BY <1>1, <1>2, <1>3, <1>7, <1>8, <1>9, <1>10, <1>11, <1>12, <1>13 DEF WayKnown, MayLose

\* Whoever only follows knows what it knew, of what the step has not written.
LEMMA OthersKnow ==
  ASSUME TypeOK, TypeOK', NEW r, NEW x \in Requests \ {r}, NEW ws, Knows(x), Follows(x, ws), Covers(ws),
         AttemptsStay(r)
  PROVE  Knows(x)'
<1>1. Carried(x) /\ AttemptCarried(x) /\ FailedKnown(x) /\ VersionKnown(x) /\ FactorKnown(x) /\ WayKnown(x)
  BY DEF Knows
<1> QED
  BY <1>1, OthersCarry, OthersAttempt, OthersCount, OthersVersion, OthersFactor, OthersWay DEF Knows

\* A request that has ended knows nothing, and relies on nothing.
LEMMA IdleKnows ==
  ASSUME NEW r \in Requests, request'[r] = Idle
  PROVE  Knows(r)'
<1>1. request'[r].op = "idle" /\ request'[r].pc = "idle"
  BY DEF Idle
<1>2. ~SigningIn(r)' /\ ~Holds(r)' /\ (\A op, pc : op # "idle" => ~At(r, op, pc)')
  BY <1>1 DEF SigningIn, Holds, At
<1>3. Carried(r)'
  BY <1>1, <1>2 DEF Carried, AboutOneUser, Kinds, OfFactor
<1>4. AttemptCarried(r)'
  BY <1>1, <1>2 DEF AttemptCarried
<1>5. FailedKnown(r)'
  BY <1>1, <1>2 DEF FailedKnown, ReadsFailed
<1>6. VersionKnown(r)'
  BY <1>1, <1>2 DEF VersionKnown
<1>7. FactorKnown(r)'
  BY <1>1, <1>2 DEF FactorKnown, OfFactor
<1>8. WayKnown(r)'
  BY <1>1, <1>2 DEF WayKnown
<1> QED
  BY <1>3, <1>4, <1>5, <1>6, <1>7, <1>8 DEF Knows

-----------------------------------------------------------------------------
(* What a step leaves true of the columns *)

LEMMA HereStays ==
  ASSUME TypeOK, NEW ws, Covers(ws)
  PROVE  Here \subseteq Here'
BY DEF Here, Covers

LEMMA VersionsStay ==
  ASSUME TypeOK, TypeOK', TokensOfUsers, VersionState, NEW ws, Covers(ws),
         \A t \in tokens' \ tokens : t.user \in Here /\ (Stale("version", t.user) \/ Behind(t.user, t.sv, t.pw)),
         \A t \in ended' \ ended : t \in tokens /\ user'[t.user].sv # t.sv
  PROVE  TokensOfUsers' /\ VersionState'
<1> SUFFICES ASSUME NEW t \in tokens' PROVE user'[t.user].row = "here" /\ TokenHolds(t)'
  BY DEF TokensOfUsers, VersionState
<1> DEFINE u == t.user
<1>1. t \in Token /\ u \in Users /\ t.sv \in Nat
  BY DEF TypeOK, Token
<1>2. u \in Here
  BY <1>1 DEF TokensOfUsers, Here
<1>3. user[u].sv \in Nat /\ user'[u].sv \in Nat
  BY <1>1 DEF TypeOK, User
<1>4. /\ user'[u].row = "here"
      /\ Stale("version", u)' \/ (user[u].sv <= user'[u].sv /\ (user[u].sv = user'[u].sv => user[u].pw = user'[u].pw))
  BY <1>2 DEF Covers, Stale
<1>5. Stale("version", u) => Stale("version", u)'
  BY DEF Stale, Covers
<1>6. Stale("version", u) \/ Behind(u, t.sv, t.pw)
  BY DEF VersionState, TokenHolds
<1>7. Stale("version", u)' \/ Behind(u, t.sv, t.pw)'
  BY <1>1, <1>3, <1>4, <1>5, <1>6 DEF Behind
<1>8. ASSUME t \in ended', ~Stale("version", u)' PROVE t.sv < user'[u].sv
  <2>1. CASE t \in ended
    <3>1. t.sv < user[u].sv
      BY <1>5, <1>8, <2>1 DEF VersionState, TokenHolds, TypeOK
    <3> QED
      BY <1>1, <1>3, <1>4, <1>8, <3>1
  <2>2. CASE t \notin ended
    <3>1. user'[u].sv # t.sv
      BY <1>8, <2>2
    <3> QED
      BY <1>1, <1>3, <1>7, <1>8, <3>1 DEF Behind
  <2> QED
    BY <2>1, <2>2
<1> QED
  BY <1>4, <1>7, <1>8 DEF TokenHolds

LEMMA Times ==
  ASSUME NEW m \in Nat, NEW a \in Nat, NEW b \in Nat, a <= b
  PROVE  m * a \in Nat /\ m * b \in Nat /\ m * a <= m * b /\ m * (b + 1) = m * b + m
OBVIOUS

LEMMA CountsStay ==
  ASSUME TypeOK, TypeOK', CountState,
         \A u \in Users :
           \/ Counted(u)'
           \/ missed'[u] = 0
           \/ /\ user'[u].failed = user[u].failed /\ user'[u].locked = user[u].locked
              /\ missed'[u] = missed[u] /\ overlaps[u] <= overlaps'[u]
  PROVE  CountState'
<1> SUFFICES ASSUME NEW u \in Users PROVE Counted(u)'
  BY DEF CountState
<1>1. /\ missed[u] \in Nat /\ missed'[u] \in Nat /\ overlaps[u] \in Nat /\ overlaps'[u] \in Nat
      /\ user[u].failed \in Nat /\ user'[u].failed \in Nat /\ MaxFailed \in Nat
  <2>1. user[u].failed \in 0..(MaxFailed - 1) /\ user'[u].failed \in 0..(MaxFailed - 1)
    BY DEF TypeOK, User
  <2> QED
    BY <2>1, Sizes DEF TypeOK
<1> DEFINE a == MaxFailed * overlaps[u]
           b == MaxFailed * overlaps'[u]
<1>2. b \in Nat /\ a \in Nat
  BY <1>1, Times
<1>3. overlaps[u] <= overlaps'[u] => a <= b
  BY <1>1, Times
<1>4. missed[u] <= a + (IF user[u].locked THEN MaxFailed ELSE user[u].failed)
  BY DEF CountState, Counted
<1>5. Counted(u)' <=> missed'[u] <= b + (IF user'[u].locked THEN MaxFailed ELSE user'[u].failed)
  BY DEF Counted
<1> HIDE DEF a, b
<1> QED
  BY <1>1, <1>2, <1>3, <1>4, <1>5

\* The step leaves the columns of u's second factor alone.
FactorSame(u) ==
  /\ user'[u].on = user[u].on /\ user'[u].secret = user[u].secret /\ user'[u].last = user[u].last
  /\ user'[u].recovery = user[u].recovery /\ proven'[u] = proven[u]

LEMMA FactorsStay ==
  ASSUME TypeOK, FactorState, crossed \subseteq crossed', accepted' = accepted, fresh' \in Nat, fresh <= fresh',
         \A u \in Users : (Drawn(u)' /\ FactorHolds(u)') \/ FactorSame(u)
  PROVE  FactorState'
<1> SUFFICES ASSUME NEW u \in Users, FactorSame(u) PROVE Drawn(u)' /\ FactorHolds(u)'
  BY DEF FactorState
<1>1. Drawn(u) /\ FactorHolds(u) /\ fresh \in Nat /\ user[u].secret \in Nat
  BY DEF FactorState, TypeOK, User
<1>2. user[u].recovery \subseteq 1..fresh'
  BY <1>1 DEF Drawn
<1>3. Drawn(u)'
  BY <1>1, <1>2 DEF Drawn, FactorSame
<1>4. Stale("factor", u) => Stale("factor", u)'
  BY DEF Stale
<1>5. \A x \in DOMAIN accepted : x[1] = u /\ Used(x) => Used(x)'
  BY <1>1 DEF Used, FactorSame
<1>6. FactorHolds(u)'
  BY <1>1, <1>4, <1>5 DEF FactorHolds, FactorSame
<1> QED
  BY <1>3, <1>6

LEMMA WayStays ==
  ASSUME WayState, crossed \subseteq crossed', tenant'.enforced => tenant.enforced, tenant'.dir = tenant.dir,
         EmergencyAdmins' = EmergencyAdmins, Unlinking => Unlinking', Here' = Here,
         \A u \in Here : user'[u].subject = user[u].subject
  PROVE  WayState'
<1>1. Crossings \subseteq Crossings'
  BY DEF Crossings
<1>2. WayHolds => WayHolds'
  <2> SUFFICES ASSUME WayHolds PROVE WayHolds'
    OBVIOUS
  <2>1. (tenant.enforced => tenant.dir # None /\ EmergencyAdmins # {})'
    BY DEF WayHolds
  <2>2. (\A u \in Here : Bound(u)) => (\A u \in Here : Bound(u))'
    BY DEF Bound
  <2> QED
    BY <2>1, <2>2 DEF WayHolds
<1> QED
  BY <1>1, <1>2 DEF WayState

LEMMA AttemptsStayTaken ==
  ASSUME AttemptState, NEW r \in Requests, NEW next, NEW ws, Moves(r, next, ws), UNCHANGED <<attempt, opened>>,
         Holds(r)' => Holds(r) /\ request'[r].attempt = request[r].attempt
  PROVE  AttemptState'
<1>1. \A x \in Requests : Holds(x)' => Holds(x) /\ request'[x].attempt = request[x].attempt
  BY DEF Moves, Follows, Holds
<1>2. AttemptsTaken'
  BY <1>1 DEF AttemptState, AttemptsTaken
<1>3. AttemptOpensOnce'
  BY DEF AttemptState, AttemptOpensOnce
<1> QED
  BY <1>2, <1>3 DEF AttemptState

-----------------------------------------------------------------------------
(* Steps that only read *)

\* Nothing but the request itself, and the number of requests so far.
Reads == UNCHANGED <<agenda, user, tenant, tokens, attempt, step, fresh, ended, missed, proven, accepted, opened, overlaps, crossed>>

LEMMA ReadingKeeps ==
  ASSUME IInv, NEW r \in Requests, NEW next \in Request, next.over \subseteq next.reads,
         request' = [request EXCEPT ![r] = next], starts' \in 0..agenda.starts, Reads,
         Holds(r)' => Holds(r) /\ request'[r].attempt = request[r].attempt,
         ~At(r, "unlink", "users"), TypeOK' => Knows(r)'
  PROVE  IInv'
<1>1. TypeOK /\ TokensOfUsers /\ AttemptState /\ CountState /\ VersionState /\ FactorState /\ WayState
  BY DEF IInv
<1>2. RequestsTyped
  BY <1>1 DEF TypeOK, RequestsTyped
<1>3. RequestsTyped' /\ Moves(r, next, {})
  BY <1>2, OneMoves
<1>4. TypeOK'
  BY <1>1, <1>3 DEF TypeOK, RequestsTyped, Reads
<1>5. Here' = Here /\ EmergencyAdmins' = EmergencyAdmins
  BY DEF Reads, Here, EmergencyAdmins, Active
<1>6. Covers({})
  <2>1. \A u \in Here : user[u].row = "here" /\ user[u].sv \in Nat
    BY <1>1 DEF Here, TypeOK, User
  <2> QED
    BY <2>1, <1>5 DEF Reads, Covers
<1>7. AttemptsStay(r)
  BY DEF Reads, AttemptsStay
<1>8. ASSUME NEW x \in Requests PROVE Knows(x)'
  <2>1. CASE x = r
    BY <2>1, <1>4
  <2>2. CASE x # r
    <3>1. Knows(x) /\ Follows(x, {})
      BY <2>2, <1>3 DEF IInv, Moves
    <3> QED
      BY <2>2, <3>1, <1>1, <1>4, <1>6, <1>7, OthersKnow
  <2> QED
    BY <2>1, <2>2
<1>9. TokensOfUsers' /\ VersionState'
  <2>1. tokens' \ tokens = {} /\ ended' \ ended = {}
    BY DEF Reads
  <2> QED
    BY <1>1, <1>4, <1>6, <2>1, VersionsStay
<1>10. CountState'
  BY <1>1 DEF CountState, Counted, Reads
<1>11. FactorState'
  BY <1>1 DEF FactorState, Drawn, FactorHolds, Used, Stale, Reads
<1>12. Unlinking => Unlinking'
  <2> SUFFICES ASSUME NEW x \in Requests, At(x, "unlink", "users") PROVE At(x, "unlink", "users")'
    BY DEF Unlinking
  <2>1. x # r
    OBVIOUS
  <2> QED
    BY <2>1, <1>3 DEF Moves, Follows, At
<1>13. WayState'
  BY <1>1, <1>5, <1>12, WayStays DEF Reads
<1>14. AttemptState'
  BY <1>1, <1>3, AttemptsStayTaken DEF Reads
<1>15. Untried'
  BY DEF IInv, Untried, Reads
<1> QED
  BY <1>4, <1>8, <1>9, <1>10, <1>11, <1>13, <1>14, <1>15 DEF IInv

\* What a request does not know, by its kind.
LEMMA Ignores ==
  ASSUME NEW r \in Requests, NEW op, request'[r].op = op
  PROVE  /\ op \notin {"callback", "finish"} => AttemptCarried(r)'
         /\ op \notin {"login", "mfa", "update", "finish"} => FailedKnown(r)'
         /\ op \notin {"login", "mfa", "update", "password", "reset", "resetMfa", "finish"} => VersionKnown(r)'
         /\ op \notin {"mfa", "update", "setup", "enable", "codes", "disable"} => FactorKnown(r)'
         /\ op \notin {"update", "enforce", "finish"} => WayKnown(r)'
<1>1. /\ \A o, pc : o # op => ~At(r, o, pc)'
      /\ op # "finish" => ~SigningIn(r)' /\ ~Holds(r)'
  BY DEF At, SigningIn, Holds
<1>2. op \notin {"callback", "finish"} => AttemptCarried(r)'
  BY <1>1 DEF AttemptCarried
<1>3. op \notin {"login", "mfa", "update", "finish"} => FailedKnown(r)'
  BY <1>1 DEF FailedKnown, ReadsFailed
<1>4. op \notin {"login", "mfa", "update", "password", "reset", "resetMfa", "finish"} => VersionKnown(r)'
  BY <1>1 DEF VersionKnown
<1>5. op \notin {"mfa", "update", "setup", "enable", "codes", "disable"} => FactorKnown(r)'
  BY <1>1 DEF FactorKnown, OfFactor
<1>6. op \notin {"update", "enforce", "finish"} => WayKnown(r)'
  BY <1>1 DEF WayKnown
<1> QED
  BY <1>2, <1>3, <1>4, <1>5, <1>6

\* Whom the guard lets through is in the table.
LEMMA SignedHere ==
  ASSUME IInv, NEW u \in Users, SignedIn(u) \/ Free(u) \/ Administers(u)
  PROVE  u \in Here
BY DEF IInv, SignedIn, Free, Administers, Signed, TokensOfUsers, Here

\* A request that starts: its record is the one given, with the kind.
LEMMA Starting ==
  ASSUME IInv, NEW r \in Requests, NEW op \in Kinds, NEW q \in Request, q.over = {}, Start(r, op, q), Reads,
         op \notin {"sso", "link", "badge"},
         [q EXCEPT !.op = op] \in Request => (TypeOK' => Knows(r)')
  PROVE  IInv'
<1> DEFINE next == [q EXCEPT !.op = op]
<1>1. next \in Request /\ next.over = {} /\ next.op = op
  BY DEF Request
<1>2. request' = [request EXCEPT ![r] = next] /\ request[r].op = "idle"
  BY DEF Start
<1>3. starts' \in 0..agenda.starts
  <2>1. starts \in 0..agenda.starts /\ agenda.starts \in Nat
    BY AccountsAssumption DEF IInv, TypeOK
  <2> QED
    BY <2>1 DEF Start
<1>4. request'[r] = next
  BY <1>2 DEF IInv, TypeOK
<1>5. ~Holds(r)'
  BY <1>1, <1>4 DEF Holds, Kinds
<1>6. ~At(r, "unlink", "users")
  BY <1>2 DEF At
<1>7. next.over \subseteq next.reads
  BY <1>1
<1>8. TypeOK' => Knows(r)'
  BY <1>1
<1> HIDE DEF next
<1> QED
  BY <1>1, <1>2, <1>3, <1>5, <1>6, <1>7, <1>8, ReadingKeeps

-----------------------------------------------------------------------------
(* Requests that start *)

\* The record of a request about the account u, of which it has read the row.
LEMMA AboutTyped ==
  ASSUME TypeOK, NEW u \in Users
  PROVE  /\ user[u] \in User
         /\ <<"failed", u>> \in Facts /\ <<"version", u>> \in Facts /\ <<"factor", u>> \in Facts
         /\ <<"subject", u>> \in Facts /\ <<"row", u>> \in Facts
         /\ <<"admins", None>> \in Facts /\ <<"users", None>> \in Facts /\ <<"directory", None>> \in Facts
BY DEF TypeOK, Facts

LEMMA TypedCodes ==
  ASSUME TypeOK
  PROVE  Typed \subseteq Codes /\ NoCode \in Codes
<1>1. step \in 0..MaxStep /\ fresh \in Nat
  BY DEF TypeOK
<1>2. \A s \in {step - 1, step, step + 1} : s >= 0 => s \in 0..(MaxStep + 1)
  BY <1>1, Sizes
<1>3. NoCode \in Codes
  BY Sizes DEF NoCode, Codes
<1>4. [secret : 1..fresh, step : {s \in {step - 1, step, step + 1} : s >= 0}] \subseteq Codes
  BY <1>1, <1>2 DEF Codes
<1> QED
  BY <1>3, <1>4 DEF Typed

LEMMA LoginReadsStep ==
  ASSUME IInv, NEW r \in Requests, LoginReads(r)
  PROVE  IInv'
<1>1. PICK u \in Here, good \in BOOLEAN :
        Start(r, "login", [Idle EXCEPT !.pc = "check", !.of = u, !.seen = user[u], !.good = good, !.reads = {<<"failed", u>>}])
  BY DEF LoginReads
<1>2. u \in Users /\ user[u] \in User /\ {<<"failed", u>>} \in SUBSET Facts /\ TypeOK
  BY AboutTyped DEF Here, IInv
<1> DEFINE q == [Idle EXCEPT !.pc = "check", !.of = u, !.seen = user[u], !.good = good, !.reads = {<<"failed", u>>}]
<1>3. q \in Request
  BY <1>2, IdleTyped, ZenonT(30) DEF Request
<1>0. q.pc = "check" /\ q.of = u /\ q.seen = user[u] /\ q.reads = {<<"failed", u>>} /\ q.over = {}
  BY <1>2, IdleTyped, SMT DEF Request
<1>4. Start(r, "login", q)
  BY <1>1
<1> HIDE DEF q
<1>5. ASSUME TypeOK' PROVE Knows(r)'
  <2> DEFINE n == request'[r]
  <2>1. n = [q EXCEPT !.op = "login"]
    BY <1>2, <1>4 DEF Start, TypeOK
  <2>2. n.op = "login" /\ n.pc = "check" /\ n.of = u /\ n.seen = user[u] /\ n.reads = {<<"failed", u>>} /\ n.over = {}
    BY <1>3, <1>0, <2>1 DEF Request
  <2>3. user'[u] = user[u]
    BY DEF LoginReads
  <2>4. ~SigningIn(r)' /\ (\A pc : ~At(r, "update", pc)' /\ ~At(r, "unlink", pc)')
    BY <2>2 DEF SigningIn, At
  <2>5. Carried(r)'
    BY <1>1, <1>2, <2>2, <2>3, <2>4 DEF Carried, Here, OfFactor
  <2>6. FailedKnown(r)'
    BY <2>2, <2>3 DEF FailedKnown
  <2>7. VersionKnown(r)'
    <3>1. user[u].sv \in Nat
      BY <1>2 DEF User
    <3>2. Behind(request[r].of, request[r].seen.sv, request[r].seen.pw)'
      BY <2>2, <2>3, <3>1 DEF Behind
    <3> QED
      BY <2>2, <2>4, <3>2 DEF VersionKnown
  <2> QED
    BY <2>2, <2>5, <2>6, <2>7, Ignores DEF Knows
<1>6. Reads
  BY DEF LoginReads, Reads
<1> QED
  BY <1>3, <1>0, <1>4, <1>5, <1>6, Starting DEF Kinds

LEMMA MfaReadsStep ==
  ASSUME IInv, NEW r \in Requests, MfaReads(r)
  PROVE  IInv'
<1>1. PICK t \in tokens, c \in Typed :
        /\ user[t.user].on /\ ~user[t.user].locked
        /\ Start(r, "mfa", [Idle EXCEPT !.pc = "factor", !.of = t.user, !.seen = user[t.user], !.code = c, !.reads = FactorFacts(t.user)])
  BY DEF MfaReads
<1> DEFINE u == t.user
<1>2. TypeOK /\ u \in Users /\ u \in Here
  BY DEF IInv, TokensOfUsers, TypeOK, Token, Here
<1>3. user[u] \in User /\ FactorFacts(u) \in SUBSET Facts /\ c \in Codes
  BY <1>2, AboutTyped, TypedCodes DEF FactorFacts
<1> DEFINE q == [Idle EXCEPT !.pc = "factor", !.of = u, !.seen = user[u], !.code = c, !.reads = FactorFacts(u)]
<1>4. q \in Request
  BY <1>2, <1>3, IdleTyped, ZenonT(30) DEF Request
<1>0. q.pc = "factor" /\ q.of = u /\ q.seen = user[u] /\ q.reads = FactorFacts(u) /\ q.over = {}
  BY <1>2, <1>3, IdleTyped, SMT DEF Request
<1>5. Start(r, "mfa", q)
  BY <1>1
<1> HIDE DEF q, u
<1>6. ASSUME TypeOK' PROVE Knows(r)'
  <2> DEFINE n == request'[r]
  <2>1. n = [q EXCEPT !.op = "mfa"]
    BY <1>2, <1>5 DEF Start, TypeOK
  <2>2. n.op = "mfa" /\ n.pc = "factor" /\ n.of = u /\ n.seen = user[u] /\ n.reads = FactorFacts(u) /\ n.over = {}
    BY <1>4, <1>0, <2>1 DEF Request
  <2>3. user'[u] = user[u]
    BY DEF MfaReads
  <2>4. ~SigningIn(r)' /\ (\A pc : ~At(r, "update", pc)' /\ ~At(r, "unlink", pc)' /\ ~At(r, "enable", pc)')
    BY <2>2 DEF SigningIn, At
  <2>5. Carried(r)'
    BY <1>2, <2>2, <2>3, <2>4 DEF Carried, Here, OfFactor
  <2>6. FailedKnown(r)'
    BY <1>1, <2>2, <2>3 DEF FailedKnown, FactorFacts, u
  <2>7. VersionKnown(r)'
    <3>1. user[u].sv \in Nat
      BY <1>3 DEF User
    <3>2. Behind(request[r].of, request[r].seen.sv, request[r].seen.pw)'
      BY <2>2, <2>3, <3>1 DEF Behind
    <3> QED
      BY <2>2, <2>4, <3>2 DEF VersionKnown
  <2>8. FactorKnown(r)'
    BY <2>2, <2>3, <2>4 DEF FactorKnown, FactorFacts
  <2> QED
    BY <2>2, <2>5, <2>6, <2>7, <2>8, Ignores DEF Knows
<1>7. Reads
  BY DEF MfaReads, Reads
<1> QED
  BY <1>4, <1>0, <1>5, <1>6, <1>7, Starting DEF Kinds

\* The routes of one's own second factor.
LEMMA OwnStartsStep ==
  ASSUME IInv, NEW r \in Requests, NEW op \in {"setup", "enable", "codes", "disable"}, NEW who \in SUBSET Here,
         op = "setup" => \A u \in who : ~user[u].on, OwnStarts(r, op, who)
  PROVE  IInv'
<1>1. PICK u \in who, c \in Typed :
        Start(r, op, [Idle EXCEPT !.pc = "read", !.of = u, !.me = u, !.code = IF op = "setup" THEN NoCode ELSE c,
                                  !.reads = IF op = "setup" THEN {<<"factor", u>>} ELSE {}])
  BY DEF OwnStarts
<1> DEFINE d == IF op = "setup" THEN NoCode ELSE c
           reads == IF op = "setup" THEN {<<"factor", u>>} ELSE {}
<1>2. TypeOK /\ u \in Users /\ user[u].row = "here"
  BY DEF IInv, Here
<1>3. d \in Codes /\ reads \in SUBSET Facts
  BY <1>2, AboutTyped, TypedCodes
<1>a. op = "setup" => reads = {<<"factor", u>>}
  OBVIOUS
<1>b. op # "setup" => reads = {}
  OBVIOUS
<1> DEFINE q == [Idle EXCEPT !.pc = "read", !.of = u, !.me = u, !.code = d, !.reads = reads]
<1>4. Start(r, op, q)
  BY <1>1
<1> HIDE DEF d, reads
<1>5. q \in Request
  BY <1>2, <1>3, IdleTyped, ZenonT(30) DEF Request
<1>6. q.pc = "read" /\ q.of = u /\ q.reads = reads /\ q.over = {}
  BY <1>2, IdleTyped, SMT DEF Request
<1> HIDE DEF q
<1>7. ASSUME TypeOK' PROVE Knows(r)'
  <2> DEFINE n == request'[r]
  <2>1. n = [q EXCEPT !.op = op]
    BY <1>2, <1>4 DEF Start, TypeOK
  <2>2. n.op = op /\ n.pc = "read" /\ n.of = u /\ n.reads = reads /\ n.over = {}
    BY <1>5, <1>6, <2>1 DEF Request
  <2>3. user'[u] = user[u]
    BY DEF OwnStarts
  <2>4. ~SigningIn(r)' /\ (\A pc : ~At(r, "update", pc)' /\ ~At(r, "unlink", pc)' /\ ~At(r, "enable", "won")')
    BY <2>2 DEF SigningIn, At
  <2>5. Carried(r)'
    BY <1>2, <1>b, <2>2, <2>3, <2>4 DEF Carried, OfFactor
  <2>6. FactorKnown(r)'
    <3>1. op = "setup" => <<"factor", u>> \in reads /\ ~user[u].on
      BY <1>a
    <3>2. op # "update" /\ (op = "setup" \/ op \in OfFactor) /\ "setup" \notin OfFactor
      BY DEF OfFactor
    <3> QED
      BY <2>2, <2>3, <2>4, <3>1, <3>2 DEF FactorKnown
  <2> QED
    BY <2>2, <2>5, <2>6, Ignores DEF Knows
<1>8. Reads
  BY DEF OwnStarts, Reads
<1> QED
  BY <1>4, <1>5, <1>6, <1>7, <1>8, Starting DEF Kinds

LEMMA OwnRoutesStart ==
  ASSUME IInv, NEW r \in Requests, SetupStarts(r) \/ EnableStarts(r) \/ CodesStarts(r) \/ DisableStarts(r)
  PROVE  IInv'
<1>1. WithoutFactor \subseteq Here /\ {u \in Users : Free(u)} \subseteq Here /\ \A u \in WithoutFactor : ~user[u].on
  BY SignedHere DEF WithoutFactor
<1>2. CASE SetupStarts(r)
  BY <1>1, <1>2, OwnStartsStep DEF SetupStarts
<1>3. CASE EnableStarts(r)
  BY <1>1, <1>3, OwnStartsStep DEF EnableStarts
<1>4. CASE CodesStarts(r)
  BY <1>1, <1>4, OwnStartsStep DEF CodesStarts
<1>5. CASE DisableStarts(r)
  BY <1>1, <1>5, OwnStartsStep DEF DisableStarts
<1> QED
  BY <1>2, <1>3, <1>4, <1>5

LEMMA LogoutStep ==
  ASSUME IInv, NEW r \in Requests, Logout(r)
  PROVE  IInv'
<1>1. PICK u \in Users : SignedIn(u) /\ Start(r, "logout", [Idle EXCEPT !.pc = "write", !.of = u, !.me = u])
  BY DEF Logout
<1>2. TypeOK /\ user[u].row = "here"
  BY <1>1, SignedHere DEF IInv, Here
<1> DEFINE q == [Idle EXCEPT !.pc = "write", !.of = u, !.me = u]
<1>0. q \in Request
  BY IdleTyped, ZenonT(30) DEF Request
<1>3. q \in Request /\ q.pc = "write" /\ q.of = u /\ q.over = {}
  BY <1>0, IdleTyped, SMT DEF Request
<1>4. Start(r, "logout", q)
  BY <1>1
<1> HIDE DEF q
<1>5. ASSUME TypeOK' PROVE Knows(r)'
  <2> DEFINE n == request'[r]
  <2>1. n = [q EXCEPT !.op = "logout"]
    BY <1>2, <1>4 DEF Start, TypeOK
  <2>2. n.op = "logout" /\ n.pc = "write" /\ n.of = u
    BY <1>3, <2>1 DEF Request
  <2>3. user'[u] = user[u]
    BY DEF Logout
  <2>4. ~SigningIn(r)' /\ ~At(r, "unlink", "write")'
    BY <2>2 DEF SigningIn, At
  <2>5. Carried(r)'
    BY <1>2, <2>2, <2>3, <2>4 DEF Carried, OfFactor
  <2> QED
    BY <2>2, <2>5, Ignores DEF Knows
<1>6. Reads
  BY DEF Logout, Reads
<1> QED
  BY <1>3, <1>4, <1>5, <1>6, Starting DEF Kinds

\* A new password, or a reset, of an account that is in the table.
LEMMA ReplacingStep ==
  ASSUME IInv, NEW r \in Requests, NEW op \in {"password", "reset", "resetMfa"}, NEW me \in Users, NEW u \in Here, Reads,
         Start(r, op, [Idle EXCEPT !.pc = "write", !.of = u, !.me = me, !.seen = user[u], !.reads = {<<"version", u>>}])
  PROVE  IInv'
<1>1. TypeOK /\ u \in Users /\ user[u].row = "here" /\ user[u] \in User /\ {<<"version", u>>} \in SUBSET Facts
  BY AboutTyped DEF IInv, Here
<1> DEFINE q == [Idle EXCEPT !.pc = "write", !.of = u, !.me = me, !.seen = user[u], !.reads = {<<"version", u>>}]
<1>2. q \in Request
  BY <1>1, IdleTyped, ZenonT(30) DEF Request
<1>3. q.pc = "write" /\ q.of = u /\ q.seen = user[u] /\ q.reads = {<<"version", u>>} /\ q.over = {}
  BY <1>1, IdleTyped, SMT DEF Request
<1>4. Start(r, op, q)
  OBVIOUS
<1> HIDE DEF q
<1>5. ASSUME TypeOK' PROVE Knows(r)'
  <2> DEFINE n == request'[r]
  <2>1. n = [q EXCEPT !.op = op]
    BY <1>1, <1>4 DEF Start, TypeOK
  <2>2. n.op = op /\ n.pc = "write" /\ n.of = u /\ n.seen = user[u] /\ n.reads = {<<"version", u>>}
    BY <1>2, <1>3, <2>1 DEF Request
  <2>3. user'[u] = user[u]
    BY DEF Reads
  <2>4. ~SigningIn(r)' /\ ~At(r, "unlink", "write")' /\ ~At(r, "update", "check")'
    BY <2>2 DEF SigningIn, At
  <2>5. Carried(r)'
    BY <1>1, <2>2, <2>3, <2>4 DEF Carried, OfFactor
  <2>6. VersionKnown(r)'
    BY <2>2, <2>3, <2>4 DEF VersionKnown
  <2> QED
    BY <2>2, <2>5, <2>6, Ignores DEF Knows
<1>6. op \in Kinds /\ op \notin {"sso", "link", "badge"}
  BY DEF Kinds
<1> QED
  BY <1>2, <1>3, <1>4, <1>5, <1>6, Starting

LEMMA ReplacingStarts ==
  ASSUME IInv, NEW r \in Requests, PasswordReads(r) \/ ResetReads(r) \/ ResetMfaReads(r)
  PROVE  IInv'
<1>1. Reads
  BY DEF PasswordReads, ResetReads, ResetMfaReads, AdminReads, Reads
<1>2. CASE PasswordReads(r)
  <2>1. PICK u \in Users : SignedIn(u) /\ Start(r, "password", [Idle EXCEPT !.pc = "write", !.of = u, !.me = u, !.seen = user[u],
                                                                          !.reads = {<<"version", u>>}])
    BY <1>2 DEF PasswordReads
  <2> QED
    BY <1>1, <2>1, SignedHere, ReplacingStep
<1>3. ASSUME NEW op \in {"reset", "resetMfa"}, AdminReads(r, op) PROVE IInv'
  <2>1. PICK me \in Users, u \in Here :
          Start(r, op, [Idle EXCEPT !.pc = "write", !.of = u, !.me = me, !.seen = user[u], !.reads = {<<"version", u>>}])
    BY <1>3 DEF AdminReads
  <2>2. op \in {"password", "reset", "resetMfa"}
    OBVIOUS
  <2> QED
    BY <1>1, <2>1, <2>2, ReplacingStep
<1> QED
  BY <1>2, <1>3 DEF ResetReads, ResetMfaReads

LEMMA UpdateReadsStep ==
  ASSUME IInv, NEW r \in Requests, UpdateReads(r)
  PROVE  IInv'
<1>1. PICK me \in Users, u \in Here, says \in Changes :
        Start(r, "update", [Idle EXCEPT !.pc = "check", !.of = u, !.me = me, !.seen = user[u], !.says = says,
                           !.reads = Loaded(u) \cup (IF says = "on" THEN {<<"users", None>>} ELSE {})
                                     \cup (IF LosesEmergency(Changed(user[u], says)) THEN {<<"admins", None>>} ELSE {})])
  BY DEF UpdateReads
<1> DEFINE reads == Loaded(u) \cup (IF says = "on" THEN {<<"users", None>>} ELSE {})
                      \cup (IF LosesEmergency(Changed(user[u], says)) THEN {<<"admins", None>>} ELSE {})
           q == [Idle EXCEPT !.pc = "check", !.of = u, !.me = me, !.seen = user[u], !.says = says, !.reads = reads]
<1>2. TypeOK /\ u \in Users /\ user[u].row = "here" /\ user[u] \in User
  BY AboutTyped DEF IInv, Here
<1>3. /\ {<<"failed", u>>, <<"version", u>>, <<"factor", u>>, <<"subject", u>>} \subseteq reads
      /\ LosesEmergency(Changed(user[u], says)) => <<"admins", None>> \in reads
  BY DEF Loaded
<1>4. reads \in SUBSET Facts
  <2>1. Loaded(u) \subseteq Facts
    BY <1>2 DEF Loaded, Facts
  <2>2. <<"users", None>> \in Facts /\ <<"admins", None>> \in Facts
    BY <1>2, AboutTyped
  <2> QED
    BY <2>1, <2>2
<1>5. Start(r, "update", q)
  BY <1>1
<1> HIDE DEF reads
<1>6. q \in Request
  BY <1>2, <1>4, IdleTyped, ZenonT(30) DEF Request
<1>7. q.pc = "check" /\ q.of = u /\ q.seen = user[u] /\ q.says = says /\ q.reads = reads /\ q.over = {}
  BY <1>2, <1>4, IdleTyped, SMT DEF Request
<1> HIDE DEF q
<1>8. ASSUME TypeOK' PROVE Knows(r)'
  <2> DEFINE n == request'[r]
  <2>1. n = [q EXCEPT !.op = "update"]
    BY <1>2, <1>5 DEF Start, TypeOK
  <2>2. n.op = "update" /\ n.pc = "check" /\ n.of = u /\ n.seen = user[u] /\ n.says = says /\ n.reads = reads /\ n.over = {}
    BY <1>6, <1>7, <2>1 DEF Request
  <2>3. user'[u] = user[u]
    BY DEF UpdateReads
  <2>4. ~SigningIn(r)' /\ ~At(r, "unlink", "write")' /\ ~At(r, "update", "write")' /\ ~At(r, "enable", "won")'
    BY <2>2 DEF SigningIn, At
  <2>5. Carried(r)'
    BY <1>2, <2>2, <2>3, <2>4 DEF Carried, OfFactor
  <2>6. FailedKnown(r)'
    BY <1>3, <2>2, <2>3 DEF FailedKnown
  <2>7. VersionKnown(r)'
    BY <1>3, <2>2, <2>3, <2>4 DEF VersionKnown
  <2>8. FactorKnown(r)'
    BY <1>3, <2>2, <2>3, <2>4 DEF FactorKnown, OfFactor
  <2>9. WayKnown(r)'
    <3>1. LosesEmergency(Changed(n.seen, n.says)) => <<"admins", None>> \in n.reads
      BY <1>3, <2>2
    <3> QED
      BY <1>3, <2>2, <2>3, <2>4, <3>1 DEF WayKnown
  <2> QED
    BY <2>2, <2>5, <2>6, <2>7, <2>8, <2>9, Ignores DEF Knows
<1>9. Reads
  BY DEF UpdateReads, Reads
<1> QED
  BY <1>5, <1>6, <1>7, <1>8, <1>9, Starting DEF Kinds

LEMMA CreateReadsStep ==
  ASSUME IInv, NEW r \in Requests, CreateReads(r)
  PROVE  IInv'
<1>1. PICK me \in Users, u \in Users \ Here, super \in BOOLEAN :
        Start(r, "create", [Idle EXCEPT !.pc = "write", !.of = u, !.me = me, !.good = super, !.reads = {<<"users", None>>}])
  BY DEF CreateReads
<1> DEFINE q == [Idle EXCEPT !.pc = "write", !.of = u, !.me = me, !.good = super, !.reads = {<<"users", None>>}]
<1>2. TypeOK /\ {<<"users", None>>} \in SUBSET Facts
  BY AboutTyped DEF IInv
<1>3. q \in Request
  BY <1>2, IdleTyped, ZenonT(30) DEF Request
<1>4. q.pc = "write" /\ q.of = u /\ q.over = {}
  BY <1>2, IdleTyped, SMT DEF Request
<1>5. Start(r, "create", q)
  BY <1>1
<1> HIDE DEF q
<1>6. ASSUME TypeOK' PROVE Knows(r)'
  <2> DEFINE n == request'[r]
  <2>1. n = [q EXCEPT !.op = "create"]
    BY <1>2, <1>5 DEF Start, TypeOK
  <2>2. n.op = "create" /\ n.pc = "write" /\ n.of = u
    BY <1>3, <1>4, <2>1 DEF Request
  <2>3. ~SigningIn(r)' /\ ~At(r, "unlink", "write")'
    BY <2>2 DEF SigningIn, At
  <2>4. Carried(r)'
    BY <2>2, <2>3 DEF Carried, OfFactor
  <2> QED
    BY <2>2, <2>4, Ignores DEF Knows
<1>7. Reads
  BY DEF CreateReads, Reads
<1> QED
  BY <1>3, <1>4, <1>5, <1>6, <1>7, Starting DEF Kinds

LEMMA OrganisationReadsStep ==
  ASSUME IInv, NEW r \in Requests, OrganisationReads(r)
  PROVE  IInv'
<1>1. PICK me \in Users, says \in {"required", "free", "mfa"} :
        /\ says = "required" => tenant.dir # None /\ EmergencyAdmins # {}
        /\ Start(r, "enforce", [Idle EXCEPT !.pc = "write", !.me = me, !.says = says,
                                !.reads = IF says = "required" THEN {<<"admins", None>>, <<"directory", None>>} ELSE {}])
  BY DEF OrganisationReads
<1> DEFINE reads == IF says = "required" THEN {<<"admins", None>>, <<"directory", None>>} ELSE {}
           q == [Idle EXCEPT !.pc = "write", !.me = me, !.says = says, !.reads = reads]
<1>2. TypeOK /\ reads \in SUBSET Facts
  BY AboutTyped DEF IInv
<1>3. says = "required" => {<<"admins", None>>, <<"directory", None>>} \subseteq reads
  OBVIOUS
<1>4. Start(r, "enforce", q)
  BY <1>1
<1> HIDE DEF reads
<1>5. q \in Request
  BY <1>2, IdleTyped, ZenonT(30) DEF Request
<1>6. q.pc = "write" /\ q.says = says /\ q.reads = reads /\ q.over = {}
  BY <1>2, IdleTyped, SMT DEF Request
<1> HIDE DEF q
<1>7. ASSUME TypeOK' PROVE Knows(r)'
  <2> DEFINE n == request'[r]
  <2>1. n = [q EXCEPT !.op = "enforce"]
    BY <1>2, <1>4 DEF Start, TypeOK
  <2>2. n.op = "enforce" /\ n.pc = "write" /\ n.says = says /\ n.reads = reads
    BY <1>5, <1>6, <2>1 DEF Request
  <2>3. ~SigningIn(r)' /\ (\A pc : ~At(r, "unlink", pc)' /\ ~At(r, "update", pc)')
    BY <2>2 DEF SigningIn, At
  <2>4. Carried(r)'
    BY <2>2, <2>3 DEF Carried, OfFactor, AboutOneUser
  <2>5. EmergencyAdmins' = EmergencyAdmins /\ tenant' = tenant
    BY DEF OrganisationReads, EmergencyAdmins, Active, Here
  <2>6. WayKnown(r)'
    BY <1>1, <1>3, <2>2, <2>3, <2>5 DEF WayKnown
  <2> QED
    BY <2>2, <2>4, <2>6, Ignores DEF Knows
<1>8. Reads
  BY DEF OrganisationReads, Reads
<1> QED
  BY <1>4, <1>5, <1>6, <1>7, <1>8, Starting DEF Kinds

LEMMA UnlinkStep ==
  ASSUME IInv, NEW r \in Requests, Unlink(r)
  PROVE  IInv'
<1>1. PICK me \in Users : Start(r, "unlink", [Idle EXCEPT !.pc = "write", !.me = me])
  BY DEF Unlink
<1> DEFINE q == [Idle EXCEPT !.pc = "write", !.me = me]
<1>2. TypeOK /\ q \in Request
  BY IdleTyped, ZenonT(30) DEF Request, IInv
<1>3. q.pc = "write" /\ q.reads = {} /\ q.over = {}
  BY IdleTyped, SMT DEF Request
<1>4. Start(r, "unlink", q)
  BY <1>1
<1> HIDE DEF q
<1>5. ASSUME TypeOK' PROVE Knows(r)'
  <2> DEFINE n == request'[r]
  <2>1. n = [q EXCEPT !.op = "unlink"]
    BY <1>2, <1>4 DEF Start, TypeOK
  <2>2. n.op = "unlink" /\ n.pc = "write" /\ n.reads = {}
    BY <1>2, <1>3, <2>1 DEF Request
  <2>3. ~SigningIn(r)'
    BY <2>2 DEF SigningIn, At
  <2>4. Carried(r)'
    BY <2>2, <2>3 DEF Carried, OfFactor, AboutOneUser
  <2> QED
    BY <2>2, <2>4, Ignores DEF Knows
<1>6. Reads
  BY DEF Unlink, Reads
<1> QED
  BY <1>2, <1>3, <1>4, <1>5, <1>6, Starting DEF Kinds

-----------------------------------------------------------------------------
(* Requests that go on, or end, without a write *)

LEMMA EndingStep ==
  ASSUME IInv, NEW r \in Requests, Ends(r), Reads, starts' = starts, ~At(r, "unlink", "users")
  PROVE  IInv'
<1>1. request'[r] = Idle /\ starts' \in 0..agenda.starts
  BY DEF IInv, TypeOK, Ends
<1>2. ~Holds(r)'
  BY <1>1, IdleTyped DEF Holds
<1>3. Knows(r)'
  BY <1>1, IdleKnows
<1>4. Idle.over \subseteq Idle.reads
  BY IdleTyped
<1> QED
  BY <1>1, <1>2, <1>3, <1>4, IdleTyped, ReadingKeeps DEF Ends

LEMMA RefusedSteps ==
  ASSUME IInv, NEW r \in Requests, LoginRefused(r) \/ OwnRefused(r)
  PROVE  IInv'
<1>1. Ends(r) /\ Reads /\ starts' = starts
  BY DEF LoginRefused, OwnRefused, Reads
<1>2. ~At(r, "unlink", "users")
  BY DEF LoginRefused, OwnRefused, At
<1> QED
  BY <1>1, <1>2, EndingStep

LEMMA OwnReadsStep ==
  ASSUME IInv, NEW r \in Requests, OwnReads(r)
  PROVE  IInv'
<1> DEFINE q == request[r]
           u == request[r].of
           next == [request[r] EXCEPT !.pc = "factor", !.seen = user[request[r].of], !.reads = {<<"factor", request[r].of>>}]
<1>1. /\ q.op \in {"enable", "codes", "disable"} /\ q.pc = "read" /\ Reads /\ starts' = starts
      /\ request' = [request EXCEPT ![r] = next] \/ Ends(r)
  BY DEF OwnReads, Reads, Ends
<1>2. ~At(r, "unlink", "users")
  BY <1>1 DEF At
<1>3. TypeOK /\ q \in Request /\ q.over \subseteq q.reads /\ Carried(r)
  BY DEF IInv, Knows, TypeOK
<1>4. u \in Users /\ user[u].row = "here" /\ q.over = {}
  BY <1>1, <1>3 DEF Carried, AboutOneUser, Kinds, OfFactor
<1>5. CASE request' = [request EXCEPT ![r] = next]
  <2>1. user[u] \in User /\ {<<"factor", u>>} \in SUBSET Facts
    BY <1>3, <1>4, AboutTyped
  <2>2. next \in Request
    BY <1>3, <2>1, ZenonT(30) DEF Request
  <2>3. next.op = q.op /\ next.pc = "factor" /\ next.of = u /\ next.seen = user[u] /\ next.reads = {<<"factor", u>>} /\ next.over = {}
    BY <1>3, <1>4, <2>1 DEF Request
  <2>4. request'[r] = next
    BY <1>3, <1>5 DEF TypeOK
  <2> HIDE DEF next
  <2>5. ~SigningIn(r)' /\ ~Holds(r)' /\ ~At(r, "unlink", "write")' /\ ~At(r, "enable", "won")'
    BY <1>1, <2>3, <2>4 DEF SigningIn, Holds, At
  <2>6. user' = user
    BY <1>1 DEF Reads
  <2>7. Carried(r)'
    BY <1>1, <1>4, <2>3, <2>4, <2>5, <2>6 DEF Carried, OfFactor
  <2>8. FactorKnown(r)'
    BY <1>1, <2>3, <2>4, <2>5, <2>6 DEF FactorKnown, OfFactor
  <2>9. Knows(r)'
    BY <1>1, <2>3, <2>4, <2>7, <2>8, Ignores DEF Knows
  <2>10. starts' \in 0..agenda.starts /\ next.over \subseteq next.reads
    BY <1>1, <1>3, <2>3 DEF TypeOK
  <2> QED
    BY <1>1, <1>2, <1>5, <2>2, <2>5, <2>9, <2>10, ReadingKeeps
<1>6. CASE Ends(r)
  BY <1>1, <1>2, <1>6, EndingStep
<1> QED
  BY <1>1, <1>5, <1>6

\* Another step of the same request, of which only pc moves on.
GoesOn(r) == LET q == request[r] n == request'[r] IN
  /\ n.op = q.op /\ n.of = q.of /\ n.seen = q.seen /\ n.reads = q.reads /\ n.over = q.over /\ n.says = q.says
  /\ n.attempt = q.attempt /\ n.browser = q.browser /\ n.code = q.code /\ n.found = q.found

LEMMA Going ==
  ASSUME TypeOK, NEW r \in Requests, NEW pc \in {"lost", "won", "check"}, Goes(r, pc)
  PROVE  /\ GoesOn(r) /\ request'[r].pc = pc
         /\ [request[r] EXCEPT !.pc = pc] \in Request /\ request' = [request EXCEPT ![r] = [request[r] EXCEPT !.pc = pc]]
         /\ [request[r] EXCEPT !.pc = pc].over \subseteq [request[r] EXCEPT !.pc = pc].reads
<1> DEFINE next == [request[r] EXCEPT !.pc = pc]
<1>1. request[r] \in Request /\ request[r].over \subseteq request[r].reads
  BY DEF TypeOK
<1>2. request' = [request EXCEPT ![r] = next]
  BY DEF Goes, TypeOK
<1>3. next \in Request
  BY <1>1, ZenonT(30) DEF Request
<1>4. request'[r] = next
  BY <1>2 DEF TypeOK
<1>5. /\ next.op = request[r].op /\ next.of = request[r].of /\ next.seen = request[r].seen /\ next.reads = request[r].reads
      /\ next.over = request[r].over /\ next.says = request[r].says /\ next.pc = pc
      /\ next.attempt = request[r].attempt /\ next.browser = request[r].browser /\ next.code = request[r].code
      /\ next.found = request[r].found
  BY <1>1 DEF Request
<1> HIDE DEF next
<1>6. GoesOn(r)
  BY <1>4, <1>5 DEF GoesOn
<1>7. next.over \subseteq next.reads
  BY <1>1, <1>5
<1> QED
  BY <1>2, <1>3, <1>4, <1>5, <1>6, <1>7 DEF next

\* After a code was compared a request knows what it knew.
LEMMA CodeCompared ==
  ASSUME IInv, NEW r \in Requests, NEW pc \in {"lost", "won"}, request[r].pc = "factor", GoesOn(r), request'[r].pc = pc,
         \A u \in Users : /\ user'[u].row = user[u].row /\ user'[u].failed = user[u].failed /\ user'[u].locked = user[u].locked
                          /\ user'[u].sv = user[u].sv /\ user'[u].pw = user[u].pw /\ user'[u].secret = user[u].secret,
         crossed \subseteq crossed',
         request[r].op = "enable" /\ pc = "won" => request[r].code.secret = request[r].seen.secret /\ request[r].code.secret # 0
  PROVE  Knows(r)'
<1> DEFINE q == request[r]
           u == request[r].of
<1>1. TypeOK /\ Carried(r) /\ FailedKnown(r) /\ VersionKnown(r) /\ FactorKnown(r)
  BY DEF IInv, Knows
<1>2. q.op \in OfFactor /\ u \in Users /\ user[u].row = "here"
  BY <1>1 DEF Carried, AboutOneUser, Kinds, OfFactor
<1>3. /\ ~SigningIn(r)' /\ ~At(r, "unlink", "write")' /\ (\A p : ~At(r, "update", p)')
      /\ At(r, "enable", "won")' => q.op = "enable" /\ pc = "won"
  BY <1>2 DEF SigningIn, At, GoesOn, OfFactor
<1>4. Carried(r)'
  BY <1>1, <1>2, <1>3 DEF Carried, OfFactor, GoesOn
<1>5. FailedKnown(r)'
  BY <1>1, <1>2, <1>3 DEF FailedKnown, ReadsFailed, GoesOn, OfFactor
<1>6. VersionKnown(r)'
  <2>1. Stale("version", u) => Stale("version", u)'
    BY DEF Stale, GoesOn
  <2>2. q.op = "mfa" => Stale("version", u)' \/ Behind(u, q.seen.sv, q.seen.pw)'
    BY <1>1, <1>2, <2>1 DEF VersionKnown, Behind, GoesOn
  <2> QED
    BY <1>2, <1>3, <2>2 DEF VersionKnown, GoesOn, OfFactor
<1>7. FactorKnown(r)'
  BY <1>1, <1>2, <1>3 DEF FactorKnown, OfFactor, GoesOn
<1> QED
  BY <1>2, <1>4, <1>5, <1>6, <1>7, Ignores DEF Knows, GoesOn, OfFactor

LEMMA FactorRefusedStep ==
  ASSUME IInv, NEW r \in Requests, FactorRefused(r)
  PROVE  IInv'
<1>1. request[r].pc = "factor" /\ Goes(r, "lost") /\ Reads /\ starts' = starts /\ TypeOK
  BY DEF FactorRefused, Reads, IInv
<1>2. Knows(r)'
  <2>1. user' = user /\ crossed' = crossed
    BY <1>1 DEF Reads
  <2> QED
    BY <1>1, <2>1, Going, CodeCompared
<1>3. ~Holds(r)' /\ ~At(r, "unlink", "users") /\ starts' \in 0..agenda.starts
  BY <1>1, Going DEF Holds, At, TypeOK
<1> QED
  BY <1>1, <1>2, <1>3, Going, ReadingKeeps

LEMMA ChangedTyped ==
  ASSUME NEW x \in User, NEW says
  PROVE  /\ Changed(x, says) \in User
         /\ Changed(x, says).row = x.row /\ Changed(x, says).failed = x.failed /\ Changed(x, says).locked = x.locked
         /\ Changed(x, says).on = x.on /\ Changed(x, says).subject = x.subject
         /\ Changed(x, says).sv \in {x.sv, x.sv + 1}
<1> DEFINE privilege == (says = "demote" /\ x.super) \/ (says = "promote" /\ ~x.super) \/ says \in {"sites", "off"}
           super == (x.super \/ says = "promote") /\ says # "demote"
           active == (x.active \/ says = "on") /\ says # "off"
           exempt == (x.exempt \/ says = "exempt") /\ says # "required"
           sv == IF privilege THEN x.sv + 1 ELSE x.sv
           next == [x EXCEPT !.super = super, !.active = active, !.exempt = exempt, !.sv = sv]
<1>1. x.sv \in Nat
  BY DEF User
<1>2. super \in BOOLEAN /\ active \in BOOLEAN /\ exempt \in BOOLEAN
  OBVIOUS
<1>3. sv \in Nat /\ sv \in {x.sv, x.sv + 1}
  BY <1>1
<1>4. Changed(x, says) = next
  BY DEF Changed
<1> HIDE DEF super, active, exempt, sv
<1>5. next \in User
  BY <1>2, <1>3, ZenonT(30) DEF User
<1>6. /\ next.row = x.row /\ next.failed = x.failed /\ next.locked = x.locked /\ next.on = x.on
      /\ next.subject = x.subject /\ next.sv = sv
  BY DEF User
<1> QED
  BY <1>3, <1>4, <1>5, <1>6

LEMMA UpdateChecksStep ==
  ASSUME IInv, NEW r \in Requests, UpdateChecks(r)
  PROVE  IInv'
<1> DEFINE q == request[r]
           u == request[r].of
           row == Changed(request[r].seen, request[r].says)
           next == [request[r] EXCEPT !.pc = "write", !.seen = row]
<1>1. /\ At(r, "update", "check") /\ Reads /\ starts' = starts
      /\ \/ (LosesEmergency(row) => MayLose(u)) /\ request' = [request EXCEPT ![r].pc = "write", ![r].seen = row]
         \/ Ends(r)
  BY DEF UpdateChecks, Reads
<1>2. TypeOK /\ q \in Request /\ q.over \subseteq q.reads /\ Knows(r) /\ q.seen \in User /\ q.op = "update" /\ q.pc = "check"
  BY <1>1, Versions DEF IInv, TypeOK, At
<1>3. ~At(r, "unlink", "users") /\ starts' \in 0..agenda.starts
  BY <1>1, <1>2 DEF At, TypeOK
<1>4. CASE (LosesEmergency(row) => MayLose(u)) /\ request' = [request EXCEPT ![r].pc = "write", ![r].seen = row]
  <2>1. row \in User
    BY <1>2, ChangedTyped
  <2>2. /\ row.row = q.seen.row /\ row.failed = q.seen.failed /\ row.locked = q.seen.locked /\ row.on = q.seen.on
        /\ row.subject = q.seen.subject /\ row.sv \in {q.seen.sv, q.seen.sv + 1}
    BY <1>2, ChangedTyped
  <2>3. LosesEmergency(row) => <<"admins", None>> \in q.reads
    BY <1>1, <1>2 DEF Knows, WayKnown
  <2> HIDE DEF row
  <2>4. request' = [request EXCEPT ![r] = next]
    BY <1>2, <1>4 DEF TypeOK
  <2>5. next \in Request
    BY <1>2, <2>1, ZenonT(30) DEF Request
  <2>6. /\ next.op = "update" /\ next.pc = "write" /\ next.of = u /\ next.seen = row /\ next.reads = q.reads
        /\ next.over = q.over /\ next.says = q.says
    BY <1>2, <2>1 DEF Request
  <2>7. request'[r] = next
    BY <1>2, <2>4 DEF TypeOK
  <2> HIDE DEF next
  <2> DEFINE n == request'[r]
  <2>8. /\ n.op = "update" /\ n.pc = "write" /\ n.of = u /\ n.seen = row /\ n.reads = q.reads
        /\ n.over = q.over /\ n.says = q.says
    BY <2>6, <2>7
  <2> HIDE DEF n
  <2>9. ~SigningIn(r)' /\ ~Holds(r)' /\ ~At(r, "unlink", "write")' /\ ~At(r, "update", "check")' /\ ~At(r, "enable", "won")'
    BY <2>8 DEF SigningIn, Holds, At, n
  <2>10. user' = user /\ EmergencyAdmins' = EmergencyAdmins /\ tenant' = tenant
    BY <1>1 DEF Reads, EmergencyAdmins, Active, Here
  <2>11. Carried(r)'
    BY <1>2, <2>2, <2>8, <2>9, <2>10 DEF Carried, OfFactor, Knows, n, AboutOneUser, Kinds
  <2>12. FailedKnown(r)'
    BY <1>2, <2>2, <2>8, <2>9, <2>10 DEF FailedKnown, ReadsFailed, Knows, n
  <2>13. VersionKnown(r)'
    <3>1. <<"version", u>> \in q.reads /\ (<<"version", u>> \notin q.over => q.seen.sv = user[u].sv)
      BY <1>1, <1>2 DEF VersionKnown, Knows
    <3> QED
      BY <2>2, <2>8, <2>9, <2>10, <3>1 DEF VersionKnown, n
  <2>14. FactorKnown(r)'
    BY <1>2, <2>2, <2>8, <2>9, <2>10 DEF FactorKnown, OfFactor, Knows, n
  <2>15. WayKnown(r)'
    <3>1. <<"subject", u>> \in q.reads /\ (<<"subject", u>> \notin q.over => q.seen.subject = user[u].subject)
      BY <1>2 DEF WayKnown, Knows
    <3>2. LosesEmergency(n.seen) => <<"admins", None>> \in n.reads /\ MayLose(u)
      BY <1>4, <2>3, <2>8
    <3>3. MayLose(u) => (MayLose(request[r].of))'
      BY <2>8, <2>10 DEF MayLose, n
    <3> QED
      BY <2>2, <2>8, <2>9, <2>10, <3>1, <3>2, <3>3 DEF WayKnown, n
  <2>16. Knows(r)'
    BY <2>8, <2>11, <2>12, <2>13, <2>14, <2>15, Ignores DEF Knows, n
  <2> QED
    BY <1>1, <1>2, <1>3, <2>4, <2>5, <2>6, <2>9, <2>16, ReadingKeeps
<1>5. CASE Ends(r)
  BY <1>1, <1>3, <1>5, EndingStep
<1> QED
  BY <1>1, <1>4, <1>5

\* The provider's answer, or the hand-off code, is presented.
LEMMA ContinuesStep ==
  ASSUME IInv, NEW r \in Requests, NEW op \in {"callback", "finish"}, NEW a \in Attempts, NEW b \in Browsers \cup {None},
         attempt[a].state # "unused", op = "finish" => b \in Browsers, Continues(r, op, a, b, "read"), Reads, starts' = starts
  PROVE  IInv'
<1> DEFINE next == [Idle EXCEPT !.op = op, !.pc = "read", !.attempt = a, !.browser = b]
<1>1. request[r] = Idle /\ request' = [request EXCEPT ![r] = next] /\ TypeOK
  BY DEF Continues, IInv
<1>2. next \in Request
  BY IdleTyped, ZenonT(30) DEF Request
<1>3. next.op = op /\ next.pc = "read" /\ next.attempt = a /\ next.browser = b /\ next.reads = {} /\ next.over = {}
  BY IdleTyped, SMT DEF Request
<1>4. request'[r] = next
  BY <1>1 DEF TypeOK
<1> HIDE DEF next
<1>5. ~SigningIn(r)' /\ ~Holds(r)' /\ ~At(r, "unlink", "write")' /\ (\A p : ~At(r, "update", p)') /\ ~At(r, "callback", "write")'
  BY <1>3, <1>4 DEF SigningIn, Holds, At
<1>6. Carried(r)'
  BY <1>3, <1>4, <1>5 DEF Carried, OfFactor, AboutOneUser, Kinds
<1>7. AttemptCarried(r)'
  BY <1>3, <1>4, <1>5 DEF AttemptCarried, Reads
<1>8. FailedKnown(r)' /\ VersionKnown(r)' /\ FactorKnown(r)' /\ WayKnown(r)'
  <2>1. FailedKnown(r)'
    BY <1>3, <1>4, <1>5 DEF FailedKnown, ReadsFailed
  <2>2. VersionKnown(r)'
    BY <1>3, <1>4, <1>5 DEF VersionKnown
  <2>3. FactorKnown(r)'
    BY <1>3, <1>4, Ignores
  <2>4. WayKnown(r)'
    BY <1>3, <1>4, <1>5 DEF WayKnown
  <2> QED
    BY <2>1, <2>2, <2>3, <2>4
<1>9. Knows(r)'
  BY <1>6, <1>7, <1>8 DEF Knows
<1>10. ~At(r, "unlink", "users") /\ starts' \in 0..agenda.starts /\ next.over \subseteq next.reads
  BY <1>1, <1>3, IdleTyped DEF At, TypeOK
<1> QED
  BY <1>1, <1>2, <1>5, <1>9, <1>10, ReadingKeeps

LEMMA AnswersArrive ==
  ASSUME IInv, NEW r \in Requests, CallbackReads(r) \/ FinishReads(r)
  PROVE  IInv'
<1>1. Reads /\ starts' = starts
  BY DEF CallbackReads, FinishReads, Reads
<1>2. CASE CallbackReads(r)
  <2>1. PICK a \in Attempts : attempt[a].state = "begun" /\ Continues(r, "callback", a, None, "read")
    BY <1>2 DEF CallbackReads
  <2> QED
    BY <1>1, <2>1, ContinuesStep
<1>3. CASE FinishReads(r)
  <2>1. PICK a \in Attempts, b \in Browsers : attempt[a].state = "handed" /\ Continues(r, "finish", a, b, "read")
    BY <1>3 DEF FinishReads
  <2> QED
    BY <1>1, <2>1, ContinuesStep
<1> QED
  BY <1>2, <1>3

LEMMA CallbackRedeemsStep ==
  ASSUME IInv, NEW r \in Requests, CallbackRedeems(r)
  PROVE  IInv'
<1> DEFINE q == request[r]
<1>1. PICK found \in Confirmed(q.attempt) : request' = [request EXCEPT ![r].pc = "write", ![r].found = found]
  BY DEF CallbackRedeems
<1>2. At(r, "callback", "read") /\ Reads /\ starts' = starts
  BY DEF CallbackRedeems, Reads
<1>3. TypeOK /\ q \in Request /\ q.over \subseteq q.reads /\ Knows(r) /\ q.op = "callback" /\ q.attempt \in Attempts
  BY <1>2 DEF IInv, TypeOK, At, Knows, AttemptCarried
<1>4. found \in (Directories \cup {None}) \X (Users \cup {None, "somebody"})
  <2>1. tenant.dir \in Directories \cup {None}
    BY <1>3 DEF TypeOK, Tenant
  <2> QED
    BY <2>1, <1>1 DEF Confirmed
<1>5. attempt[q.attempt].mode = "sso" => found[2] \in Users \cup {None}
  BY <1>1 DEF Confirmed
<1> DEFINE next == [request[r] EXCEPT !.pc = "write", !.found = found]
<1>6. request' = [request EXCEPT ![r] = next]
  BY <1>1, <1>3 DEF TypeOK
<1>7. next \in Request
  BY <1>3, <1>4, ZenonT(30) DEF Request
<1>8. next.op = "callback" /\ next.pc = "write" /\ next.attempt = q.attempt /\ next.found = found
      /\ next.reads = q.reads /\ next.over = q.over
  BY <1>3, <1>4 DEF Request
<1>9. request'[r] = next
  BY <1>3, <1>6 DEF TypeOK
<1> HIDE DEF next
<1>10. ~SigningIn(r)' /\ ~Holds(r)' /\ ~At(r, "unlink", "write")' /\ (\A p : ~At(r, "update", p)')
  BY <1>8, <1>9 DEF SigningIn, Holds, At
<1>11. Carried(r)'
  BY <1>8, <1>9, <1>10 DEF Carried, OfFactor, AboutOneUser, Kinds
<1>12. AttemptCarried(r)'
  BY <1>2, <1>3, <1>5, <1>8, <1>9, <1>10 DEF AttemptCarried, Reads, Knows
<1>13. Knows(r)'
  BY <1>8, <1>9, <1>11, <1>12, Ignores DEF Knows
<1>14. ~At(r, "unlink", "users") /\ starts' \in 0..agenda.starts /\ next.over \subseteq next.reads
  BY <1>2, <1>3, <1>8 DEF At, TypeOK
<1> QED
  BY <1>2, <1>6, <1>7, <1>10, <1>13, <1>14, ReadingKeeps

LEMMA SignInReadsStep ==
  ASSUME IInv, NEW r \in Requests, SignInReads(r)
  PROVE  IInv'
<1> DEFINE q == request[r]
           x == attempt[request[r].attempt]
           u == attempt[request[r].attempt].who
           reads == {<<"failed", u>>, <<"subject", u>>, <<"directory", None>>}
           next == [request[r] EXCEPT !.pc = "write", !.of = u, !.seen = user[u], !.reads = reads]
           Fits == /\ SameDirectory(q.attempt) /\ user[u].row = "here"
                   /\ request' = [request EXCEPT ![r] = next]
<1>1. At(r, "finish", "check") /\ x.mode = "sso" /\ Reads /\ starts' = starts
  BY DEF SignInReads, Reads
<1>2. Fits \/ Ends(r)
  BY DEF SignInReads, Ends
<1>3. TypeOK /\ q \in Request /\ q.over \subseteq q.reads /\ Knows(r) /\ q.op = "finish" /\ q.pc = "check" /\ q.attempt \in Attempts
  BY <1>1 DEF IInv, TypeOK, At, Knows, AttemptCarried
<1>4. Holds(r)
  BY <1>3 DEF Holds
<1>5. u \in Users /\ q.over = {}
  <2>1. u # None
    BY <1>3, <1>4 DEF Knows, AttemptCarried
  <2>2. u \in Users \cup {None}
    BY <1>1, <1>3 DEF IInv, AttemptState, AttemptsTaken
  <2>3. q.reads = {}
    BY <1>3 DEF Knows, Carried
  <2> QED
    BY <1>3, <2>1, <2>2, <2>3
<1>6. ~At(r, "unlink", "users") /\ starts' \in 0..agenda.starts
  BY <1>1, <1>3 DEF At, TypeOK
<1>7. CASE Fits
  <2>1. user[u] \in User /\ reads \in SUBSET Facts
    BY <1>3, <1>5, AboutTyped
  <2>2. next \in Request
    <3> HIDE DEF reads, u
    <3> QED
      BY <1>3, <1>5, <2>1, ZenonT(30) DEF Request
  <2>3. /\ next.op = "finish" /\ next.pc = "write" /\ next.of = u /\ next.seen = user[u] /\ next.reads = reads
        /\ next.over = {} /\ next.attempt = q.attempt /\ next.browser = q.browser
    <3> HIDE DEF reads, u
    <3> QED
      BY <1>3, <1>5, <2>1 DEF Request
  <2>4. request'[r] = next /\ request' = [request EXCEPT ![r] = next]
    BY <1>3, <1>7 DEF TypeOK
  <2> HIDE DEF next
  <2>5. SigningIn(r)' /\ Holds(r)' /\ ~At(r, "unlink", "write")' /\ (\A p : ~At(r, "update", p)') /\ ~At(r, "callback", "write")'
    BY <2>3, <2>4 DEF SigningIn, Holds, At
  <2>6. user' = user /\ tenant' = tenant /\ attempt' = attempt /\ opened' = opened
    BY <1>1 DEF Reads
  <2>7. Carried(r)'
    BY <1>5, <1>7, <2>3, <2>4, <2>5, <2>6 DEF Carried, OfFactor, AboutOneUser, Kinds
  <2>8. AttemptCarried(r)'
    BY <1>3, <1>4, <2>3, <2>4, <2>5, <2>6 DEF AttemptCarried, Knows
  <2>9. FailedKnown(r)'
    BY <2>3, <2>4, <2>6 DEF FailedKnown
  <2>10. VersionKnown(r)'
    <3>1. user[u].sv \in Nat
      BY <2>1 DEF User
    <3>2. Behind(request[r].of, request[r].seen.sv, request[r].seen.pw)'
      BY <2>3, <2>4, <2>6, <3>1 DEF Behind
    <3> QED
      BY <2>3, <2>4, <2>5, <3>2 DEF VersionKnown
  <2>11. FactorKnown(r)'
    BY <2>3, <2>4, Ignores
  <2>12. WayKnown(r)'
    BY <1>7, <2>3, <2>4, <2>5, <2>6 DEF WayKnown, SameDirectory
  <2>13. Knows(r)'
    BY <2>7, <2>8, <2>9, <2>10, <2>11, <2>12 DEF Knows
  <2>14. request'[r].attempt = request[r].attempt /\ next.over \subseteq next.reads
    BY <2>3, <2>4
  <2> QED
    BY <1>1, <1>4, <1>6, <2>2, <2>4, <2>13, <2>14, ReadingKeeps
<1>8. CASE Ends(r)
  BY <1>1, <1>6, <1>8, EndingStep
<1> QED
  BY <1>2, <1>7, <1>8

-----------------------------------------------------------------------------
(* Requests that write, and end *)

\* What every write notes.
LEMMA WriteNotes ==
  ASSUME TypeOK, NEW r \in Requests, NEW ws, NEW next, Writes(r, ws, next)
  PROVE  /\ crossed \subseteq crossed' /\ request[r].over \subseteq crossed' /\ crossed' \subseteq Facts
         /\ overlaps' \in [Users -> Nat]
         /\ \A u \in Users : overlaps[u] <= overlaps'[u] /\ (<<"failed", u>> \in request[r].over => overlaps'[u] = overlaps[u] + 1)
<1>1. request[r].over \subseteq Facts
  BY DEF TypeOK, Request
<1>2. \A u \in Users : overlaps[u] \in Nat
  BY DEF TypeOK
<1>3. overlaps' = [u \in Users |-> overlaps[u] + (IF <<"failed", u>> \in request[r].over THEN 1 ELSE 0)]
  BY DEF Writes
<1>4. \A u \in Users : overlaps[u] + (IF <<"failed", u>> \in request[r].over THEN 1 ELSE 0) \in Nat
  BY <1>2
<1>5. overlaps' \in [Users -> Nat]
  BY <1>3, <1>4
<1>6. ASSUME NEW u \in Users
      PROVE  overlaps[u] <= overlaps'[u] /\ (<<"failed", u>> \in request[r].over => overlaps'[u] = overlaps[u] + 1)
  <2>1. overlaps'[u] = overlaps[u] + (IF <<"failed", u>> \in request[r].over THEN 1 ELSE 0)
    BY <1>3
  <2>2. overlaps[u] \in Nat
    BY <1>2
  <2> QED
    BY <2>1, <2>2
<1>7. crossed' = crossed \cup request[r].over
  BY DEF Writes
<1> QED
  BY <1>1, <1>5, <1>6, <1>7 DEF TypeOK

\* The tokens a new version refuses.
LEMMA Refusing ==
  ASSUME TypeOK, NEW rows, UserBecomes(rows), tokens \subseteq tokens'
  PROVE  /\ user' = rows /\ ended' \subseteq tokens'
         /\ \A t \in ended' \ ended : t \in tokens /\ user'[t.user].sv # t.sv
BY DEF UserBecomes, Refused, TypeOK

LEMMA UnlinkingStays ==
  ASSUME NEW r \in Requests, NEW next, NEW ws, Moves(r, next, ws), ~At(r, "unlink", "users"), Unlinking
  PROVE  Unlinking'
<1>1. PICK x \in Requests : At(x, "unlink", "users")
  BY DEF Unlinking
<1>2. x # r
  BY <1>1
<1>3. At(x, "unlink", "users")'
  BY <1>1, <1>2 DEF Moves, Follows, At
<1> QED
  BY <1>3 DEF Unlinking

\* One row becomes another.
LEMMA OneRow ==
  ASSUME TypeOK, NEW u \in Users, NEW row \in User, user' = [user EXCEPT ![u] = row]
  PROVE  /\ user' \in [Users -> User] /\ user'[u] = row /\ \A v \in Users \ {u} : user'[v] = user[v]
         /\ row.row = user[u].row => Here' = Here
         /\ (row.row = user[u].row /\ row.active = user[u].active /\ row.super = user[u].super /\ row.exempt = user[u].exempt)
              => EmergencyAdmins' = EmergencyAdmins
<1>1. user \in [Users -> User]
  BY DEF TypeOK
<1>2. user' \in [Users -> User] /\ user'[u] = row /\ \A v \in Users \ {u} : user'[v] = user[v]
  BY <1>1
<1> QED
  BY <1>2 DEF Here, EmergencyAdmins, Active

\* The facts ws cover all that row says otherwise than the row of u.
RowCovered(u, row, ws) ==
  /\ row.row = user[u].row
  /\ <<"failed", u>> \in ws \/ (row.failed = user[u].failed /\ row.locked = user[u].locked)
  /\ <<"version", u>> \in ws \/ row.sv = user[u].sv
  /\ Stale("version", u)' \/ (user[u].sv <= row.sv /\ (user[u].sv = row.sv => user[u].pw = row.pw))
  /\ <<"factor", u>> \in ws \/ (row.on = user[u].on /\ row.secret = user[u].secret)
  /\ <<"subject", u>> \in ws \/ row.subject = user[u].subject
  /\ \/ <<"admins", None>> \in ws
     \/ row.active = user[u].active /\ row.super = user[u].super /\ row.exempt = user[u].exempt

LEMMA RowCovers ==
  ASSUME TypeOK, NEW u \in Users, NEW row \in User, user' = [user EXCEPT ![u] = row], NEW ws, RowCovered(u, row, ws),
         tenant' = tenant, crossed \subseteq crossed'
  PROVE  Covers(ws)
<1>1. user'[u] = row /\ (\A v \in Users \ {u} : user'[v] = user[v])
  BY OneRow
<1>2. <<"admins", None>> \in ws \/ EmergencyAdmins' = EmergencyAdmins
  BY OneRow DEF RowCovered
<1>3. ASSUME NEW v \in Here
      PROVE  /\ user'[v].row = "here"
             /\ <<"failed", v>> \in ws \/ (user'[v].failed = user[v].failed /\ user'[v].locked = user[v].locked)
             /\ <<"version", v>> \in ws \/ user'[v].sv = user[v].sv
             /\ Stale("version", v)' \/ (user[v].sv <= user'[v].sv /\ (user[v].sv = user'[v].sv => user[v].pw = user'[v].pw))
             /\ <<"factor", v>> \in ws \/ (user'[v].on = user[v].on /\ user'[v].secret = user[v].secret)
             /\ <<"subject", v>> \in ws \/ user'[v].subject = user[v].subject
  <2>1. v \in Users /\ user[v].row = "here" /\ user[v].sv \in Nat
    BY DEF Here, TypeOK, User
  <2>2. CASE v = u
    BY <1>1, <2>1, <2>2 DEF RowCovered
  <2>3. CASE v # u
    <3>1. user'[v] = user[v]
      BY <1>1, <2>1, <2>3
    <3> QED
      BY <2>1, <3>1
  <2> QED
    BY <2>2, <2>3
<1>4. tenant'.dir = tenant.dir /\ (tenant'.enforced => tenant.enforced)
  OBVIOUS
<1> QED
  BY <1>2, <1>3, <1>4, Zenon DEF Covers

LEMMA AllKnow ==
  ASSUME IInv, TypeOK', NEW r \in Requests, NEW next, NEW ws, Moves(r, next, ws), Covers(ws), AttemptsStay(r), Knows(r)'
  PROVE  \A x \in Requests : Knows(x)'
<1> SUFFICES ASSUME NEW x \in Requests, x # r PROVE Knows(x)'
  OBVIOUS
<1>1. Knows(x) /\ Follows(x, ws) /\ TypeOK
  BY DEF IInv, Moves
<1> QED
  BY <1>1, OthersKnow

\* A write of the request r, which ends, of the row of an account that is in the table:
\* neither the administrators, nor the binding, nor any attempt.
RowWrite(r, u, row, ws) ==
  /\ user[u].row = "here" /\ user' = [user EXCEPT ![u] = row] /\ RowCovered(u, row, ws)
  /\ row.subject = user[u].subject
  /\ row.active = user[u].active /\ row.super = user[u].super /\ row.exempt = user[u].exempt
  /\ Writes(r, ws, Idle)
  /\ ~At(r, "unlink", "users")
  /\ UNCHANGED <<agenda, tenant, attempt, step, starts, opened>>

LEMMA RowWriteKeeps ==
  ASSUME IInv, NEW r \in Requests, NEW u \in Users, NEW row \in User, NEW ws, RowWrite(r, u, row, ws),
         tokens' \subseteq Token,
         \A t \in tokens' \ tokens : t.user \in Here /\ (Stale("version", t.user) \/ Behind(t.user, t.sv, t.pw)),
         ended' \subseteq tokens', \A t \in ended' \ ended : t \in tokens /\ user'[t.user].sv # t.sv,
         fresh' \in Nat, proven' \in [Users -> Nat], accepted' = accepted, missed' \in [Users -> Nat],
         TypeOK' => CountState' /\ FactorState'
  PROVE  IInv'
<1>1. TypeOK /\ TokensOfUsers /\ AttemptState /\ VersionState /\ WayState
  BY DEF IInv
<1>2. RequestsTyped /\ Idle \in Request /\ Idle.over \subseteq Idle.reads
  BY <1>1, IdleTyped DEF TypeOK, RequestsTyped
<1>3. RequestsTyped' /\ Moves(r, Idle, ws)
  BY <1>2, WriteMoves DEF RowWrite
<1>4. crossed \subseteq crossed' /\ crossed' \subseteq Facts /\ overlaps' \in [Users -> Nat]
  BY <1>1, WriteNotes DEF RowWrite
<1>5. user' \in [Users -> User] /\ user'[u] = row /\ (\A v \in Users \ {u} : user'[v] = user[v])
  BY <1>1, OneRow DEF RowWrite
<1>6. Here' = Here /\ EmergencyAdmins' = EmergencyAdmins
  BY <1>1, OneRow DEF RowWrite, RowCovered
<1>7. TypeOK'
  BY <1>1, <1>3, <1>4, <1>5 DEF TypeOK, RequestsTyped, RowWrite
<1>8. Covers(ws)
  BY <1>1, <1>4, RowCovers DEF RowWrite
<1>9. AttemptsStay(r)
  BY DEF RowWrite, AttemptsStay
<1>10. request'[r] = Idle
  BY <1>3 DEF Moves
<1>11. \A x \in Requests : Knows(x)'
  BY <1>3, <1>7, <1>8, <1>9, <1>10, IdleKnows, AllKnow
<1>12. TokensOfUsers' /\ VersionState'
  BY <1>1, <1>7, <1>8, VersionsStay
<1>13. AttemptState'
  <2>1. ~Holds(r)'
    BY <1>10, IdleTyped DEF Holds
  <2> QED
    BY <1>1, <1>3, <2>1, AttemptsStayTaken DEF RowWrite
<1>14. WayState'
  <2>1. Unlinking => Unlinking'
    BY <1>3, UnlinkingStays DEF RowWrite
  <2>2. \A v \in Here : user'[v].subject = user[v].subject
    BY <1>5 DEF RowWrite, Here
  <2> QED
    BY <1>1, <1>4, <1>6, <2>1, <2>2, WayStays DEF RowWrite
<1>15. Untried'
  BY <1>5 DEF IInv, Untried, RowWrite, RowCovered
<1> QED
  BY <1>7, <1>11, <1>12, <1>13, <1>14, <1>15 DEF IInv

LEMMA CountUntouched ==
  ASSUME IInv, TypeOK', NEW u \in Users, NEW row \in User, user' = [user EXCEPT ![u] = row],
         row.failed = user[u].failed, row.locked = user[u].locked, missed' = missed,
         \A v \in Users : overlaps[v] <= overlaps'[v]
  PROVE  CountState'
<1>1. \A v \in Users : user'[v].failed = user[v].failed /\ user'[v].locked = user[v].locked
  BY OneRow DEF IInv
<1> QED
  BY <1>1, CountsStay DEF IInv

LEMMA FactorUntouched ==
  ASSUME IInv, NEW u \in Users, NEW row \in User, user' = [user EXCEPT ![u] = row],
         row.on = user[u].on, row.secret = user[u].secret, row.last = user[u].last, row.recovery = user[u].recovery,
         proven' = proven, accepted' = accepted, fresh' = fresh, crossed \subseteq crossed'
  PROVE  FactorState'
<1>1. \A v \in Users : FactorSame(v)
  BY OneRow DEF IInv, FactorSame
<1>2. fresh' \in Nat /\ fresh <= fresh'
  BY DEF IInv, TypeOK
<1> QED
  BY <1>1, <1>2, FactorsStay DEF IInv

\* A wrong password or code costs a count, or the lock.
LEMMA FailsStep ==
  ASSUME IInv, NEW r \in Requests, NEW u \in Users, u = request[r].of,
         request[r].op \in {"login", "mfa"}, ~request[r].seen.locked, Fails(r),
         UNCHANGED <<agenda, tenant, tokens, attempt, step, starts, fresh, proven, accepted, opened>>
  PROVE  IInv'
<1> DEFINE q == request[r]
           over == <<"failed", u>> \in request[r].over
           locks == request[r].seen.failed + 1 >= MaxFailed
           f == IF request[r].seen.failed + 1 >= MaxFailed THEN 0 ELSE request[r].seen.failed + 1
           row == [user[u] EXCEPT !.failed = f, !.locked = locks]
           ws == {<<"failed", u>>}
<1>1. TypeOK /\ Knows(r)
  BY DEF IInv
<1>2. u \in Users /\ u \in Here /\ user[u].row = "here" /\ user[u] \in User
  BY <1>1, OfHere, AboutTyped DEF Knows, AboutOneUser, Kinds, Here
<1>3. q.seen.failed \in Nat /\ user[u].failed \in Nat /\ user[u].failed < MaxFailed
  <2>1. q.seen \in User
    BY <1>1, Versions
  <2>2. q.seen.failed \in 0..(MaxFailed - 1) /\ user[u].failed \in 0..(MaxFailed - 1)
    BY <1>2, <2>1 DEF User
  <2> QED
    BY <2>2, Sizes
<1>4. f \in 0..(MaxFailed - 1) /\ locks \in BOOLEAN
  BY <1>3, Sizes
<1>5. UserBecomes(FailAttempt(u, q.seen)) /\ missed' = [missed EXCEPT ![u] = @ + 1] /\ Writes(r, ws, Idle)
  BY DEF Fails
<1>6. user' = [user EXCEPT ![u] = row]
  <2>1. user' = FailAttempt(u, q.seen)
    BY <1>5 DEF UserBecomes
  <2>2. CASE locks
    <3>1. user' = [user EXCEPT ![u].failed = 0, ![u].locked = TRUE]
      BY <2>1, <2>2 DEF FailAttempt
    <3> QED
      BY <1>1, <1>2, <2>2, <3>1 DEF TypeOK
  <2>3. CASE ~locks
    <3>1. user' = [user EXCEPT ![u].failed = q.seen.failed + 1, ![u].locked = FALSE]
      BY <2>1, <2>3 DEF FailAttempt
    <3>2. f = q.seen.failed + 1 /\ locks = FALSE
      BY <2>3
    <3>3. row = [user[u] EXCEPT !.failed = q.seen.failed + 1, !.locked = FALSE]
      BY <3>2
    <3> HIDE DEF row, f, locks
    <3> QED
      BY <1>1, <1>2, <3>1, <3>3 DEF TypeOK
  <2> QED
    BY <2>2, <2>3
<1>7. locks => f = 0
  OBVIOUS
<1>8. ~locks => f = q.seen.failed + 1
  OBVIOUS
<1> HIDE DEF f, locks
<1>9. row \in User
  BY <1>2, <1>4, ZenonT(30) DEF User
<1>10. /\ row.failed = f /\ row.locked = locks
       /\ row.row = user[u].row /\ row.active = user[u].active /\ row.super = user[u].super /\ row.exempt = user[u].exempt
       /\ row.sv = user[u].sv /\ row.pw = user[u].pw /\ row.on = user[u].on /\ row.secret = user[u].secret
       /\ row.last = user[u].last /\ row.recovery = user[u].recovery /\ row.subject = user[u].subject
  BY <1>2 DEF User
<1> HIDE DEF row
<1>11. user[u].sv \in Nat
  BY <1>2 DEF User
<1>12. RowWrite(r, u, row, ws)
  BY <1>1, <1>2, <1>5, <1>6, <1>10, <1>11 DEF RowWrite, RowCovered, At
<1>13. ended' \subseteq tokens' /\ \A t \in ended' \ ended : t \in tokens /\ user'[t.user].sv # t.sv
  BY <1>1, <1>5, Refusing
<1>14. missed' \in [Users -> Nat]
  <2>1. missed[u] + 1 \in Nat
    BY <1>1, <1>2 DEF TypeOK
  <2> QED
    BY <1>1, <1>5, <2>1 DEF TypeOK
<1>15. crossed \subseteq crossed' /\ \A v \in Users : overlaps[v] <= overlaps'[v] /\ (<<"failed", v>> \in q.over => overlaps'[v] = overlaps[v] + 1)
  BY <1>1, <1>5, WriteNotes
<1>16. ASSUME TypeOK' PROVE CountState'
  <2>1. user'[u] = row /\ \A v \in Users \ {u} : user'[v] = user[v]
    BY <1>1, <1>2, <1>6, <1>9, OneRow
  <2>2. Counted(u)'
    <3> DEFINE o == overlaps[u]
               n == overlaps'[u]
               m == missed[u]
               held == IF user[u].locked THEN MaxFailed ELSE user[u].failed
               next == IF locks THEN MaxFailed ELSE f
               a == MaxFailed * overlaps[u]
               b == MaxFailed * overlaps'[u]
    <3>1. o \in Nat /\ n \in Nat /\ m \in Nat /\ missed'[u] = m + 1 /\ o <= n /\ MaxFailed \in Nat
      BY <1>1, <1>2, <1>5, <1>15, <1>16, Sizes DEF TypeOK
    <3>2. a \in Nat /\ b \in Nat /\ a <= b
      BY <3>1, Times
    <3>3. over => b = a + MaxFailed
      <4>1. MaxFailed * (o + 1) = MaxFailed * o + MaxFailed
        BY <3>1, Times
      <4>2. over => n = o + 1
        BY <1>2, <1>15
      <4> QED
        BY <4>1, <4>2
    <3>4. m <= a + held
      BY <1>2 DEF IInv, CountState, Counted
    <3>5. held \in Nat /\ held <= MaxFailed
      BY <1>3, Sizes
    <3>6. over \/ (user[u].failed = q.seen.failed /\ ~user[u].locked)
      BY <1>1 DEF Knows, FailedKnown, ReadsFailed
    <3>7. next \in Nat /\ next >= 1 /\ next <= MaxFailed /\ (next = q.seen.failed + 1 \/ next = MaxFailed)
      BY <1>3, <1>8, <1>4, Sizes
    <3>8. Counted(u)' <=> m + 1 <= b + next
      <4>1. Counted(u)' <=> m + 1 <= b + (IF row.locked THEN MaxFailed ELSE row.failed)
        BY <2>1, <3>1 DEF Counted
      <4>2. (IF row.locked THEN MaxFailed ELSE row.failed) = next
        BY <1>10
      <4> QED
        BY <4>1, <4>2
    <3>9. CASE over
      <4> HIDE DEF a, b, next, held, m
      <4> QED
        BY <3>1, <3>2, <3>3, <3>4, <3>5, <3>7, <3>8, <3>9
    <3>10. CASE ~over
      <4>1. held = q.seen.failed /\ held + 1 <= MaxFailed
        BY <1>3, <3>6, <3>10, Sizes
      <4>2. next >= held + 1
        BY <1>3, <3>7, <4>1, Sizes
      <4> HIDE DEF a, b, next, held, m
      <4> QED
        BY <3>1, <3>2, <3>4, <3>5, <3>7, <3>8, <4>2
    <3> QED
      BY <3>9, <3>10
  <2>3. \A v \in Users \ {u} : missed'[v] = missed[v]
    BY <1>1, <1>5 DEF TypeOK
  <2>4. ASSUME NEW v \in Users
        PROVE  \/ Counted(v)'
               \/ missed'[v] = 0
               \/ /\ user'[v].failed = user[v].failed /\ user'[v].locked = user[v].locked
                  /\ missed'[v] = missed[v] /\ overlaps[v] <= overlaps'[v]
    BY <1>15, <2>1, <2>2, <2>3
  <2> QED
    BY <1>16, <2>4, CountsStay DEF IInv
<1>17. FactorState'
  BY <1>2, <1>6, <1>9, <1>10, <1>15, FactorUntouched
<1>18. /\ tokens' \subseteq Token /\ tokens' \ tokens = {} /\ fresh' \in Nat /\ proven' \in [Users -> Nat]
  BY <1>1 DEF TypeOK
<1> QED
  BY <1>2, <1>9, <1>12, <1>13, <1>14, <1>16, <1>17, <1>18, RowWriteKeeps

LEMMA WrongTries ==
  ASSUME IInv, NEW r \in Requests, LoginFails(r) \/ MfaFails(r)
  PROVE  IInv'
<1>1. Knows(r)
  BY DEF IInv
<1>a. request[r].op \in {"login", "mfa"} => request[r].of \in Users
  BY <1>1, OfHere DEF Knows, IInv, AboutOneUser, Kinds
<1>2. CASE LoginFails(r)
  BY <1>2, <1>a, FailsStep DEF LoginFails, At
<1>3. CASE MfaFails(r)
  BY <1>1, <1>3, <1>a, FailsStep DEF MfaFails, At, Knows, FailedKnown
<1> QED
  BY <1>2, <1>3

\* A session of a row that has not a newer version than the user.
LEMMA OpensStep ==
  ASSUME IInv, NEW r \in Requests, NEW u \in Users, u = request[r].of,
         request[r].op \in {"login", "mfa"}, OpensSession(r, request[r].seen, "session", user),
         UNCHANGED <<agenda, tenant, attempt, step, starts, fresh, proven, accepted, opened>>
  PROVE  IInv'
<1> DEFINE q == request[r]
           row == [user[u] EXCEPT !.failed = 0, !.locked = FALSE]
           ws == {<<"failed", u>>, <<"subject", u>>}
           token == [user |-> u, sv |-> q.seen.sv, typ |-> "session", pw |-> q.seen.pw]
<1>1. TypeOK /\ Knows(r)
  BY DEF IInv
<1>2. u \in Here /\ user[u].row = "here" /\ user[u] \in User
  BY <1>1, OfHere, AboutTyped DEF Knows, AboutOneUser, Kinds, Here
<1>3. /\ UserBecomes([user EXCEPT ![u].failed = 0, ![u].locked = FALSE])
      /\ tokens' = tokens \cup {token} /\ missed' = [missed EXCEPT ![u] = 0] /\ Writes(r, ws, Idle)
  BY DEF OpensSession
<1>4. user' = [user EXCEPT ![u] = row]
  <2>1. user' = [user EXCEPT ![u].failed = 0, ![u].locked = FALSE]
    BY <1>3 DEF UserBecomes
  <2> QED
    BY <1>1, <2>1 DEF TypeOK
<1>5. row \in User
  BY <1>2, Sizes, ZenonT(30) DEF User
<1>6. /\ row.failed = 0 /\ row.locked = FALSE
      /\ row.row = user[u].row /\ row.active = user[u].active /\ row.super = user[u].super /\ row.exempt = user[u].exempt
      /\ row.sv = user[u].sv /\ row.pw = user[u].pw /\ row.on = user[u].on /\ row.secret = user[u].secret
      /\ row.last = user[u].last /\ row.recovery = user[u].recovery /\ row.subject = user[u].subject
  BY <1>2 DEF User
<1> HIDE DEF row
<1>7. user[u].sv \in Nat
  BY <1>2 DEF User
<1>8. RowWrite(r, u, row, ws)
  BY <1>1, <1>2, <1>3, <1>4, <1>6, <1>7 DEF RowWrite, RowCovered, At
<1>9. ended' \subseteq tokens' /\ \A t \in ended' \ ended : t \in tokens /\ user'[t.user].sv # t.sv
  BY <1>1, <1>3, Refusing
<1>10. crossed \subseteq crossed' /\ \A v \in Users : overlaps[v] <= overlaps'[v]
  BY <1>1, <1>3, WriteNotes
<1>11. ASSUME TypeOK' PROVE CountState'
  <2>1. \A v \in Users \ {u} : user'[v] = user[v]
    BY <1>1, <1>4, <1>5, OneRow
  <2>2. missed'[u] = 0 /\ \A v \in Users \ {u} : missed'[v] = missed[v]
    BY <1>1, <1>3 DEF TypeOK
  <2>3. ASSUME NEW v \in Users
        PROVE  \/ missed'[v] = 0
               \/ /\ user'[v].failed = user[v].failed /\ user'[v].locked = user[v].locked
                  /\ missed'[v] = missed[v] /\ overlaps[v] <= overlaps'[v]
    BY <1>10, <2>1, <2>2
  <2> QED
    BY <1>11, <2>3, CountsStay DEF IInv
<1>12. FactorState'
  BY <1>4, <1>5, <1>6, <1>10, FactorUntouched
<1>13. token \in Token
  BY <1>1, Versions DEF Token
<1>14. Stale("version", u) \/ Behind(u, q.seen.sv, q.seen.pw)
  BY <1>1 DEF Knows, VersionKnown
<1>15. /\ tokens' \subseteq Token /\ fresh' \in Nat /\ proven' \in [Users -> Nat] /\ missed' \in [Users -> Nat]
       /\ \A t \in tokens' \ tokens : t.user \in Here /\ (Stale("version", t.user) \/ Behind(t.user, t.sv, t.pw))
  BY <1>1, <1>2, <1>3, <1>13, <1>14 DEF TypeOK
<1> QED
  BY <1>5, <1>8, <1>9, <1>11, <1>12, <1>15, RowWriteKeeps

LEMMA OpeningSteps ==
  ASSUME IInv, NEW r \in Requests, LoginOpens(r) \/ MfaOpens(r)
  PROVE  IInv'
<1>1. request[r].op \in {"login", "mfa"} => request[r].of \in Users
  BY OfHere DEF Knows, IInv, AboutOneUser, Kinds
<1>2. CASE LoginOpens(r)
  BY <1>1, <1>2, OpensStep DEF LoginOpens, LoginPasses, At
<1>3. CASE MfaOpens(r)
  BY <1>1, <1>3, OpensStep DEF MfaOpens, At
<1> QED
  BY <1>2, <1>3

\* The ticket to the second step is of a row that was read.
LEMMA LoginTicketsStep ==
  ASSUME IInv, NEW r \in Requests, LoginTickets(r)
  PROVE  IInv'
<1> DEFINE q == request[r]
           token == [user |-> q.of, sv |-> q.seen.sv, typ |-> "mfa", pw |-> q.seen.pw]
<1>1. TypeOK /\ Knows(r) /\ q.op = "login" /\ RequestsTyped
  BY DEF IInv, LoginTickets, LoginPasses, At, TypeOK, RequestsTyped
<1>2. q.of \in Users /\ q.of \in Here
  BY <1>1, OfHere DEF Knows, AboutOneUser, Kinds
<1>3. /\ tokens' = tokens \cup {token} /\ Ends(r)
      /\ UNCHANGED <<agenda, user, tenant, attempt, step, starts, fresh, ended, missed, proven, accepted, opened, overlaps, crossed>>
  BY DEF LoginTickets
<1>4. token \in Token
  BY <1>1, <1>2, Versions DEF Token
<1>5. RequestsTyped' /\ Moves(r, Idle, {}) /\ request'[r] = Idle
  BY <1>1, <1>3, IdleTyped, OneMoves DEF Ends, Moves
<1>6. TypeOK'
  BY <1>1, <1>3, <1>4, <1>5 DEF TypeOK, RequestsTyped
<1>7. Here' = Here /\ EmergencyAdmins' = EmergencyAdmins
  BY <1>3 DEF Here, EmergencyAdmins, Active
<1>8. Covers({}) /\ AttemptsStay(r)
  <2>1. \A v \in Here : user[v].row = "here" /\ user[v].sv \in Nat
    BY <1>1 DEF Here, TypeOK, User
  <2> QED
    BY <1>3, <1>7, <2>1 DEF Covers, AttemptsStay
<1>9. \A x \in Requests : Knows(x)'
  BY <1>5, <1>6, <1>8, IdleKnows, AllKnow
<1>10. TokensOfUsers' /\ VersionState'
  <2>1. \A t \in tokens' \ tokens : t.user \in Here /\ (Stale("version", t.user) \/ Behind(t.user, t.sv, t.pw))
    BY <1>1, <1>2, <1>3 DEF Knows, VersionKnown
  <2>2. ended' \ ended = {}
    BY <1>3
  <2> QED
    BY <1>1, <1>6, <1>8, <2>1, <2>2, VersionsStay DEF IInv
<1>11. CountState' /\ FactorState'
  BY <1>3 DEF IInv, CountState, Counted, FactorState, Drawn, FactorHolds, Used, Stale
<1>12. AttemptState'
  <2>1. ~Holds(r)'
    BY <1>5, IdleTyped DEF Holds
  <2> QED
    BY <1>3, <1>5, <2>1, AttemptsStayTaken DEF IInv
<1>13. WayState'
  <2>1. Unlinking => Unlinking'
    BY <1>1, <1>5, UnlinkingStays DEF At
  <2> QED
    BY <1>3, <1>7, <2>1, WayStays DEF IInv
<1>14. Untried'
  BY <1>3 DEF IInv, Untried
<1> QED
  BY <1>6, <1>9, <1>10, <1>11, <1>12, <1>13, <1>14 DEF IInv

-----------------------------------------------------------------------------
(* Steps of nobody's request: time passes, an attempt begins or expires *)

LEMMA OutsideKnow ==
  ASSUME IInv, TypeOK', request' = request, Covers({}), opened' = opened,
         \A a \in Attempts :
           /\ attempt[a].state # "unused" => attempt'[a].state # "unused" /\ attempt'[a].mode = attempt[a].mode
           /\ attempt[a].state = "gone" => attempt'[a] = attempt[a]
  PROVE  \A x \in Requests : Knows(x)'
<1>1. PICK r : r \notin Requests
  BY NoSetContainsEverything
<1>2. AttemptsStay(r)
  BY DEF AttemptsStay
<1>3. ASSUME NEW x \in Requests PROVE Knows(x)'
  <2>1. x \in Requests \ {r}
    BY <1>1
  <2>2. Follows(x, {})
    BY DEF Follows
  <2>3. Knows(x) /\ TypeOK
    BY DEF IInv
  <2> QED
    BY <1>2, <2>1, <2>2, <2>3, OthersKnow
<1> QED
  BY <1>3

LEMMA NothingCovers ==
  ASSUME TypeOK, UNCHANGED <<user, tenant, crossed>>
  PROVE  Covers({}) /\ Here' = Here /\ EmergencyAdmins' = EmergencyAdmins
<1>1. Here' = Here /\ EmergencyAdmins' = EmergencyAdmins
  BY DEF Here, EmergencyAdmins, Active
<1>2. \A v \in Here : user[v].row = "here" /\ user[v].sv \in Nat
  BY DEF Here, TypeOK, User
<1> QED
  BY <1>1, <1>2 DEF Covers

LEMMA LockEndsStep ==
  ASSUME IInv, NEW u \in Users, LockEnds(u)
  PROVE  IInv'
<1> DEFINE row == [user[u] EXCEPT !.locked = FALSE]
<1>1. /\ \A x \in Requests : request[x].of # u
      /\ user' = [user EXCEPT ![u].locked = FALSE] /\ missed' = [missed EXCEPT ![u] = 0]
      /\ UNCHANGED <<agenda, tenant, tokens, attempt, request, step, starts, fresh, ended, proven, accepted, opened, overlaps, crossed>>
  BY DEF LockEnds
<1>2. TypeOK /\ user[u] \in User
  BY DEF IInv, TypeOK
<1>3. user' = [user EXCEPT ![u] = row]
  BY <1>1, <1>2 DEF TypeOK
<1>4. row \in User
  BY <1>2, ZenonT(30) DEF User
<1>5. /\ row.row = user[u].row /\ row.active = user[u].active /\ row.super = user[u].super /\ row.exempt = user[u].exempt
      /\ row.sv = user[u].sv /\ row.pw = user[u].pw /\ row.on = user[u].on /\ row.secret = user[u].secret
      /\ row.last = user[u].last /\ row.recovery = user[u].recovery /\ row.subject = user[u].subject
  BY <1>2 DEF User
<1> HIDE DEF row
<1>6. user' \in [Users -> User] /\ user'[u] = row /\ (\A v \in Users \ {u} : user'[v] = user[v])
      /\ Here' = Here /\ EmergencyAdmins' = EmergencyAdmins
  BY <1>2, <1>3, <1>4, <1>5, OneRow
<1>7. TypeOK'
  <2>1. missed' \in [Users -> Nat]
    BY <1>1, <1>2 DEF TypeOK
  <2> QED
    BY <1>1, <1>2, <1>6, <2>1 DEF TypeOK
<1>8. Covers({})
  <2>1. ASSUME NEW v \in Here
        PROVE  /\ user'[v].row = "here"
               /\ (\A x \in Requests : request[x].of # v) \/ (user'[v].failed = user[v].failed /\ user'[v].locked = user[v].locked)
               /\ user'[v].sv = user[v].sv /\ user'[v].pw = user[v].pw /\ user[v].sv <= user'[v].sv
               /\ user'[v].on = user[v].on /\ user'[v].secret = user[v].secret /\ user'[v].subject = user[v].subject
    <3>1. v \in Users /\ user[v].row = "here" /\ user[v].sv \in Nat
      BY <1>2 DEF Here, TypeOK, User
    <3>2. CASE v = u
      <4>1. \A x \in Requests : request[x].of # v
        BY <1>1, <3>2
      <4>2. user'[v] = row /\ row.sv = user[v].sv
        BY <1>5, <1>6, <3>2
      <4> QED
        BY <1>5, <3>1, <3>2, <4>1, <4>2
    <3>3. CASE v # u
      BY <1>6, <3>1, <3>3
    <3> QED
      BY <3>2, <3>3
  <2>2. crossed \subseteq crossed' /\ tenant' = tenant /\ EmergencyAdmins' = EmergencyAdmins
    BY <1>1, <1>6
  <2>3. \A v \in Here : user[v].pw = user'[v].pw
    BY <2>1
  <2> QED
    BY <2>1, <2>2, <2>3, Zenon DEF Covers
<1>9. \A x \in Requests : Knows(x)'
  BY <1>1, <1>7, <1>8, OutsideKnow
<1>10. TokensOfUsers' /\ VersionState'
  <2>1. tokens' \ tokens = {} /\ ended' \ ended = {}
    BY <1>1
  <2> QED
    BY <1>2, <1>7, <1>8, <2>1, VersionsStay DEF IInv
<1>11. CountState'
  <2>1. \A v \in Users : overlaps[v] <= overlaps'[v]
    BY <1>1, <1>2 DEF TypeOK
  <2>2. missed'[u] = 0 /\ \A v \in Users \ {u} : missed'[v] = missed[v]
    BY <1>1, <1>2 DEF TypeOK
  <2> QED
    BY <1>2, <1>6, <1>7, <2>1, <2>2, CountsStay DEF IInv
<1>12. FactorState'
  BY <1>1, <1>3, <1>4, <1>5, FactorUntouched
<1>13. WayState'
  <2>1. Unlinking => Unlinking'
    BY <1>1 DEF Unlinking, At
  <2>2. \A v \in Here : user'[v].subject = user[v].subject
    BY <1>5, <1>6 DEF Here
  <2> QED
    BY <1>1, <1>6, <2>1, <2>2, WayStays DEF IInv
<1>14. AttemptState'
  BY <1>1 DEF IInv, AttemptState, AttemptsTaken, AttemptOpensOnce, Holds
<1>15. Untried'
  <2>1. user[u].locked
    BY DEF LockEnds
  <2> QED
    BY <1>5, <1>6, <2>1 DEF IInv, Untried
<1> QED
  BY <1>7, <1>9, <1>10, <1>11, <1>12, <1>13, <1>14, <1>15 DEF IInv

\* What stays when only the attempts or the clock move.
LEMMA AsideKeeps ==
  ASSUME IInv, TypeOK', UNCHANGED <<agenda, user, tenant, tokens, request, starts, fresh, ended, missed, proven, accepted, opened>>,
         UNCHANGED <<overlaps, crossed>>,
         \A a \in Attempts :
           /\ attempt[a].state # "unused" => attempt'[a].state # "unused" /\ attempt'[a].mode = attempt[a].mode
           /\ attempt[a].state = "gone" => attempt'[a] = attempt[a],
         AttemptState'
  PROVE  IInv'
<1>1. Covers({}) /\ Here' = Here /\ EmergencyAdmins' = EmergencyAdmins /\ TypeOK
  BY NothingCovers DEF IInv
<1>2. \A x \in Requests : Knows(x)'
  BY <1>1, OutsideKnow
<1>3. TokensOfUsers' /\ CountState' /\ Untried' /\ FactorState' /\ VersionState'
  BY DEF IInv, TokensOfUsers, CountState, Counted, Untried, FactorState, Drawn, FactorHolds, Used, Stale, VersionState, TokenHolds, Behind
<1>4. WayState'
  <2>1. Unlinking => Unlinking'
    BY DEF Unlinking, At
  <2> QED
    BY <1>1, <2>1, WayStays DEF IInv
<1> QED
  BY <1>2, <1>3, <1>4 DEF IInv

LEMMA TicksStep ==
  ASSUME IInv, Ticks
  PROVE  IInv'
<1>1. TypeOK'
  <2>1. step' \in 0..MaxStep
    BY Sizes DEF Ticks, IInv, TypeOK
  <2> QED
    BY <2>1 DEF Ticks, IInv, TypeOK
<1>2. AttemptState'
  BY DEF Ticks, IInv, AttemptState, AttemptsTaken, AttemptOpensOnce, Holds
<1> QED
  BY <1>1, <1>2, AsideKeeps DEF Ticks

LEMMA SsoBeginsStep ==
  ASSUME IInv, NEW op \in {"sso", "link", "badge"}, NEW a \in Attempts, NEW b \in Browsers, NEW admin \in Users \cup {None},
         SsoBegins(op, a, b, admin)
  PROVE  IInv'
<1> DEFINE new == [NoAttempt EXCEPT !.state = "begun", !.mode = op, !.browser = b, !.admin = admin]
<1>1. /\ attempt[a].state = "unused" /\ attempt' = [attempt EXCEPT ![a] = new]
      /\ UNCHANGED <<agenda, user, tenant, tokens, request, step, starts, fresh, ended, missed, proven, accepted, opened, overlaps, crossed>>
  BY DEF SsoBegins
<1>2. TypeOK /\ AttemptState
  BY DEF IInv
<1>3. new \in Attempt /\ new.state = "begun" /\ new.browser = b /\ new.who = None
  BY DEF NoAttempt, Attempt
<1> HIDE DEF new
<1>4. attempt' \in [Attempts -> Attempt] /\ attempt'[a] = new /\ (\A c \in Attempts \ {a} : attempt'[c] = attempt[c])
  BY <1>1, <1>2, <1>3 DEF TypeOK
<1>5. TypeOK'
  BY <1>1, <1>2, <1>4 DEF TypeOK
<1>6. \A c \in Browsers : opened[a][c] = 0
  BY <1>1, <1>2 DEF AttemptState, AttemptsTaken
<1>7. AttemptsTaken'
  <2>1. \A c \in Attempts : attempt'[c].state # "gone" => \A d \in Browsers : opened'[c][d] = 0
    BY <1>1, <1>2, <1>4, <1>6 DEF AttemptState, AttemptsTaken
  <2>2. \A c \in Attempts : attempt'[c].mode = "sso" => attempt'[c].who \in Users \cup {None}
    BY <1>2, <1>3, <1>4 DEF AttemptState, AttemptsTaken
  <2> QED
    BY <1>1, <1>2, <2>1, <2>2 DEF AttemptState, AttemptsTaken, Holds
<1>8. AttemptOpensOnce'
  <2> SUFFICES ASSUME NEW c \in Attempts, NEW d \in Browsers
               PROVE  opened'[c][d] <= (IF d = attempt'[c].browser THEN 1 ELSE 0)
    BY DEF AttemptOpensOnce
  <2>1. CASE c = a
    BY <1>1, <1>6, <2>1
  <2>2. CASE c # a
    BY <1>1, <1>2, <1>4, <2>2 DEF AttemptState, AttemptOpensOnce
  <2> QED
    BY <2>1, <2>2
<1> QED
  BY <1>1, <1>4, <1>5, <1>7, <1>8, AsideKeeps DEF AttemptState

LEMMA SsoExpiresStep ==
  ASSUME IInv, NEW a \in Attempts, SsoExpires(a)
  PROVE  IInv'
<1> DEFINE new == [attempt[a] EXCEPT !.state = "gone"]
<1>1. /\ attempt[a].state \in {"begun", "handed"} /\ attempt' = [attempt EXCEPT ![a].state = "gone"]
      /\ UNCHANGED <<agenda, user, tenant, tokens, request, step, starts, fresh, ended, missed, proven, accepted, opened, overlaps, crossed>>
  BY DEF SsoExpires
<1>2. TypeOK /\ AttemptState /\ attempt[a] \in Attempt
  BY DEF IInv, TypeOK
<1>3. new \in Attempt /\ new.state = "gone" /\ new.browser = attempt[a].browser /\ new.who = attempt[a].who /\ new.mode = attempt[a].mode
  BY <1>2 DEF Attempt
<1>4. attempt' = [attempt EXCEPT ![a] = new]
  BY <1>1, <1>2 DEF TypeOK
<1> HIDE DEF new
<1>5. attempt' \in [Attempts -> Attempt] /\ attempt'[a] = new /\ (\A c \in Attempts \ {a} : attempt'[c] = attempt[c])
  BY <1>2, <1>3, <1>4 DEF TypeOK
<1>6. TypeOK'
  BY <1>1, <1>2, <1>5 DEF TypeOK
<1>7. AttemptsTaken'
  BY <1>1, <1>2, <1>3, <1>5 DEF AttemptState, AttemptsTaken, Holds
<1>8. AttemptOpensOnce'
  BY <1>1, <1>2, <1>3, <1>5 DEF AttemptState, AttemptOpensOnce
<1> QED
  BY <1>1, <1>3, <1>5, <1>6, <1>7, <1>8, AsideKeeps DEF AttemptState

-----------------------------------------------------------------------------
(* Writes of the second factor *)

LEMMA FactorWriteKeeps ==
  ASSUME IInv, NEW r \in Requests, NEW u \in Users, NEW row \in User, NEW ws, RowWrite(r, u, row, ws),
         row.failed = user[u].failed, row.locked = user[u].locked,
         UNCHANGED <<tokens, missed, accepted>>, fresh' \in Nat, fresh <= fresh', proven' \in [Users -> Nat],
         \A v \in Users \ {u} : proven'[v] = proven[v],
         ended' \subseteq tokens', \A t \in ended' \ ended : t \in tokens /\ user'[t.user].sv # t.sv,
         row.recovery \subseteq 1..fresh', row.secret <= fresh', row.secret \notin row.recovery,
         \A c \in Codes : c.secret \in 1..fresh /\ c.secret \notin user[u].recovery
                            /\ (c.secret = user[u].secret => c.step <= user[u].last)
                          => c.secret \notin row.recovery /\ (c.secret = row.secret => c.step <= row.last),
         FactorHolds(u) /\ row.on => Stale("factor", u)' \/ (row.secret = proven'[u] /\ row.secret # 0)
  PROVE  IInv'
<1>1. TypeOK /\ fresh \in Nat
  BY DEF IInv, TypeOK
<1>2. crossed \subseteq crossed' /\ \A v \in Users : overlaps[v] <= overlaps'[v]
  BY <1>1, WriteNotes DEF RowWrite
<1>3. user' = [user EXCEPT ![u] = row] /\ user'[u] = row /\ \A v \in Users \ {u} : user'[v] = user[v]
  BY <1>1, OneRow DEF RowWrite
<1>4. TypeOK' => CountState'
  BY <1>2, <1>3, CountUntouched
<1>5. \A v \in Users \ {u} : FactorSame(v)
  BY <1>3 DEF FactorSame
<1>6. Drawn(u)'
  BY <1>3 DEF Drawn
<1>7. FactorHolds(u)
  BY DEF IInv, FactorState
<1>8. Stale("factor", u) => Stale("factor", u)'
  BY <1>2 DEF Stale
<1>9. ASSUME NEW x \in DOMAIN accepted, x[1] = u, Used(x) PROVE Used(x)'
  <2>1. x[2] \in Codes /\ accepted'[x] = accepted[x]
    BY <1>1 DEF TypeOK
  <2>2. /\ accepted[x] <= 1
        /\ x[2].secret \in 1..fresh /\ x[2].secret \notin user[u].recovery
        /\ x[2].secret = user[u].secret => x[2].step <= user[u].last
    BY <1>9 DEF Used
  <2>3. x[2].secret \notin row.recovery /\ (x[2].secret = row.secret => x[2].step <= row.last)
    BY <2>1, <2>2
  <2>4. x[2].secret \in 1..fresh'
    BY <1>1, <2>2
  <2> QED
    BY <1>3, <1>9, <2>1, <2>2, <2>3, <2>4 DEF Used
<1>10. FactorHolds(u)'
  <2>1. CASE Stale("factor", u)
    BY <1>8, <2>1 DEF FactorHolds
  <2>2. CASE ~Stale("factor", u)
    <3>1. \A x \in DOMAIN accepted' : x[1] = u => Used(x)'
      BY <1>7, <1>9, <2>2 DEF FactorHolds
    <3>2. user'[u].on => Stale("factor", u)' \/ (user'[u].secret = proven'[u] /\ user'[u].secret # 0)
      BY <1>3, <1>7
    <3> QED
      BY <3>1, <3>2 DEF FactorHolds
  <2> QED
    BY <2>1, <2>2
<1>11. FactorState'
  <2>1. \A v \in Users : (Drawn(v)' /\ FactorHolds(v)') \/ FactorSame(v)
    BY <1>5, <1>6, <1>10
  <2> QED
    BY <1>1, <1>2, <2>1, FactorsStay DEF IInv
<1>12. tokens' \subseteq Token /\ tokens' \ tokens = {} /\ missed' \in [Users -> Nat]
  BY <1>1 DEF TypeOK
<1> QED
  BY <1>4, <1>11, <1>12, RowWriteKeeps

\* The account of a request about one user, and what must be kept of its row.
LEMMA Whose ==
  ASSUME IInv, NEW r \in Requests, request[r].op \in AboutOneUser \ {"create"}
  PROVE  /\ TypeOK /\ Knows(r) /\ request[r].of \in Users /\ request[r].of \in Here
         /\ user[request[r].of].row = "here" /\ user[request[r].of] \in User
         /\ user[request[r].of].sv \in Nat /\ user[request[r].of].pw \in Nat /\ fresh \in Nat
         /\ request[r].seen \in User /\ request[r].seen.sv \in Nat
<1>1. TypeOK /\ Knows(r) /\ Carried(r) /\ fresh \in Nat
  BY DEF IInv, Knows, TypeOK
<1>2. request[r].of \in Users /\ request[r].of \in Here
  BY <1>1, OfHere
<1> QED
  BY <1>1, <1>2, Versions DEF Here

LEMMA SetupWritesStep ==
  ASSUME IInv, NEW r \in Requests, NEW u \in Users, u = request[r].of, SetupWrites(r)
  PROVE  IInv'
<1> DEFINE row == [user[u] EXCEPT !.secret = fresh + 1, !.last = -1, !.recovery = {}]
           ws == {<<"factor", u>>}
<1>1. /\ At(r, "setup", "read") /\ request[r].op = "setup"
      /\ user' = [user EXCEPT ![u].secret = fresh + 1, ![u].last = -1, ![u].recovery = {}]
      /\ fresh' = fresh + 1 /\ Writes(r, ws, Idle)
      /\ UNCHANGED <<agenda, tenant, tokens, attempt, step, starts, ended, missed, proven, accepted, opened>>
  BY DEF SetupWrites, At
<1>2. /\ TypeOK /\ Knows(r) /\ user[u].row = "here" /\ user[u] \in User /\ user[u].sv \in Nat /\ fresh \in Nat
  BY <1>1, Whose DEF AboutOneUser, Kinds
<1>3. user' = [user EXCEPT ![u] = row]
  BY <1>1, <1>2 DEF TypeOK
<1>4. row \in User
  <2>1. fresh + 1 \in Nat /\ -1 \in -1..(MaxStep + 1)
    BY <1>2, Sizes
  <2> QED
    BY <1>2, <2>1, ZenonT(30) DEF User
<1>5. /\ row.row = user[u].row /\ row.active = user[u].active /\ row.super = user[u].super /\ row.exempt = user[u].exempt
      /\ row.sv = user[u].sv /\ row.pw = user[u].pw /\ row.on = user[u].on /\ row.failed = user[u].failed
      /\ row.locked = user[u].locked /\ row.subject = user[u].subject
      /\ row.secret = fresh + 1 /\ row.recovery = {}
  BY <1>2 DEF User
<1> HIDE DEF row
<1>6. RowWrite(r, u, row, ws)
  <2>1. user[u].sv <= row.sv /\ row.pw = user[u].pw
    BY <1>2, <1>5
  <2>2. RowCovered(u, row, ws)
    BY <1>5, <2>1 DEF RowCovered
  <2>3. ~At(r, "unlink", "users")
    BY <1>1 DEF At
  <2> HIDE DEF ws
  <2> QED
    BY <1>1, <1>2, <1>3, <1>5, <2>2, <2>3 DEF RowWrite
<1>7. row.on => Stale("factor", u)'
  <2>1. <<"factor", u>> \in request[r].over \/ ~user[u].on
    BY <1>1, <1>2 DEF Knows, FactorKnown
  <2>2. request[r].over \subseteq crossed'
    BY <1>1, <1>2, WriteNotes
  <2> QED
    BY <1>5, <2>1, <2>2 DEF Stale
<1>8. \A c \in Codes : c.secret \in 1..fresh /\ c.secret \notin user[u].recovery
                            /\ (c.secret = user[u].secret => c.step <= user[u].last)
                          => c.secret \notin row.recovery /\ (c.secret = row.secret => c.step <= row.last)
  BY <1>2, <1>5
<1>9. /\ fresh' \in Nat /\ fresh <= fresh' /\ proven' \in [Users -> Nat] /\ ended' \subseteq tokens' /\ ended' \ ended = {}
      /\ row.recovery \subseteq 1..fresh' /\ row.secret <= fresh' /\ row.secret \notin row.recovery
  BY <1>1, <1>2, <1>5 DEF TypeOK
<1>10. FactorHolds(u) /\ row.on => Stale("factor", u)' \/ (row.secret = proven'[u] /\ row.secret # 0)
  BY <1>7
<1>11. /\ UNCHANGED <<tokens, missed, accepted>> /\ (\A v \in Users \ {u} : proven'[v] = proven[v])
       /\ \A t \in ended' \ ended : t \in tokens /\ user'[t.user].sv # t.sv
  BY <1>1, <1>9
<1> HIDE DEF ws
<1> QED
  BY <1>4, <1>5, <1>6, <1>8, <1>9, <1>10, <1>11, FactorWriteKeeps

LEMMA EnableWritesStep ==
  ASSUME IInv, NEW r \in Requests, NEW u \in Users, u = request[r].of, EnableWrites(r)
  PROVE  IInv'
<1> DEFINE row == [user[u] EXCEPT !.on = TRUE, !.recovery = {fresh + 1, fresh + 2}]
           ws == {<<"factor", u>>}
<1>1. /\ At(r, "enable", "won") /\ request[r].op = "enable" /\ request[r].pc = "won"
      /\ user' = [user EXCEPT ![u].on = TRUE, ![u].recovery = {fresh + 1, fresh + 2}]
      /\ fresh' = fresh + 2 /\ proven' = [proven EXCEPT ![u] = request[r].code.secret] /\ Writes(r, ws, Idle)
      /\ UNCHANGED <<agenda, tenant, tokens, attempt, step, starts, ended, missed, accepted, opened>>
  BY DEF EnableWrites, At
<1>2. /\ TypeOK /\ Knows(r) /\ user[u].row = "here" /\ user[u] \in User /\ user[u].sv \in Nat /\ fresh \in Nat
  BY <1>1, Whose DEF AboutOneUser, Kinds
<1>3. user' = [user EXCEPT ![u] = row]
  BY <1>1, <1>2 DEF TypeOK
<1>4. row \in User
  <2>1. {fresh + 1, fresh + 2} \in SUBSET Nat
    BY <1>2
  <2> QED
    BY <1>2, <2>1, ZenonT(30) DEF User
<1>5. /\ row.row = user[u].row /\ row.active = user[u].active /\ row.super = user[u].super /\ row.exempt = user[u].exempt
      /\ row.sv = user[u].sv /\ row.pw = user[u].pw /\ row.failed = user[u].failed /\ row.locked = user[u].locked
      /\ row.subject = user[u].subject /\ row.secret = user[u].secret /\ row.last = user[u].last
      /\ row.recovery = {fresh + 1, fresh + 2}
  BY <1>2 DEF User
<1> HIDE DEF row
<1>6. RowWrite(r, u, row, ws)
  <2>1. user[u].sv <= row.sv /\ row.pw = user[u].pw
    BY <1>2, <1>5
  <2>2. RowCovered(u, row, ws)
    BY <1>5, <2>1 DEF RowCovered
  <2>3. ~At(r, "unlink", "users")
    BY <1>1 DEF At
  <2> HIDE DEF ws
  <2> QED
    BY <1>1, <1>2, <1>3, <1>5, <2>2, <2>3 DEF RowWrite
<1>7. FactorHolds(u) /\ row.on => Stale("factor", u)' \/ (row.secret = proven'[u] /\ row.secret # 0)
  <2>1. /\ <<"factor", u>> \in request[r].over \/ request[r].seen.secret = user[u].secret
        /\ request[r].code.secret = request[r].seen.secret /\ request[r].code.secret # 0
    BY <1>1, <1>2 DEF Knows, FactorKnown, OfFactor
  <2>2. request[r].over \subseteq crossed'
    BY <1>1, <1>2, WriteNotes
  <2>3. proven'[u] = request[r].code.secret
    BY <1>1, <1>2 DEF TypeOK
  <2> QED
    BY <1>5, <2>1, <2>2, <2>3 DEF Stale
<1>8. \A c \in Codes : c.secret \in 1..fresh /\ c.secret \notin user[u].recovery
                            /\ (c.secret = user[u].secret => c.step <= user[u].last)
                          => c.secret \notin row.recovery /\ (c.secret = row.secret => c.step <= row.last)
  BY <1>2, <1>5
<1>9. row.recovery \subseteq 1..fresh' /\ row.secret <= fresh' /\ row.secret \notin row.recovery
  <2>1. user[u].secret <= fresh /\ user[u].secret \in Nat
    BY <1>2 DEF IInv, FactorState, Drawn, User
  <2> QED
    BY <1>1, <1>2, <1>5, <2>1
<1>10. proven' \in [Users -> Nat]
  <2>1. request[r].code.secret \in Nat
    BY <1>2 DEF TypeOK, Request, Codes
  <2> QED
    BY <1>1, <1>2, <2>1 DEF TypeOK
<1>11. /\ UNCHANGED <<tokens, missed, accepted>> /\ (\A v \in Users \ {u} : proven'[v] = proven[v])
       /\ fresh' \in Nat /\ fresh <= fresh' /\ ended' \subseteq tokens'
       /\ \A t \in ended' \ ended : t \in tokens /\ user'[t.user].sv # t.sv
  BY <1>1, <1>2 DEF TypeOK
<1> HIDE DEF ws
<1> QED
  BY <1>4, <1>5, <1>6, <1>7, <1>8, <1>9, <1>10, <1>11, FactorWriteKeeps

LEMMA CodesWritesStep ==
  ASSUME IInv, NEW r \in Requests, NEW u \in Users, u = request[r].of, CodesWrites(r)
  PROVE  IInv'
<1> DEFINE row == [user[u] EXCEPT !.recovery = {fresh + 1, fresh + 2}]
           ws == {<<"factor", u>>}
<1>1. /\ At(r, "codes", "won") /\ request[r].op = "codes" /\ request[r].pc = "won"
      /\ user' = [user EXCEPT ![u].recovery = {fresh + 1, fresh + 2}]
      /\ fresh' = fresh + 2 /\ Writes(r, ws, Idle)
      /\ UNCHANGED <<agenda, tenant, tokens, attempt, step, starts, ended, missed, proven, accepted, opened>>
  BY DEF CodesWrites, At
<1>2. /\ TypeOK /\ Knows(r) /\ user[u].row = "here" /\ user[u] \in User /\ user[u].sv \in Nat /\ fresh \in Nat
  BY <1>1, Whose DEF AboutOneUser, Kinds
<1>3. user' = [user EXCEPT ![u] = row]
  BY <1>1, <1>2 DEF TypeOK
<1>4. row \in User
  <2>1. {fresh + 1, fresh + 2} \in SUBSET Nat
    BY <1>2
  <2> QED
    BY <1>2, <2>1, ZenonT(30) DEF User
<1>5. /\ row.row = user[u].row /\ row.active = user[u].active /\ row.super = user[u].super /\ row.exempt = user[u].exempt
      /\ row.sv = user[u].sv /\ row.pw = user[u].pw /\ row.failed = user[u].failed /\ row.locked = user[u].locked
      /\ row.subject = user[u].subject /\ row.secret = user[u].secret /\ row.last = user[u].last /\ row.on = user[u].on
      /\ row.recovery = {fresh + 1, fresh + 2}
  BY <1>2 DEF User
<1> HIDE DEF row
<1>6. RowWrite(r, u, row, ws)
  <2>1. user[u].sv <= row.sv /\ row.pw = user[u].pw
    BY <1>2, <1>5
  <2>2. RowCovered(u, row, ws)
    BY <1>5, <2>1 DEF RowCovered
  <2>3. ~At(r, "unlink", "users")
    BY <1>1 DEF At
  <2> HIDE DEF ws
  <2> QED
    BY <1>1, <1>2, <1>3, <1>5, <2>2, <2>3 DEF RowWrite
<1>7. FactorHolds(u) /\ row.on => Stale("factor", u)' \/ (row.secret = proven'[u] /\ row.secret # 0)
  <2>1. crossed \subseteq crossed'
    BY <1>1, <1>2, WriteNotes
  <2> QED
    BY <1>1, <1>5, <2>1 DEF FactorHolds, Stale
<1>8. \A c \in Codes : c.secret \in 1..fresh /\ c.secret \notin user[u].recovery
                            /\ (c.secret = user[u].secret => c.step <= user[u].last)
                          => c.secret \notin row.recovery /\ (c.secret = row.secret => c.step <= row.last)
  BY <1>2, <1>5
<1>9. row.recovery \subseteq 1..fresh' /\ row.secret <= fresh' /\ row.secret \notin row.recovery
  <2>1. user[u].secret <= fresh /\ user[u].secret \in Nat
    BY <1>2 DEF IInv, FactorState, Drawn, User
  <2> QED
    BY <1>1, <1>2, <1>5, <2>1
<1>10. /\ UNCHANGED <<tokens, missed, accepted>> /\ (\A v \in Users \ {u} : proven'[v] = proven[v]) /\ proven' \in [Users -> Nat]
       /\ fresh' \in Nat /\ fresh <= fresh' /\ ended' \subseteq tokens'
       /\ \A t \in ended' \ ended : t \in tokens /\ user'[t.user].sv # t.sv
  BY <1>1, <1>2 DEF TypeOK
<1> HIDE DEF ws
<1> QED
  BY <1>4, <1>5, <1>6, <1>7, <1>8, <1>9, <1>10, FactorWriteKeeps

LEMMA DisableWritesStep ==
  ASSUME IInv, NEW r \in Requests, NEW u \in Users, u = request[r].of, DisableWrites(r)
  PROVE  IInv'
<1> DEFINE row == [user[u] EXCEPT !.on = FALSE, !.secret = 0, !.last = -1, !.recovery = {}]
           ws == {<<"factor", u>>}
<1>1. /\ At(r, "disable", "won") /\ request[r].op = "disable" /\ request[r].pc = "won"
      /\ user' = [user EXCEPT ![u].on = FALSE, ![u].secret = 0, ![u].last = -1, ![u].recovery = {}]
      /\ Writes(r, ws, Idle)
      /\ UNCHANGED <<agenda, tenant, tokens, attempt, step, starts, fresh, ended, missed, proven, accepted, opened>>
  BY DEF DisableWrites, At, NoFactor
<1>2. /\ TypeOK /\ Knows(r) /\ user[u].row = "here" /\ user[u] \in User /\ user[u].sv \in Nat /\ fresh \in Nat
  BY <1>1, Whose DEF AboutOneUser, Kinds
<1>3. user' = [user EXCEPT ![u] = row]
  BY <1>1, <1>2 DEF TypeOK
<1>4. row \in User
  BY <1>2, Sizes, ZenonT(30) DEF User
<1>5. /\ row.row = user[u].row /\ row.active = user[u].active /\ row.super = user[u].super /\ row.exempt = user[u].exempt
      /\ row.sv = user[u].sv /\ row.pw = user[u].pw /\ row.failed = user[u].failed /\ row.locked = user[u].locked
      /\ row.subject = user[u].subject /\ row.secret = 0 /\ row.on = FALSE /\ row.recovery = {}
  BY <1>2 DEF User
<1> HIDE DEF row
<1>6. RowWrite(r, u, row, ws)
  <2>1. user[u].sv <= row.sv /\ row.pw = user[u].pw
    BY <1>2, <1>5
  <2>2. RowCovered(u, row, ws)
    BY <1>5, <2>1 DEF RowCovered
  <2>3. ~At(r, "unlink", "users")
    BY <1>1 DEF At
  <2> HIDE DEF ws
  <2> QED
    BY <1>1, <1>2, <1>3, <1>5, <2>2, <2>3 DEF RowWrite
<1>7. \A c \in Codes : c.secret \in 1..fresh /\ c.secret \notin user[u].recovery
                            /\ (c.secret = user[u].secret => c.step <= user[u].last)
                          => c.secret \notin row.recovery /\ (c.secret = row.secret => c.step <= row.last)
  BY <1>2, <1>5
<1>8. /\ UNCHANGED <<tokens, missed, accepted>> /\ (\A v \in Users \ {u} : proven'[v] = proven[v]) /\ proven' \in [Users -> Nat]
      /\ fresh' \in Nat /\ fresh <= fresh' /\ ended' \subseteq tokens'
      /\ row.recovery \subseteq 1..fresh' /\ row.secret <= fresh' /\ row.secret \notin row.recovery
      /\ \A t \in ended' \ ended : t \in tokens /\ user'[t.user].sv # t.sv
  BY <1>1, <1>2, <1>5 DEF TypeOK
<1> HIDE DEF ws
<1> QED
  BY <1>4, <1>5, <1>6, <1>7, <1>8, FactorWriteKeeps

-----------------------------------------------------------------------------
(* Writes of the version *)

\* Of a version that was read a request makes the next one, or somebody was quicker.
LEMMA NewVersions ==
  ASSUME IInv, NEW r \in Requests, NEW u \in Users, u = request[r].of, request[r].op \in {"password", "reset", "resetMfa"},
         request[r].over \subseteq crossed'
  PROVE  Stale("version", u)' \/ user[u].sv < NewVersion(request[r].seen)
<1>1. <<"version", u>> \in request[r].over \/ request[r].seen.sv = user[u].sv
  BY DEF IInv, Knows, VersionKnown
<1>2. user[u].sv \in Nat
  BY Versions DEF IInv
<1> QED
  BY <1>1, <1>2 DEF Stale, NewVersion

LEMMA LogoutWritesStep ==
  ASSUME IInv, NEW r \in Requests, NEW u \in Users, u = request[r].of, LogoutWrites(r)
  PROVE  IInv'
<1> DEFINE row == [user[u] EXCEPT !.sv = user[u].sv + 1]
           ws == {<<"version", u>>}
<1>1. /\ At(r, "logout", "write") /\ request[r].op = "logout"
      /\ UserBecomes([user EXCEPT ![u].sv = @ + 1]) /\ Writes(r, ws, Idle)
      /\ UNCHANGED <<agenda, tenant, tokens, attempt, step, starts, fresh, missed, proven, accepted, opened>>
  BY DEF LogoutWrites, At
<1>2. /\ TypeOK /\ user[u].row = "here" /\ user[u] \in User /\ user[u].sv \in Nat
  BY <1>1, Whose DEF AboutOneUser, Kinds
<1>3. user' = [user EXCEPT ![u] = row]
  <2>1. user' = [user EXCEPT ![u].sv = @ + 1]
    BY <1>1 DEF UserBecomes
  <2> QED
    BY <1>2, <2>1 DEF TypeOK
<1>4. row \in User
  <2>1. user[u].sv + 1 \in Nat
    BY <1>2
  <2> QED
    BY <1>2, <2>1, ZenonT(30) DEF User
<1>5. /\ row.row = user[u].row /\ row.active = user[u].active /\ row.super = user[u].super /\ row.exempt = user[u].exempt
      /\ row.sv = user[u].sv + 1 /\ row.failed = user[u].failed /\ row.locked = user[u].locked
      /\ row.subject = user[u].subject /\ row.secret = user[u].secret /\ row.last = user[u].last /\ row.on = user[u].on
      /\ row.recovery = user[u].recovery
  BY <1>2 DEF User
<1> HIDE DEF row
<1>6. RowWrite(r, u, row, ws)
  <2>1. user[u].sv < row.sv
    BY <1>2, <1>5
  <2>2. RowCovered(u, row, ws)
    BY <1>2, <1>5, <2>1 DEF RowCovered
  <2>3. ~At(r, "unlink", "users")
    BY <1>1 DEF At
  <2> HIDE DEF ws
  <2> QED
    BY <1>1, <1>2, <1>3, <1>5, <2>2, <2>3 DEF RowWrite
<1>7. ended' \subseteq tokens' /\ \A t \in ended' \ ended : t \in tokens /\ user'[t.user].sv # t.sv
  BY <1>1, <1>2, Refusing
<1>8. crossed \subseteq crossed' /\ \A v \in Users : overlaps[v] <= overlaps'[v]
  BY <1>1, <1>2, WriteNotes
<1>9. TypeOK' => CountState'
  BY <1>1, <1>3, <1>4, <1>5, <1>8, CountUntouched
<1>10. FactorState'
  BY <1>1, <1>3, <1>4, <1>5, <1>8, FactorUntouched
<1>11. /\ tokens' \subseteq Token /\ tokens' \ tokens = {} /\ fresh' \in Nat /\ proven' \in [Users -> Nat]
       /\ missed' \in [Users -> Nat] /\ accepted' = accepted
  BY <1>1, <1>2 DEF TypeOK
<1> HIDE DEF ws
<1> QED
  BY <1>4, <1>6, <1>7, <1>9, <1>10, <1>11, RowWriteKeeps

LEMMA PasswordWritesStep ==
  ASSUME IInv, NEW r \in Requests, NEW u \in Users, u = request[r].of, PasswordWrites(r)
  PROVE  IInv'
<1> DEFINE sv == NewVersion(request[r].seen)
           row == [user[u] EXCEPT !.pw = user[u].pw + 1, !.must = FALSE, !.sv = sv]
           ws == {<<"version", u>>}
<1>1. /\ At(r, "password", "write") /\ request[r].op = "password"
      /\ UserBecomes([user EXCEPT ![u].pw = @ + 1, ![u].must = FALSE, ![u].sv = sv]) /\ Writes(r, ws, Idle)
      /\ UNCHANGED <<agenda, tenant, tokens, attempt, step, starts, fresh, missed, proven, accepted, opened>>
  BY DEF PasswordWrites, At
<1>2. /\ TypeOK /\ user[u].row = "here" /\ user[u] \in User /\ user[u].sv \in Nat /\ user[u].pw \in Nat
      /\ request[r].seen.sv \in Nat
  BY <1>1, Whose DEF AboutOneUser, Kinds
<1>3. sv \in Nat
  BY <1>2 DEF NewVersion
<1>4. crossed \subseteq crossed' /\ request[r].over \subseteq crossed' /\ \A v \in Users : overlaps[v] <= overlaps'[v]
  BY <1>1, <1>2, WriteNotes
<1>5. Stale("version", u)' \/ user[u].sv < sv
  BY <1>1, <1>4, NewVersions
<1> HIDE DEF sv
<1>6. user' = [user EXCEPT ![u] = row]
  <2>1. user' = [user EXCEPT ![u].pw = @ + 1, ![u].must = FALSE, ![u].sv = sv]
    BY <1>1 DEF UserBecomes
  <2> QED
    BY <1>2, <2>1 DEF TypeOK
<1>7. row \in User
  <2>1. user[u].pw + 1 \in Nat
    BY <1>2
  <2> QED
    BY <1>2, <1>3, <2>1, ZenonT(30) DEF User
<1>8. /\ row.row = user[u].row /\ row.active = user[u].active /\ row.super = user[u].super /\ row.exempt = user[u].exempt
      /\ row.sv = sv /\ row.failed = user[u].failed /\ row.locked = user[u].locked
      /\ row.subject = user[u].subject /\ row.secret = user[u].secret /\ row.last = user[u].last /\ row.on = user[u].on
      /\ row.recovery = user[u].recovery
  BY <1>2 DEF User
<1> HIDE DEF row
<1>9. RowWrite(r, u, row, ws)
  <2>1. Stale("version", u)' \/ (user[u].sv <= row.sv /\ (user[u].sv = row.sv => user[u].pw = row.pw))
    BY <1>2, <1>3, <1>5, <1>8
  <2>2. RowCovered(u, row, ws)
    BY <1>8, <2>1 DEF RowCovered
  <2>3. ~At(r, "unlink", "users")
    BY <1>1 DEF At
  <2> HIDE DEF ws
  <2> QED
    BY <1>1, <1>2, <1>6, <1>8, <2>2, <2>3 DEF RowWrite
<1>10. ended' \subseteq tokens' /\ \A t \in ended' \ ended : t \in tokens /\ user'[t.user].sv # t.sv
  BY <1>1, <1>2, Refusing
<1>11. TypeOK' => CountState'
  BY <1>1, <1>4, <1>6, <1>7, <1>8, CountUntouched
<1>12. FactorState'
  BY <1>1, <1>4, <1>6, <1>7, <1>8, FactorUntouched
<1>13. /\ tokens' \subseteq Token /\ tokens' \ tokens = {} /\ fresh' \in Nat /\ proven' \in [Users -> Nat]
       /\ missed' \in [Users -> Nat] /\ accepted' = accepted
  BY <1>1, <1>2 DEF TypeOK
<1> HIDE DEF ws
<1> QED
  BY <1>7, <1>9, <1>10, <1>11, <1>12, <1>13, RowWriteKeeps

LEMMA ResetRowTyped ==
  ASSUME NEW now \in User, NEW sv \in Nat
  PROVE  LET row == WithPasswordSet(now, sv) IN
         /\ row \in User
         /\ row.row = now.row /\ row.active = now.active /\ row.super = now.super /\ row.exempt = now.exempt
         /\ row.sv = sv /\ row.subject = now.subject /\ row.secret = now.secret /\ row.last = now.last
         /\ row.on = now.on /\ row.recovery = now.recovery
<1> DEFINE row == WithPasswordSet(now, sv)
<1>1. now.pw + 1 \in Nat /\ 0 \in 0..(MaxFailed - 1)
  BY Sizes DEF User
<1>2. row \in User
  BY <1>1, ZenonT(30) DEF User, WithPasswordSet
<1>3. /\ row.row = now.row /\ row.active = now.active /\ row.super = now.super /\ row.exempt = now.exempt
      /\ row.sv = sv /\ row.subject = now.subject /\ row.secret = now.secret /\ row.last = now.last
      /\ row.on = now.on /\ row.recovery = now.recovery
  BY DEF User, WithPasswordSet
<1> QED
  BY <1>2, <1>3

LEMMA ResetWritesThis ==
  ASSUME NEW r \in Requests, ResetWrites(r)
  PROVE  /\ At(r, "reset", "write")
         /\ UserBecomes([user EXCEPT ![request[r].of] = WithPasswordSet(user[request[r].of], NewVersion(request[r].seen))])
         /\ missed' = [missed EXCEPT ![request[r].of] = 0]
         /\ Writes(r, {<<"version", request[r].of>>, <<"failed", request[r].of>>}, Idle)
         /\ UNCHANGED <<agenda, tenant, tokens, attempt, step, starts, fresh, proven, accepted, opened>>
  BY DEF ResetWrites

LEMMA ResetWritesStep ==
  ASSUME IInv, NEW r \in Requests, NEW u \in Users, u = request[r].of, ResetWrites(r)
  PROVE  IInv'
<1> DEFINE sv == NewVersion(request[r].seen)
           row == WithPasswordSet(user[u], sv)
           ws == {<<"version", u>>, <<"failed", u>>}
<1>1. /\ At(r, "reset", "write") /\ request[r].op = "reset" /\ request[r].pc = "write"
      /\ UserBecomes([user EXCEPT ![u] = row])
      /\ missed' = [missed EXCEPT ![u] = 0] /\ Writes(r, ws, Idle)
      /\ UNCHANGED <<agenda, tenant, tokens, attempt, step, starts, fresh, proven, accepted, opened>>
  BY ResetWritesThis DEF At
<1> HIDE DEF row
<1>2. /\ TypeOK /\ user[u].row = "here" /\ user[u] \in User /\ user[u].sv \in Nat /\ user[u].pw \in Nat
      /\ request[r].seen.sv \in Nat
  BY <1>1, Whose DEF AboutOneUser, Kinds
<1>3. sv \in Nat
  BY <1>2 DEF NewVersion
<1>4. crossed \subseteq crossed' /\ request[r].over \subseteq crossed' /\ \A v \in Users : overlaps[v] <= overlaps'[v]
  BY <1>1, <1>2, WriteNotes
<1>5. Stale("version", u)' \/ user[u].sv < sv
  BY <1>1, <1>4, NewVersions
<1> HIDE DEF sv
<1>6. user' = [user EXCEPT ![u] = row]
  BY <1>1 DEF UserBecomes
<1>7. /\ row \in User
      /\ row.row = user[u].row /\ row.active = user[u].active /\ row.super = user[u].super /\ row.exempt = user[u].exempt
      /\ row.sv = sv /\ row.subject = user[u].subject /\ row.secret = user[u].secret /\ row.last = user[u].last
      /\ row.on = user[u].on /\ row.recovery = user[u].recovery
  BY <1>2, <1>3, ResetRowTyped DEF row
<1>8. RowWrite(r, u, row, ws)
  <2>1. Stale("version", u)' \/ (user[u].sv <= row.sv /\ (user[u].sv = row.sv => user[u].pw = row.pw))
    BY <1>2, <1>3, <1>5, <1>7
  <2>2. RowCovered(u, row, ws)
    BY <1>7, <2>1 DEF RowCovered
  <2>3. ~At(r, "unlink", "users")
    BY <1>1 DEF At
  <2> HIDE DEF ws
  <2> QED
    BY <1>1, <1>2, <1>6, <1>7, <2>2, <2>3 DEF RowWrite
<1>9. ended' \subseteq tokens' /\ \A t \in ended' \ ended : t \in tokens /\ user'[t.user].sv # t.sv
  BY <1>1, <1>2, Refusing
<1>10. ASSUME TypeOK' PROVE CountState'
  <2>1. \A v \in Users \ {u} : user'[v] = user[v]
    BY <1>2, <1>6, <1>7, OneRow
  <2>2. missed'[u] = 0 /\ \A v \in Users \ {u} : missed'[v] = missed[v]
    BY <1>1, <1>2 DEF TypeOK
  <2> QED
    BY <1>2, <1>4, <1>10, <2>1, <2>2, CountsStay DEF IInv
<1>11. FactorState'
  BY <1>1, <1>4, <1>6, <1>7, FactorUntouched
<1>12. /\ tokens' \subseteq Token /\ tokens' \ tokens = {} /\ fresh' \in Nat /\ proven' \in [Users -> Nat]
       /\ missed' \in [Users -> Nat] /\ accepted' = accepted
  BY <1>1, <1>2 DEF TypeOK
<1> HIDE DEF ws
<1> QED
  BY <1>7, <1>8, <1>9, <1>10, <1>11, <1>12, RowWriteKeeps

LEMMA ResetMfaWritesStep ==
  ASSUME IInv, NEW r \in Requests, NEW u \in Users, u = request[r].of, ResetMfaWrites(r)
  PROVE  IInv'
<1> DEFINE sv == NewVersion(request[r].seen)
           row == [user[u] EXCEPT !.on = FALSE, !.secret = 0, !.last = -1, !.recovery = {}, !.sv = sv]
           ws == {<<"version", u>>, <<"factor", u>>}
<1>1. /\ At(r, "resetMfa", "write") /\ request[r].op = "resetMfa"
      /\ UserBecomes([NoFactor(u) EXCEPT ![u].sv = sv]) /\ Writes(r, ws, Idle)
      /\ UNCHANGED <<agenda, tenant, tokens, attempt, step, starts, fresh, missed, proven, accepted, opened>>
  BY DEF ResetMfaWrites, At
<1>2. /\ TypeOK /\ user[u].row = "here" /\ user[u] \in User /\ user[u].sv \in Nat /\ user[u].pw \in Nat
      /\ request[r].seen.sv \in Nat /\ fresh \in Nat
  BY <1>1, Whose DEF AboutOneUser, Kinds
<1>3. sv \in Nat
  BY <1>2 DEF NewVersion
<1>4. crossed \subseteq crossed' /\ request[r].over \subseteq crossed' /\ \A v \in Users : overlaps[v] <= overlaps'[v]
  BY <1>1, <1>2, WriteNotes
<1>5. Stale("version", u)' \/ user[u].sv < sv
  BY <1>1, <1>4, NewVersions
<1> HIDE DEF sv
<1>6. user' = [user EXCEPT ![u] = row]
  <2>1. user' = [NoFactor(u) EXCEPT ![u].sv = sv]
    BY <1>1 DEF UserBecomes
  <2>2. NoFactor(u) = [user EXCEPT ![u] = [user[u] EXCEPT !.on = FALSE, !.secret = 0, !.last = -1, !.recovery = {}]]
    BY <1>2 DEF NoFactor, TypeOK
  <2> QED
    BY <1>2, <2>1, <2>2 DEF TypeOK
<1>7. row \in User
  BY <1>2, <1>3, Sizes, ZenonT(30) DEF User
<1>8. /\ row.row = user[u].row /\ row.active = user[u].active /\ row.super = user[u].super /\ row.exempt = user[u].exempt
      /\ row.sv = sv /\ row.failed = user[u].failed /\ row.locked = user[u].locked /\ row.subject = user[u].subject
      /\ row.secret = 0 /\ row.on = FALSE /\ row.recovery = {}
  BY <1>2 DEF User
<1> HIDE DEF row
<1>9. RowWrite(r, u, row, ws)
  <2>1. Stale("version", u)' \/ (user[u].sv <= row.sv /\ (user[u].sv = row.sv => user[u].pw = row.pw))
    BY <1>2, <1>3, <1>5, <1>8
  <2>2. RowCovered(u, row, ws)
    BY <1>8, <2>1 DEF RowCovered
  <2>3. ~At(r, "unlink", "users")
    BY <1>1 DEF At
  <2> HIDE DEF ws
  <2> QED
    BY <1>1, <1>2, <1>6, <1>8, <2>2, <2>3 DEF RowWrite
<1>10. ended' \subseteq tokens' /\ \A t \in ended' \ ended : t \in tokens /\ user'[t.user].sv # t.sv
  BY <1>1, <1>2, Refusing
<1>11. \A c \in Codes : c.secret \in 1..fresh /\ c.secret \notin user[u].recovery
                            /\ (c.secret = user[u].secret => c.step <= user[u].last)
                          => c.secret \notin row.recovery /\ (c.secret = row.secret => c.step <= row.last)
  BY <1>2, <1>8
<1>12. /\ UNCHANGED <<tokens, missed, accepted>> /\ (\A v \in Users \ {u} : proven'[v] = proven[v]) /\ proven' \in [Users -> Nat]
       /\ fresh' \in Nat /\ fresh <= fresh'
       /\ row.recovery \subseteq 1..fresh' /\ row.secret <= fresh' /\ row.secret \notin row.recovery
  BY <1>1, <1>2, <1>8 DEF TypeOK
<1> HIDE DEF ws
<1> QED
  BY <1>7, <1>8, <1>9, <1>10, <1>11, <1>12, FactorWriteKeeps

-----------------------------------------------------------------------------
(* A code of the second factor is spent *)

LEMMA Accepting ==
  ASSUME TypeOK, NEW u \in Users, NEW c \in Codes, accepted' = Accept(u, c)
  PROVE  /\ DOMAIN accepted' = DOMAIN accepted \cup {<<u, c>>}
         /\ accepted' \in [DOMAIN accepted' -> Nat] /\ DOMAIN accepted' \subseteq Users \X Codes
         /\ \A x \in DOMAIN accepted : x # <<u, c>> => accepted'[x] = accepted[x]
         /\ <<u, c>> \notin DOMAIN accepted => accepted'[<<u, c>>] = 1
<1> DEFINE D == DOMAIN accepted \cup {<<u, c>>}
           n(x) == (IF x \in DOMAIN accepted THEN accepted[x] ELSE 0) + (IF x = <<u, c>> THEN 1 ELSE 0)
<1>1. accepted' = [x \in D |-> n(x)]
  BY DEF Accept
<1>2. DOMAIN accepted \subseteq Users \X Codes /\ \A x \in DOMAIN accepted : accepted[x] \in Nat
  BY DEF TypeOK
<1>3. \A x \in D : n(x) \in Nat
  BY <1>2
<1>4. \A x \in DOMAIN accepted : x # <<u, c>> => n(x) = accepted[x]
  BY <1>2
<1>5. <<u, c>> \notin DOMAIN accepted => n(<<u, c>>) = 1
  OBVIOUS
<1> HIDE DEF n
<1>6. DOMAIN accepted' = D /\ \A x \in D : accepted'[x] = n(x)
  BY <1>1
<1>7. accepted' \in [D -> Nat]
  BY <1>1, <1>3
<1> QED
  BY <1>2, <1>4, <1>5, <1>6, <1>7

LEMMA SpendingHolds ==
  ASSUME IInv, NEW u \in Users, NEW row \in User, user' = [user EXCEPT ![u] = row], NEW c \in Codes, accepted' = Accept(u, c),
         UNCHANGED <<proven, fresh>>, crossed \subseteq crossed',
         row.on = user[u].on, row.secret = user[u].secret, row.recovery \subseteq user[u].recovery, user[u].last <= row.last,
         Stale("factor", u)' \/
           /\ c.secret \in 1..fresh /\ c.secret \notin row.recovery /\ (c.secret = user[u].secret => c.step <= row.last)
           /\ c.secret \in user[u].recovery \/ (c.secret = user[u].secret /\ user[u].last < c.step)
  PROVE  FactorState'
<1>1. TypeOK /\ FactorState /\ user[u] \in User
  BY DEF IInv, TypeOK
<1>2. user'[u] = row /\ \A v \in Users \ {u} : user'[v] = user[v]
  BY <1>1, OneRow
<1>3. /\ DOMAIN accepted' = DOMAIN accepted \cup {<<u, c>>}
      /\ \A x \in DOMAIN accepted : x # <<u, c>> => accepted'[x] = accepted[x]
      /\ <<u, c>> \notin DOMAIN accepted => accepted'[<<u, c>>] = 1
  BY <1>1, Accepting
<1>4. \A v \in Users : Stale("factor", v) => Stale("factor", v)'
  BY DEF Stale
<1>5. ASSUME NEW v \in Users \ {u} PROVE Drawn(v)' /\ FactorHolds(v)'
  <2>1. Drawn(v) /\ FactorHolds(v) /\ user'[v] = user[v]
    BY <1>1, <1>2 DEF FactorState
  <2>2. \A x \in DOMAIN accepted' : x[1] = v => x \in DOMAIN accepted /\ accepted'[x] = accepted[x]
    BY <1>3
  <2>3. \A x \in DOMAIN accepted' : x[1] = v /\ Used(x) => Used(x)'
    BY <2>1, <2>2 DEF Used
  <2> QED
    BY <1>4, <2>1, <2>2, <2>3 DEF Drawn, FactorHolds
<1>6. Drawn(u)'
  BY <1>1, <1>2 DEF FactorState, Drawn
<1>7. FactorHolds(u)'
  <2> SUFFICES ASSUME ~Stale("factor", u)' PROVE FactorHolds(u)'
    BY DEF FactorHolds
  <2>1. /\ \A x \in DOMAIN accepted : x[1] = u => Used(x)
        /\ user[u].on => user[u].secret = proven[u] /\ user[u].secret # 0
    BY <1>1, <1>4 DEF FactorState, FactorHolds
  <2>2. /\ c.secret \in 1..fresh /\ c.secret \notin row.recovery /\ (c.secret = user[u].secret => c.step <= row.last)
        /\ c.secret \in user[u].recovery \/ (c.secret = user[u].secret /\ user[u].last < c.step)
    OBVIOUS
  <2>3. c.step \in Nat /\ user[u].last \in Int /\ row.last \in Int
    BY <1>1 DEF Codes, User
  <2>4. <<u, c>> \notin DOMAIN accepted
    <3> SUFFICES ASSUME <<u, c>> \in DOMAIN accepted PROVE FALSE
      OBVIOUS
    <3>1. Used(<<u, c>>)
      BY <2>1
    <3>2. c.secret \notin user[u].recovery /\ (c.secret = user[u].secret => c.step <= user[u].last)
      BY <3>1 DEF Used
    <3> QED
      BY <2>2, <2>3, <3>2
  <2>5. Used(<<u, c>>)'
    BY <1>2, <1>3, <2>2, <2>4 DEF Used
  <2>6. ASSUME NEW x \in DOMAIN accepted, x[1] = u PROVE Used(x)'
    <3>1. Used(x) /\ x[2] \in Codes /\ accepted'[x] = accepted[x]
      BY <1>1, <1>3, <2>1, <2>4, <2>6 DEF TypeOK
    <3>2. x[2].step \in Nat
      BY <3>1 DEF Codes
    <3>3. /\ accepted[x] <= 1
          /\ x[2].secret \in 1..fresh /\ x[2].secret \notin user[u].recovery
          /\ x[2].secret = user[u].secret => x[2].step <= user[u].last
      BY <2>6, <3>1 DEF Used
    <3>4. x[2].secret = row.secret => x[2].step <= row.last
      BY <2>3, <3>2, <3>3
    <3> QED
      BY <1>2, <2>6, <3>1, <3>3, <3>4 DEF Used
  <2>7. \A x \in DOMAIN accepted' : x[1] = u => Used(x)'
    BY <1>3, <2>5, <2>6
  <2> QED
    BY <1>2, <2>1, <2>7 DEF FactorHolds
<1> QED
  BY <1>5, <1>6, <1>7 DEF FactorState

\* What the conditional UPDATE leaves of the row of u, of which a code c is spent.
SpentTo(u, row, over, c) ==
  /\ user' = [user EXCEPT ![u] = row]
  /\ row.row = user[u].row /\ row.active = user[u].active /\ row.super = user[u].super /\ row.exempt = user[u].exempt
  /\ row.sv = user[u].sv /\ row.pw = user[u].pw /\ row.failed = user[u].failed /\ row.locked = user[u].locked
  /\ row.subject = user[u].subject /\ row.on = user[u].on /\ row.secret = user[u].secret
  /\ row.recovery \subseteq user[u].recovery /\ user[u].last <= row.last
  /\ <<"factor", u>> \in over \/
       /\ c.secret \in 1..fresh /\ c.secret \notin row.recovery /\ (c.secret = user[u].secret => c.step <= row.last)
       /\ c.secret \in user[u].recovery \/ (c.secret = user[u].secret /\ user[u].last < c.step)

LEMMA SpentRow ==
  ASSUME IInv, NEW r \in Requests, NEW u \in Users, u = request[r].of, request[r].pc = "factor",
         Spends(u, request[r].seen, request[r].code), user' = Spent(u, request[r].seen, request[r].code)
  PROVE  \E row \in User : SpentTo(u, row, request[r].over, request[r].code)
<1> DEFINE seen == request[r].seen
           c == request[r].code
<1>1. TypeOK /\ Carried(r) /\ FactorKnown(r) /\ Drawn(u) /\ user[u] \in User /\ c \in Codes /\ seen \in User /\ fresh \in Nat
  BY Versions DEF IInv, Knows, FactorState, TypeOK, Request
<1>2. <<"factor", u>> \in request[r].over \/ seen.secret = user[u].secret
  BY <1>1 DEF FactorKnown, Carried
<1>3. /\ user[u].recovery \subseteq 1..fresh /\ user[u].secret <= fresh /\ user[u].secret \notin user[u].recovery
      /\ user[u].secret \in Nat /\ user[u].last \in Int /\ user[u].recovery \subseteq Nat
  BY <1>1 DEF Drawn, User
<1>4. c.secret \in Nat /\ c.step \in 0..(MaxStep + 1) /\ c.step \in -1..(MaxStep + 1) /\ c.step \in Int
  BY <1>1, Sizes, SMTT(30) DEF Codes
<1>5. CASE Totp(seen, c)
  <2> DEFINE row == [user[u] EXCEPT !.last = c.step]
  <2>1. user[u].last < c.step /\ user' = [user EXCEPT ![u].last = c.step]
    BY <1>5 DEF Spends, Spent
  <2>2. c.secret # 0 /\ c.secret = seen.secret
    BY <1>5 DEF Totp
  <2>3. user' = [user EXCEPT ![u] = row]
    BY <1>1, <2>1 DEF TypeOK
  <2>4. row \in User
    BY <1>1, <1>4, ZenonT(30) DEF User
  <2>5. /\ row.row = user[u].row /\ row.active = user[u].active /\ row.super = user[u].super /\ row.exempt = user[u].exempt
        /\ row.sv = user[u].sv /\ row.pw = user[u].pw /\ row.failed = user[u].failed /\ row.locked = user[u].locked
        /\ row.subject = user[u].subject /\ row.on = user[u].on /\ row.secret = user[u].secret
        /\ row.recovery = user[u].recovery /\ row.last = c.step
    BY <1>1 DEF User
  <2> HIDE DEF row
  <2>6. <<"factor", u>> \in request[r].over \/
          /\ c.secret \in 1..fresh /\ c.secret \notin row.recovery /\ (c.secret = user[u].secret => c.step <= row.last)
          /\ c.secret = user[u].secret /\ user[u].last < c.step
    BY <1>2, <1>3, <1>4, <2>1, <2>2, <2>5
  <2>7. user[u].last <= row.last
    BY <1>3, <1>4, <2>1, <2>5, SMTT(30)
  <2> QED
    BY <2>3, <2>4, <2>5, <2>6, <2>7 DEF SpentTo
<1>6. CASE ~Totp(seen, c)
  <2> DEFINE row == [user[u] EXCEPT !.recovery = seen.recovery \ {c.secret}]
  <2>1. c.secret \in seen.recovery /\ user[u].recovery = seen.recovery /\ user' = [user EXCEPT ![u].recovery = seen.recovery \ {c.secret}]
    BY <1>6 DEF Spends, Spent, Recovery
  <2>2. user' = [user EXCEPT ![u] = row]
    BY <1>1, <2>1 DEF TypeOK
  <2>3. row \in User
    <3>1. seen.recovery \ {c.secret} \in SUBSET Nat
      BY <1>3, <2>1
    <3> QED
      BY <1>1, <3>1, ZenonT(30) DEF User
  <2>4. /\ row.row = user[u].row /\ row.active = user[u].active /\ row.super = user[u].super /\ row.exempt = user[u].exempt
        /\ row.sv = user[u].sv /\ row.pw = user[u].pw /\ row.failed = user[u].failed /\ row.locked = user[u].locked
        /\ row.subject = user[u].subject /\ row.on = user[u].on /\ row.secret = user[u].secret
        /\ row.recovery = seen.recovery \ {c.secret} /\ row.last = user[u].last
    BY <1>1 DEF User
  <2> HIDE DEF row
  <2>5. /\ c.secret \in 1..fresh /\ c.secret \notin row.recovery /\ (c.secret = user[u].secret => c.step <= row.last)
        /\ c.secret \in user[u].recovery
    BY <1>3, <2>1, <2>4
  <2>6. user[u].last <= row.last /\ row.recovery \subseteq user[u].recovery
    BY <1>3, <2>1, <2>4
  <2> QED
    BY <2>2, <2>3, <2>4, <2>5, <2>6 DEF SpentTo
<1> QED
  BY <1>5, <1>6

LEMMA FactorUsedStep ==
  ASSUME IInv, NEW r \in Requests, NEW u \in Users, u = request[r].of, FactorUsed(r)
  PROVE  IInv'
<1> DEFINE c == request[r].code
           seen == request[r].seen
<1>1. /\ request[r].pc = "factor" /\ Spends(u, seen, c) /\ user' = Spent(u, seen, c) /\ accepted' = Accept(u, c)
      /\ crossed' = crossed \cup (request[r].over \cap {<<"factor", u>>})
      /\ UNCHANGED <<agenda, tenant, tokens, attempt, step, starts, fresh, ended, missed, proven, opened, overlaps>>
  BY DEF FactorUsed
<1>2. TypeOK /\ Knows(r) /\ RequestsTyped
  BY DEF IInv, TypeOK, RequestsTyped
<1>3. PICK pc \in {"lost", "won"} : Goes(r, pc) /\ (request[r].op = "enable" /\ pc = "won" => Totp(seen, c))
  BY DEF FactorUsed
<1>a. PICK row \in User : SpentTo(u, row, request[r].over, c)
  BY <1>1, SpentRow
<1>4. /\ user' = [user EXCEPT ![u] = row]
      /\ row.row = user[u].row /\ row.active = user[u].active /\ row.super = user[u].super /\ row.exempt = user[u].exempt
      /\ row.sv = user[u].sv /\ row.pw = user[u].pw /\ row.failed = user[u].failed /\ row.locked = user[u].locked
      /\ row.subject = user[u].subject /\ row.on = user[u].on /\ row.secret = user[u].secret
      /\ row.recovery \subseteq user[u].recovery /\ user[u].last <= row.last
      /\ <<"factor", u>> \in request[r].over \/
           /\ c.secret \in 1..fresh /\ c.secret \notin row.recovery /\ (c.secret = user[u].secret => c.step <= row.last)
           /\ c.secret \in user[u].recovery \/ (c.secret = user[u].secret /\ user[u].last < c.step)
  BY <1>a DEF SpentTo
<1> DEFINE next == [request[r] EXCEPT !.pc = pc]
<1>5. /\ GoesOn(r) /\ request'[r].pc = pc /\ next \in Request /\ request' = [request EXCEPT ![r] = next]
      /\ next.over \subseteq next.reads
  BY <1>2, <1>3, Going
<1> HIDE DEF next
<1>6. RequestsTyped' /\ Moves(r, next, {})
  BY <1>2, <1>5, OneMoves
<1>7. c \in Codes /\ request[r].over \subseteq Facts /\ user[u].sv \in Nat
  BY <1>2, Versions DEF TypeOK, Request
<1>8. crossed \subseteq crossed' /\ crossed' \subseteq Facts
  BY <1>1, <1>2, <1>7 DEF TypeOK
<1>9. user' \in [Users -> User] /\ user'[u] = row /\ (\A v \in Users \ {u} : user'[v] = user[v])
      /\ Here' = Here /\ EmergencyAdmins' = EmergencyAdmins
  BY <1>2, <1>4, OneRow
<1>10. DOMAIN accepted' \subseteq Users \X Codes /\ accepted' \in [DOMAIN accepted' -> Nat]
  BY <1>1, <1>2, <1>7, Accepting
<1>11. TypeOK'
  BY <1>1, <1>2, <1>6, <1>8, <1>9, <1>10 DEF TypeOK, RequestsTyped
<1>12. Covers({})
  <2>1. RowCovered(u, row, {})
    BY <1>4, <1>7 DEF RowCovered
  <2> QED
    BY <1>1, <1>2, <1>4, <1>8, <2>1, RowCovers
<1>13. AttemptsStay(r)
  BY <1>1, SMTT(30) DEF AttemptsStay
<1>14. Knows(r)'
  <2>1. \A v \in Users : /\ user'[v].row = user[v].row /\ user'[v].failed = user[v].failed /\ user'[v].locked = user[v].locked
                          /\ user'[v].sv = user[v].sv /\ user'[v].pw = user[v].pw /\ user'[v].secret = user[v].secret
    BY <1>4, <1>9
  <2>2. request[r].op = "enable" /\ pc = "won" => c.secret = seen.secret /\ c.secret # 0
    BY <1>3 DEF Totp
  <2> QED
    BY <1>1, <1>5, <1>8, <2>1, <2>2, CodeCompared
<1>15. \A x \in Requests : Knows(x)'
  BY <1>6, <1>11, <1>12, <1>13, <1>14, AllKnow
<1>16. TokensOfUsers' /\ VersionState'
  <2>1. tokens' \ tokens = {} /\ ended' \ ended = {}
    BY <1>1
  <2> QED
    BY <1>2, <1>11, <1>12, <2>1, VersionsStay DEF IInv
<1>17. CountState' /\ Untried'
  <2>1. \A v \in Users : overlaps[v] <= overlaps'[v]
    BY <1>1, <1>2 DEF TypeOK
  <2>2. CountState'
    BY <1>1, <1>4, <1>11, <2>1, CountUntouched
  <2>3. Untried'
    BY <1>4, <1>9 DEF IInv, Untried
  <2> QED
    BY <2>2, <2>3
<1>18. FactorState'
  <2>1. <<"factor", u>> \in request[r].over => Stale("factor", u)'
    BY <1>1 DEF Stale
  <2> QED
    BY <1>1, <1>4, <1>7, <1>8, <2>1, SpendingHolds
<1>19. AttemptState'
  <2>1. ~Holds(r)'
    BY <1>5 DEF Holds
  <2> QED
    BY <1>1, <1>6, <2>1, AttemptsStayTaken DEF IInv
<1>20. WayState'
  <2>1. ~At(r, "unlink", "users")
    BY <1>1 DEF At
  <2>2. Unlinking => Unlinking'
    BY <1>6, <2>1, UnlinkingStays
  <2>3. \A v \in Here : user'[v].subject = user[v].subject
    BY <1>4, <1>9 DEF Here
  <2> QED
    BY <1>1, <1>8, <1>9, <2>2, <2>3, WayStays DEF IInv
<1> QED
  BY <1>11, <1>15, <1>16, <1>17, <1>18, <1>19, <1>20 DEF IInv

-----------------------------------------------------------------------------
(* Writes of more than a row, and the administrators' *)

LEMMA StepKeeps ==
  ASSUME IInv, TypeOK', NEW r \in Requests, NEW next, NEW ws, Moves(r, next, ws), Covers(ws), AttemptsStay(r), Knows(r)',
         AttemptState', CountState', Untried', FactorState', WayState',
         \A t \in tokens' \ tokens : t.user \in Here /\ (Stale("version", t.user) \/ Behind(t.user, t.sv, t.pw)),
         \A t \in ended' \ ended : t \in tokens /\ user'[t.user].sv # t.sv
  PROVE  IInv'
<1>1. TypeOK /\ TokensOfUsers /\ VersionState
  BY DEF IInv
<1>2. \A x \in Requests : Knows(x)'
  BY AllKnow
<1>3. TokensOfUsers' /\ VersionState'
  BY <1>1, VersionsStay
<1> QED
  BY <1>2, <1>3 DEF IInv

\* A write with which the request ends.
LEMMA LastWrite ==
  ASSUME IInv, NEW r \in Requests, NEW ws, Writes(r, ws, Idle)
  PROVE  /\ RequestsTyped' /\ Moves(r, Idle, ws) /\ Knows(r)' /\ ~Holds(r)'
         /\ crossed \subseteq crossed' /\ request[r].over \subseteq crossed' /\ crossed' \subseteq Facts
         /\ overlaps' \in [Users -> Nat] /\ \A v \in Users : overlaps[v] <= overlaps'[v]
<1>1. TypeOK /\ RequestsTyped /\ Idle \in Request /\ Idle.over \subseteq Idle.reads
  BY IdleTyped DEF IInv, TypeOK, RequestsTyped
<1>2. RequestsTyped' /\ Moves(r, Idle, ws)
  BY <1>1, WriteMoves
<1>3. request'[r] = Idle
  BY <1>2 DEF Moves
<1>4. Knows(r)' /\ ~Holds(r)'
  BY <1>3, IdleKnows, IdleTyped DEF Holds
<1> QED
  BY <1>1, <1>2, <1>4, WriteNotes

\* The row an administrator saves whole: the columns that were not loaded stay.
SavedAs(seen, now) ==
  [seen EXCEPT !.pw = now.pw, !.secret = now.secret, !.last = now.last, !.recovery = now.recovery]

LEMMA SavedRow ==
  ASSUME NEW seen \in User, NEW now \in User
  PROVE  LET row == SavedAs(seen, now) IN
         /\ row \in User
         /\ row.row = seen.row /\ row.active = seen.active /\ row.super = seen.super /\ row.exempt = seen.exempt
         /\ row.sv = seen.sv /\ row.failed = seen.failed /\ row.locked = seen.locked /\ row.subject = seen.subject
         /\ row.on = seen.on /\ row.pw = now.pw /\ row.secret = now.secret /\ row.last = now.last
         /\ row.recovery = now.recovery
<1> DEFINE row == SavedAs(seen, now)
<1>1. now.pw \in Nat /\ now.secret \in Nat /\ now.last \in -1..(MaxStep + 1) /\ now.recovery \in SUBSET Nat
  BY DEF User
<1>2. row \in User
  BY <1>1, ZenonT(30) DEF User, SavedAs
<1>3. /\ row.row = seen.row /\ row.active = seen.active /\ row.super = seen.super /\ row.exempt = seen.exempt
      /\ row.sv = seen.sv /\ row.failed = seen.failed /\ row.locked = seen.locked /\ row.subject = seen.subject
      /\ row.on = seen.on /\ row.pw = now.pw /\ row.secret = now.secret /\ row.last = now.last
      /\ row.recovery = now.recovery
  BY <1>1 DEF User, SavedAs
<1> QED
  BY <1>2, <1>3

\* A count that is written back, as it was read, over a newer one.
LEMMA CountOverwritten ==
  ASSUME IInv, TypeOK', NEW r \in Requests, NEW ws, Writes(r, ws, Idle), NEW u \in Users, NEW row \in User,
         user' = [user EXCEPT ![u] = row], missed' = missed,
         <<"failed", u>> \in request[r].over \/ (row.failed = user[u].failed /\ row.locked = user[u].locked)
  PROVE  CountState'
<1>1. TypeOK /\ CountState
  BY DEF IInv
<1>2. user'[u] = row /\ \A v \in Users \ {u} : user'[v] = user[v]
  BY <1>1, OneRow
<1>3. \A v \in Users : overlaps[v] <= overlaps'[v] /\ (<<"failed", v>> \in request[r].over => overlaps'[v] = overlaps[v] + 1)
  BY <1>1, WriteNotes
<1>4. ASSUME <<"failed", u>> \in request[r].over PROVE Counted(u)'
  <2>1. /\ missed[u] \in Nat /\ overlaps[u] \in Nat /\ MaxFailed \in Nat /\ overlaps'[u] = overlaps[u] + 1
        /\ user[u].failed \in 0..(MaxFailed - 1) /\ row.failed \in 0..(MaxFailed - 1)
    BY <1>1, <1>3, <1>4, Sizes DEF TypeOK, User
  <2> DEFINE m == missed[u]
             a == MaxFailed * overlaps[u]
             b == MaxFailed * overlaps'[u]
             held == IF user[u].locked THEN MaxFailed ELSE user[u].failed
             next == IF row.locked THEN MaxFailed ELSE row.failed
  <2>2. a \in Nat /\ b = a + MaxFailed
    <3>1. overlaps[u] \in Nat /\ MaxFailed \in Nat /\ overlaps[u] <= overlaps[u]
      BY <2>1
    <3>2. MaxFailed * (overlaps[u] + 1) = MaxFailed * overlaps[u] + MaxFailed
      BY <3>1, Times
    <3>3. a \in Nat
      BY <3>1, Times
    <3> QED
      BY <2>1, <3>2, <3>3
  <2>3. held <= MaxFailed /\ next >= 0 /\ held \in Nat /\ next \in Nat
    BY <2>1
  <2>4. m <= a + held
    BY <1>1 DEF CountState, Counted
  <2>5. Counted(u)' <=> m <= b + next
    BY <1>2 DEF Counted
  <2>6. m \in Nat
    BY <2>1
  <2> HIDE DEF a, b, held, next, m
  <2> QED
    BY <2>1, <2>2, <2>3, <2>4, <2>5, <2>6
<1>5. ASSUME NEW v \in Users
      PROVE  \/ Counted(v)'
             \/ missed'[v] = 0
             \/ /\ user'[v].failed = user[v].failed /\ user'[v].locked = user[v].locked
                /\ missed'[v] = missed[v] /\ overlaps[v] <= overlaps'[v]
  BY <1>2, <1>3, <1>4
<1> QED
  BY <1>1, <1>5, CountsStay

LEMMA UpdateSavesStep ==
  ASSUME IInv, NEW r \in Requests, NEW u \in Users, u = request[r].of, UpdateSaves(r)
  PROVE  IInv'
<1> DEFINE seen == request[r].seen
           over == request[r].over
           row == SavedAs(request[r].seen, user[u])
           ws == Loaded(u) \cup {<<"users", None>>, <<"admins", None>>}
<1>1. /\ At(r, "update", "write") /\ request[r].op = "update" /\ request[r].pc = "write"
      /\ UserBecomes([user EXCEPT ![u] = row]) /\ Writes(r, ws, Idle)
      /\ UNCHANGED <<agenda, tenant, tokens, attempt, step, starts, fresh, missed, proven, accepted, opened>>
  BY DEF UpdateSaves, At, SavedAs
<1>2. /\ TypeOK /\ Knows(r) /\ user[u].row = "here" /\ user[u] \in User /\ user[u].sv \in Nat /\ seen \in User /\ seen.sv \in Nat
      /\ u \in Here
  BY <1>1, Whose DEF AboutOneUser, Kinds
<1>3. /\ row \in User
      /\ row.row = seen.row /\ row.active = seen.active /\ row.super = seen.super /\ row.exempt = seen.exempt
      /\ row.sv = seen.sv /\ row.failed = seen.failed /\ row.locked = seen.locked /\ row.subject = seen.subject
      /\ row.on = seen.on /\ row.pw = user[u].pw /\ row.secret = user[u].secret /\ row.last = user[u].last
      /\ row.recovery = user[u].recovery
  <2>1. user[u] \in User /\ seen \in User
    BY <1>2
  <2> QED
    BY <2>1, SavedRow
<1> HIDE DEF row
<1>4. user' = [user EXCEPT ![u] = row]
  BY <1>1 DEF UserBecomes
<1>5. /\ RequestsTyped' /\ Moves(r, Idle, ws) /\ Knows(r)' /\ ~Holds(r)' /\ crossed \subseteq crossed' /\ over \subseteq crossed'
      /\ crossed' \subseteq Facts /\ overlaps' \in [Users -> Nat] /\ \A v \in Users : overlaps[v] <= overlaps'[v]
  BY <1>1, LastWrite
<1>6. /\ user' \in [Users -> User] /\ user'[u] = row /\ \A v \in Users \ {u} : user'[v] = user[v]
  BY <1>2, <1>3, <1>4, OneRow
<1>7. ended' \subseteq tokens' /\ \A t \in ended' \ ended : t \in tokens /\ user'[t.user].sv # t.sv
  BY <1>1, <1>2, Refusing
<1>8. TypeOK'
  BY <1>1, <1>2, <1>5, <1>6, <1>7 DEF TypeOK, RequestsTyped
<1>9. /\ row.row = "here"
      /\ <<"version", u>> \in over \/ row.sv \in {user[u].sv, user[u].sv + 1}
      /\ <<"failed", u>> \in over \/ (row.failed = user[u].failed /\ row.locked = user[u].locked)
      /\ <<"factor", u>> \in over \/ row.on = user[u].on
      /\ <<"subject", u>> \in over \/ row.subject = user[u].subject
  <2>1. row.row = "here"
    BY <1>1, <1>2, <1>3 DEF Knows, Carried
  <2>2. <<"version", u>> \in over \/ row.sv \in {user[u].sv, user[u].sv + 1}
    BY <1>1, <1>2, <1>3 DEF Knows, VersionKnown
  <2>3. <<"failed", u>> \in over \/ (row.failed = user[u].failed /\ row.locked = user[u].locked)
    BY <1>1, <1>2, <1>3 DEF Knows, FailedKnown, ReadsFailed
  <2>4. <<"factor", u>> \in over \/ row.on = user[u].on
    BY <1>1, <1>2, <1>3 DEF Knows, FactorKnown
  <2>5. <<"subject", u>> \in over \/ row.subject = user[u].subject
    BY <1>1, <1>2, <1>3 DEF Knows, WayKnown
  <2> QED
    BY <2>1, <2>2, <2>3, <2>4, <2>5
<1>10. Covers(ws)
  <2>1. Stale("version", u)' \/ (user[u].sv <= row.sv /\ user[u].pw = row.pw)
    BY <1>2, <1>3, <1>5, <1>9 DEF Stale
  <2>2. RowCovered(u, row, ws)
    BY <1>2, <1>9, <2>1 DEF RowCovered, Loaded
  <2> HIDE DEF ws
  <2> QED
    BY <1>1, <1>2, <1>3, <1>4, <1>5, <2>2, RowCovers
<1> HIDE DEF ws
<1>11. CountState'
  BY <1>1, <1>3, <1>4, <1>8, <1>9, CountOverwritten
<1>12. Untried'
  BY <1>6, <1>9 DEF IInv, Untried
<1>13. FactorState'
  <2>1. Drawn(u) /\ FactorHolds(u)
    BY DEF IInv, FactorState
  <2>2. Drawn(u)'
    BY <1>1, <1>3, <1>6, <2>1 DEF Drawn
  <2>3. (Drawn(u)' /\ FactorHolds(u)') \/ FactorSame(u)
    <3>1. CASE <<"factor", u>> \in over
      BY <1>5, <2>2, <3>1 DEF FactorHolds, Stale
    <3>2. CASE <<"factor", u>> \notin over
      BY <1>1, <1>3, <1>6, <1>9, <3>2 DEF FactorSame
    <3> QED
      BY <3>1, <3>2
  <2>4. \A v \in Users \ {u} : FactorSame(v)
    BY <1>1, <1>6 DEF FactorSame
  <2>5. \A v \in Users : (Drawn(v)' /\ FactorHolds(v)') \/ FactorSame(v)
    BY <2>3, <2>4
  <2>6. fresh' \in Nat /\ fresh <= fresh'
    BY <1>1, <1>2 DEF TypeOK
  <2> QED
    BY <1>1, <1>2, <1>5, <2>5, <2>6, FactorsStay DEF IInv
<1>14. AttemptsStay(r) /\ AttemptState'
  <2>1. AttemptsStay(r)
    BY <1>1 DEF AttemptsStay
  <2>2. AttemptState'
    BY <1>1, <1>5, AttemptsStayTaken DEF IInv
  <2> QED
    BY <2>1, <2>2
<1>15. WayState'
  <2>1. <<"subject", u>> \in over \/ <<"admins", None>> \in over => Crossings' # {}
    BY <1>5 DEF Crossings
  <2>2. Crossings # {} => Crossings' # {}
    BY <1>5 DEF Crossings
  <2>3. ASSUME WayHolds, <<"subject", u>> \notin over, <<"admins", None>> \notin over PROVE WayHolds'
    <3>1. tenant'.enforced => tenant'.dir # None
      BY <1>1, <2>3 DEF WayHolds
    <3>2. tenant'.enforced => EmergencyAdmins' # {}
      <4> SUFFICES ASSUME tenant'.enforced PROVE EmergencyAdmins' # {}
        OBVIOUS
      <4>1. \A v \in Users \ {u} : v \in EmergencyAdmins <=> v \in EmergencyAdmins'
        BY <1>6 DEF EmergencyAdmins, Active, Here
      <4>2. CASE LosesEmergency(seen)
        <5>1. MayLose(u)
          BY <1>1, <1>2, <2>3, <4>2 DEF Knows, WayKnown
        <5>2. EmergencyAdmins \ {u} # {}
          BY <1>1, <5>1 DEF MayLose
        <5>3. EmergencyAdmins \subseteq Users
          BY DEF EmergencyAdmins, Active, Here
        <5> QED
          BY <4>1, <5>2, <5>3
      <4>3. CASE ~LosesEmergency(seen)
        <5>1. seen.exempt /\ seen.active /\ seen.super
          BY <4>3 DEF LosesEmergency
        <5>2. u \in EmergencyAdmins'
          BY <1>3, <1>6, <1>9, <5>1 DEF EmergencyAdmins, Active, Here
        <5> QED
          BY <5>2
      <4> QED
        BY <4>2, <4>3
    <3>3. Unlinking => Unlinking'
      BY <1>1, <1>5, UnlinkingStays DEF At
    <3>4. ASSUME \A v \in Here : Bound(v) PROVE \A v \in Here' : Bound(v)'
      <4>1. Here' = Here
        BY <1>2, <1>6, <1>9 DEF Here
      <4>2. \A v \in Here : user'[v].subject = user[v].subject
        BY <1>6, <1>9, <2>3 DEF Here
      <4> QED
        BY <1>1, <3>4, <4>1, <4>2 DEF Bound
    <3> QED
      BY <2>3, <3>1, <3>2, <3>3, <3>4 DEF WayHolds
  <2> QED
    BY <2>1, <2>2, <2>3 DEF IInv, WayState
<1>16. tokens' \ tokens = {}
  BY <1>1
<1> QED
  BY <1>5, <1>7, <1>8, <1>10, <1>11, <1>12, <1>13, <1>14, <1>15, <1>16, StepKeeps

\* An account is added, or there is one already.
LEMMA CreateSavesStep ==
  ASSUME IInv, NEW r \in Requests, NEW u \in Users, u = request[r].of, CreateSaves(r)
  PROVE  IInv'
<1> DEFINE row == [NoUser EXCEPT !.row = "here", !.active = TRUE, !.super = request[r].good, !.pw = 1]
           ws == {<<"users", None>>}
<1>1. /\ At(r, "create", "write") /\ ~At(r, "unlink", "users")
      /\ UNCHANGED <<agenda, tenant, tokens, attempt, step, starts, fresh, missed, proven, accepted, opened>>
  BY DEF CreateSaves, At
<1>2. TypeOK /\ request[r] \in Request
  BY DEF IInv, TypeOK
<1>3. CASE user[u].row = "here"
  <2>1. Ends(r) /\ Reads
    BY <1>1, <1>3 DEF CreateSaves, Reads
  <2> QED
    BY <1>1, <2>1, EndingStep
<1>4. CASE user[u].row # "here"
  <2>1. UserBecomes([user EXCEPT ![u] = row]) /\ Writes(r, ws, Idle)
    BY <1>4 DEF CreateSaves
  <2>2. user[u].row = "absent" /\ u \notin Here
    BY <1>2, <1>4 DEF TypeOK, User, Here
  <2>3. row \in User
    <3>1. request[r].good \in BOOLEAN
      BY <1>2 DEF Request
    <3> QED
      BY <3>1, NoUserTyped, ZenonT(30) DEF User
  <2>4. /\ row.row = "here" /\ row.exempt = FALSE /\ row.failed = 0 /\ row.locked = FALSE /\ row.on = FALSE /\ row.secret = 0
        /\ row.recovery = {} /\ row.subject = None
    BY DEF NoUser
  <2> HIDE DEF row
  <2>5. user' = [user EXCEPT ![u] = row]
    BY <2>1 DEF UserBecomes
  <2>6. /\ RequestsTyped' /\ Moves(r, Idle, ws) /\ Knows(r)' /\ ~Holds(r)' /\ crossed \subseteq crossed'
        /\ crossed' \subseteq Facts /\ overlaps' \in [Users -> Nat] /\ \A v \in Users : overlaps[v] <= overlaps'[v]
    BY <2>1, LastWrite
  <2>7. /\ user' \in [Users -> User] /\ user'[u] = row /\ \A v \in Users \ {u} : user'[v] = user[v]
    BY <1>2, <2>3, <2>5, OneRow
  <2>8. ended' \subseteq tokens' /\ \A t \in ended' \ ended : t \in tokens /\ user'[t.user].sv # t.sv
    BY <1>1, <1>2, <2>1, Refusing
  <2>9. TypeOK'
    BY <1>1, <1>2, <2>6, <2>7, <2>8 DEF TypeOK, RequestsTyped
  <2>10. \A v \in Here : v \in Users /\ user'[v] = user[v] /\ user[v].row = "here" /\ user[v].sv \in Nat
    BY <1>2, <2>2, <2>7 DEF Here, TypeOK, User
  <2>11. EmergencyAdmins' = EmergencyAdmins
    BY <2>2, <2>4, <2>7 DEF EmergencyAdmins, Active, Here
  <2>12. Covers(ws)
    BY <1>1, <2>6, <2>10, <2>11 DEF Covers
  <2>13. CountState'
    <3>1. user[u].failed = 0 /\ user[u].locked = FALSE
      BY <1>2, <2>2 DEF IInv, Untried, TypeOK, User
    <3>2. \A v \in Users : user'[v].failed = user[v].failed /\ user'[v].locked = user[v].locked
      BY <2>4, <2>7, <3>1
    <3> QED
      BY <1>1, <1>2, <2>6, <2>9, <3>2, CountsStay DEF IInv
  <2>14. Untried'
    BY <2>4, <2>7 DEF IInv, Untried
  <2>15. FactorState'
    <3>1. Drawn(u)'
      BY <1>1, <1>2, <2>4, <2>7 DEF Drawn, TypeOK
    <3>2. FactorHolds(u)'
      <4>1. FactorHolds(u) /\ (Stale("factor", u) => Stale("factor", u)')
        BY <2>6 DEF IInv, FactorState, Stale
      <4>2. \A x \in DOMAIN accepted : x[1] = u /\ Used(x) => Used(x)'
        BY <1>1, <2>4, <2>7 DEF Used
      <4> QED
        BY <1>1, <2>4, <2>7, <4>1, <4>2 DEF FactorHolds
    <3>3. \A v \in Users \ {u} : FactorSame(v)
      BY <1>1, <2>7 DEF FactorSame
    <3>4. \A v \in Users : (Drawn(v)' /\ FactorHolds(v)') \/ FactorSame(v)
      BY <3>1, <3>2, <3>3
    <3>5. fresh' \in Nat /\ fresh <= fresh'
      BY <1>1, <1>2 DEF TypeOK
    <3> QED
      BY <1>1, <1>2, <2>6, <3>4, <3>5, FactorsStay DEF IInv
  <2>16. AttemptsStay(r) /\ AttemptState'
    <3>1. AttemptsStay(r)
      BY <1>1 DEF AttemptsStay
    <3>2. AttemptState'
      BY <1>1, <2>6, AttemptsStayTaken DEF IInv
    <3> QED
      BY <3>1, <3>2
  <2>17. WayState'
    <3>1. Crossings # {} => Crossings' # {}
      BY <2>6 DEF Crossings
    <3>2. Unlinking => Unlinking'
      BY <1>1, <2>6, UnlinkingStays
    <3>3. (\A v \in Here : Bound(v)) => \A v \in Here' : Bound(v)'
      BY <1>1, <2>4, <2>7 DEF Bound, Here
    <3>4. WayHolds => WayHolds'
      BY <1>1, <2>11, <3>2, <3>3 DEF WayHolds
    <3> QED
      BY <3>1, <3>4 DEF IInv, WayState
  <2>18. tokens' \ tokens = {}
    BY <1>1
  <2> QED
    BY <2>6, <2>8, <2>9, <2>12, <2>13, <2>14, <2>15, <2>16, <2>17, <2>18, StepKeeps
<1> QED
  BY <1>3, <1>4

-----------------------------------------------------------------------------
(* The organisation and its directory *)

\* What a write that leaves the accounts alone keeps of them.
LEMMA TenantWrite ==
  ASSUME IInv, NEW r \in Requests, NEW next, NEW ws, Moves(r, next, ws), TypeOK', Knows(r)',
         ~(SigningIn(r) \/ Holds(r))', WayState', crossed \subseteq crossed', \A v \in Users : overlaps[v] <= overlaps'[v],
         <<"admins", None>> \in ws \/ (tenant'.enforced => tenant.enforced),
         <<"directory", None>> \in ws \/ tenant'.dir = tenant.dir,
         UNCHANGED <<user, tokens, attempt, fresh, ended, missed, proven, accepted, opened>>
  PROVE  IInv'
<1>1. TypeOK
  BY DEF IInv
<1>2. EmergencyAdmins' = EmergencyAdmins
  BY DEF EmergencyAdmins, Active, Here
<1>3. Covers(ws)
  <2>1. \A v \in Here : user[v].row = "here" /\ user[v].sv \in Nat
    BY <1>1 DEF Here, TypeOK, User
  <2> QED
    BY <1>2, <2>1 DEF Covers
<1>4. CountState' /\ Untried'
  <2>1. \A v \in Users : user'[v].failed = user[v].failed /\ user'[v].locked = user[v].locked
    OBVIOUS
  <2>2. CountState'
    BY <1>1, <2>1, CountsStay DEF IInv
  <2>3. Untried'
    BY DEF IInv, Untried
  <2> QED
    BY <2>2, <2>3
<1>5. FactorState'
  <2>1. \A v \in Users : FactorSame(v)
    BY DEF FactorSame
  <2>2. fresh' \in Nat /\ fresh <= fresh'
    BY <1>1 DEF TypeOK
  <2> QED
    BY <1>1, <2>1, <2>2, FactorsStay DEF IInv
<1>6. AttemptsStay(r) /\ AttemptState'
  <2>1. AttemptsStay(r)
    BY DEF AttemptsStay
  <2>2. AttemptState'
    BY AttemptsStayTaken DEF IInv
  <2> QED
    BY <2>1, <2>2
<1>7. tokens' \ tokens = {} /\ ended' \ ended = {}
  OBVIOUS
<1> QED
  BY <1>3, <1>4, <1>5, <1>6, <1>7, StepKeeps

LEMMA OrganisationWritesStep ==
  ASSUME IInv, NEW r \in Requests, OrganisationWrites(r)
  PROVE  IInv'
<1> DEFINE q == request[r]
           ws == IF request[r].says = "required" THEN {<<"admins", None>>} ELSE {}
<1>1. /\ At(r, "enforce", "write") /\ q.op = "enforce" /\ ~At(r, "unlink", "users") /\ Writes(r, ws, Idle)
      /\ tenant' = IF q.says = "mfa" THEN [tenant EXCEPT !.mfaRequired = TRUE] ELSE [tenant EXCEPT !.enforced = q.says = "required"]
      /\ UNCHANGED <<agenda, user, tokens, attempt, step, starts, fresh, ended, missed, proven, accepted, opened>>
  BY DEF OrganisationWrites, At
<1>2. TypeOK /\ Knows(r) /\ tenant \in Tenant
  BY DEF IInv, TypeOK
<1>3. /\ tenant' \in Tenant /\ tenant'.dir = tenant.dir
      /\ q.says # "required" => (tenant'.enforced => tenant.enforced)
  <2>1. CASE q.says = "mfa"
    <3>1. tenant' = [tenant EXCEPT !.mfaRequired = TRUE]
      BY <1>1, <2>1
    <3> QED
      BY <1>2, <3>1 DEF Tenant
  <2>2. CASE q.says # "mfa"
    <3>1. tenant' = [tenant EXCEPT !.enforced = q.says = "required"]
      BY <1>1, <2>2
    <3>2. (q.says = "required") \in BOOLEAN
      OBVIOUS
    <3> QED
      BY <1>2, <3>1, <3>2 DEF Tenant
  <2> QED
    BY <2>1, <2>2
<1>4. /\ RequestsTyped' /\ Moves(r, Idle, ws) /\ Knows(r)' /\ ~Holds(r)' /\ crossed \subseteq crossed' /\ q.over \subseteq crossed'
      /\ crossed' \subseteq Facts /\ overlaps' \in [Users -> Nat] /\ \A v \in Users : overlaps[v] <= overlaps'[v]
  BY <1>1, LastWrite
<1>5. ~SigningIn(r)'
  BY <1>4, IdleTyped DEF Moves, SigningIn, At
<1>6. TypeOK'
  BY <1>1, <1>2, <1>3, <1>4 DEF TypeOK, RequestsTyped
<1>7. WayState'
  <2>1. <<"directory", None>> \in q.over \/ <<"admins", None>> \in q.over => Crossings' # {}
    BY <1>4 DEF Crossings
  <2>2. Crossings # {} => Crossings' # {}
    BY <1>4 DEF Crossings
  <2>3. ASSUME WayHolds, <<"directory", None>> \notin q.over, <<"admins", None>> \notin q.over PROVE WayHolds'
    <3>1. EmergencyAdmins' = EmergencyAdmins /\ Here' = Here
      BY <1>1 DEF EmergencyAdmins, Active, Here
    <3>2. tenant'.enforced => tenant'.dir # None /\ EmergencyAdmins' # {}
      <4>1. CASE q.says = "required"
        BY <1>1, <1>2, <1>3, <2>3, <3>1, <4>1 DEF Knows, WayKnown
      <4>2. CASE q.says # "required"
        BY <1>3, <2>3, <3>1, <4>2 DEF WayHolds
      <4> QED
        BY <4>1, <4>2
    <3>3. Unlinking => Unlinking'
      BY <1>1, <1>4, UnlinkingStays
    <3>4. (\A v \in Here : Bound(v)) => \A v \in Here' : Bound(v)'
      BY <1>1, <1>3, <3>1 DEF Bound
    <3> QED
      BY <2>3, <3>2, <3>3, <3>4 DEF WayHolds
  <2> QED
    BY <2>1, <2>2, <2>3 DEF IInv, WayState
<1>8. <<"admins", None>> \in ws \/ (tenant'.enforced => tenant.enforced)
  BY <1>3
<1> HIDE DEF ws
<1> QED
  BY <1>1, <1>3, <1>4, <1>5, <1>6, <1>7, <1>8, TenantWrite

LEMMA UnlinkTenantStep ==
  ASSUME IInv, NEW r \in Requests, UnlinkTenant(r)
  PROVE  IInv'
<1> DEFINE ws == {<<"directory", None>>}
           next == [request[r] EXCEPT !.pc = "users", !.reads = ws]
<1>1. /\ At(r, "unlink", "write") /\ request[r].op = "unlink" /\ Writes(r, ws, next)
      /\ tenant' = [tenant EXCEPT !.dir = None, !.enforced = FALSE]
      /\ UNCHANGED <<agenda, user, tokens, attempt, step, starts, fresh, ended, missed, proven, accepted, opened>>
  BY DEF UnlinkTenant, At
<1>2. TypeOK /\ RequestsTyped /\ Knows(r) /\ tenant \in Tenant /\ request[r] \in Request /\ request[r].over \subseteq request[r].reads
  BY DEF IInv, TypeOK, RequestsTyped
<1>3. tenant' \in Tenant /\ tenant'.dir = None /\ tenant'.enforced = FALSE
  BY <1>1, <1>2 DEF Tenant
<1>4. ws \in SUBSET Facts /\ request[r].over = {}
  BY <1>1, <1>2 DEF Facts, Knows, Carried
<1>5. next \in Request
  BY <1>2, <1>4, ZenonT(30) DEF Request
<1>6. next.op = "unlink" /\ next.pc = "users" /\ next.over = {}
  BY <1>1, <1>2, <1>4 DEF Request
<1> HIDE DEF next
<1>7. RequestsTyped' /\ Moves(r, next, ws)
  BY <1>1, <1>2, <1>5, <1>6, WriteMoves
<1>8. request'[r] = next
  BY <1>7 DEF Moves
<1>9. /\ crossed \subseteq crossed' /\ crossed' \subseteq Facts
      /\ overlaps' \in [Users -> Nat] /\ \A v \in Users : overlaps[v] <= overlaps'[v]
  BY <1>1, <1>2, WriteNotes
<1>10. TypeOK'
  BY <1>1, <1>2, <1>3, <1>7, <1>9 DEF TypeOK, RequestsTyped
<1>11. At(r, "unlink", "users")' /\ ~SigningIn(r)' /\ ~Holds(r)' /\ ~At(r, "unlink", "write")'
  BY <1>6, <1>8 DEF SigningIn, Holds, At
<1>12. Knows(r)'
  <2>1. Carried(r)'
    BY <1>6, <1>8, <1>11 DEF Carried, AboutOneUser, Kinds, OfFactor
  <2> QED
    BY <1>6, <1>8, <2>1, Ignores DEF Knows
<1>13. WayState'
  <2>1. Unlinking'
    BY <1>11 DEF Unlinking
  <2> QED
    BY <1>3, <2>1 DEF WayState, WayHolds
<1> HIDE DEF ws
<1>14. <<"admins", None>> \in ws \/ (tenant'.enforced => tenant.enforced)
  BY <1>3
<1>15. <<"directory", None>> \in ws
  BY DEF ws
<1> QED
  BY <1>1, <1>7, <1>9, <1>10, <1>11, <1>12, <1>13, <1>14, <1>15, TenantWrite

\* Every account loses its binding, and nothing else.
LEMMA Unbinding ==
  ASSUME TypeOK, user' = Unbound
  PROVE  /\ user' \in [Users -> User] /\ Here' = Here /\ EmergencyAdmins' = EmergencyAdmins
         /\ \A v \in Users :
              /\ user'[v].subject = None /\ user'[v].row = user[v].row /\ user'[v].failed = user[v].failed
              /\ user'[v].locked = user[v].locked /\ user'[v].sv = user[v].sv /\ user'[v].pw = user[v].pw
              /\ user'[v].on = user[v].on /\ user'[v].secret = user[v].secret /\ user'[v].last = user[v].last
              /\ user'[v].recovery = user[v].recovery
<1> DEFINE row(v) == [user[v] EXCEPT !.subject = None]
<1>1. ASSUME NEW v \in Users
      PROVE  /\ row(v) \in User
             /\ row(v).subject = None /\ row(v).row = user[v].row /\ row(v).failed = user[v].failed
             /\ row(v).locked = user[v].locked /\ row(v).sv = user[v].sv /\ row(v).pw = user[v].pw
             /\ row(v).on = user[v].on /\ row(v).secret = user[v].secret /\ row(v).last = user[v].last
             /\ row(v).recovery = user[v].recovery
             /\ row(v).active = user[v].active /\ row(v).super = user[v].super /\ row(v).exempt = user[v].exempt
  <2>1. user[v] \in User
    BY DEF TypeOK
  <2>2. row(v) \in User
    BY <2>1, ZenonT(30) DEF User
  <2> QED
    BY <2>1, <2>2 DEF User
<1>2. user' = [v \in Users |-> row(v)]
  BY DEF Unbound
<1> HIDE DEF row
<1>3. user' \in [Users -> User] /\ \A v \in Users : user'[v] = row(v)
  BY <1>1, <1>2
<1>4. Here' = Here /\ EmergencyAdmins' = EmergencyAdmins
  BY <1>1, <1>3 DEF Here, EmergencyAdmins, Active
<1> QED
  BY <1>1, <1>3, <1>4

\* What the loss of the bindings keeps of the columns, and of what others know.
LEMMA UnbindingKeeps ==
  ASSUME IInv, TypeOK', user' = Unbound, NEW ws, {"subject"} \X Users \subseteq ws,
         crossed \subseteq crossed', \A v \in Users : overlaps[v] <= overlaps'[v],
         tenant'.enforced => tenant.enforced, <<"directory", None>> \in ws \/ tenant'.dir = tenant.dir,
         UNCHANGED <<fresh, missed, proven, accepted>>
  PROVE  Covers(ws) /\ CountState' /\ Untried' /\ FactorState'
<1>1. TypeOK
  BY DEF IInv
<1>2. /\ Here' = Here /\ EmergencyAdmins' = EmergencyAdmins
      /\ \A v \in Users :
              /\ user'[v].subject = None /\ user'[v].row = user[v].row /\ user'[v].failed = user[v].failed
              /\ user'[v].locked = user[v].locked /\ user'[v].sv = user[v].sv /\ user'[v].pw = user[v].pw
              /\ user'[v].on = user[v].on /\ user'[v].secret = user[v].secret /\ user'[v].last = user[v].last
              /\ user'[v].recovery = user[v].recovery
  BY <1>1, Unbinding
<1>3. Covers(ws)
  <2>1. ASSUME NEW v \in Here
        PROVE  /\ user'[v].row = "here"
               /\ user'[v].failed = user[v].failed /\ user'[v].locked = user[v].locked
               /\ user'[v].sv = user[v].sv /\ user'[v].pw = user[v].pw /\ user[v].sv <= user'[v].sv
               /\ user'[v].on = user[v].on /\ user'[v].secret = user[v].secret /\ <<"subject", v>> \in ws
    <3>1. v \in Users /\ user[v].row = "here" /\ user[v].sv \in Nat
      BY <1>1, Versions DEF Here
    <3>2. <<"subject", v>> \in {"subject"} \X Users
      BY <3>1
    <3> QED
      BY <1>2, <3>1, <3>2
  <2>2. \A v \in Here : user[v].pw = user'[v].pw
    BY <2>1
  <2> QED
    BY <1>2, <2>1, <2>2, Zenon DEF Covers
<1>4. CountState'
  BY <1>1, <1>2, CountsStay DEF IInv
<1>5. Untried'
  BY <1>2 DEF IInv, Untried
<1>6. FactorState'
  <2>1. \A v \in Users : FactorSame(v)
    BY <1>2 DEF FactorSame
  <2>2. fresh' \in Nat /\ fresh <= fresh'
    BY <1>1 DEF TypeOK
  <2> QED
    BY <1>1, <2>1, <2>2, FactorsStay DEF IInv
<1> QED
  BY <1>3, <1>4, <1>5, <1>6

LEMMA UnlinkUsersStep ==
  ASSUME IInv, NEW r \in Requests, UnlinkUsers(r)
  PROVE  IInv'
<1> DEFINE ws == {"subject"} \X Users
<1>1. /\ At(r, "unlink", "users") /\ user' = Unbound /\ Writes(r, ws, Idle)
      /\ UNCHANGED <<agenda, tenant, tokens, attempt, step, starts, fresh, ended, missed, proven, accepted, opened>>
  BY DEF UnlinkUsers
<1>2. TypeOK
  BY DEF IInv
<1>3. /\ RequestsTyped' /\ Moves(r, Idle, ws) /\ Knows(r)' /\ ~Holds(r)' /\ crossed \subseteq crossed'
      /\ crossed' \subseteq Facts /\ overlaps' \in [Users -> Nat] /\ \A v \in Users : overlaps[v] <= overlaps'[v]
  BY <1>1, LastWrite
<1>4. /\ user' \in [Users -> User] /\ Here' = Here /\ EmergencyAdmins' = EmergencyAdmins
      /\ \A v \in Users : user'[v].subject = None
  BY <1>1, <1>2, Unbinding
<1>5. TypeOK'
  BY <1>1, <1>2, <1>3, <1>4 DEF TypeOK, RequestsTyped
<1>6. Covers(ws) /\ CountState' /\ Untried' /\ FactorState'
  BY <1>1, <1>3, <1>5, UnbindingKeeps
<1>7. AttemptsStay(r) /\ AttemptState'
  <2>1. AttemptsStay(r)
    BY <1>1 DEF AttemptsStay
  <2>2. AttemptState'
    BY <1>1, <1>3, AttemptsStayTaken DEF IInv
  <2> QED
    BY <2>1, <2>2
<1>8. WayState'
  <2>1. Crossings # {} => Crossings' # {}
    BY <1>3 DEF Crossings
  <2>2. \A v \in Here' : Bound(v)'
    BY <1>4 DEF Bound, Here
  <2>3. WayHolds => WayHolds'
    BY <1>1, <1>4, <2>2 DEF WayHolds
  <2> QED
    BY <2>1, <2>3 DEF IInv, WayState
<1>9. tokens' \ tokens = {} /\ ended' \ ended = {}
  BY <1>1
<1> HIDE DEF ws
<1> QED
  BY <1>3, <1>5, <1>6, <1>7, <1>8, <1>9, StepKeeps

-----------------------------------------------------------------------------
(* Attempts are answered, taken and used *)

LEMMA AttemptStep ==
  ASSUME IInv, TypeOK', NEW r \in Requests, NEW next, Moves(r, next, {}), Knows(r)', AttemptsStay(r), AttemptState',
         ~At(r, "unlink", "users"),
         UNCHANGED <<user, tenant, tokens, fresh, ended, missed, proven, accepted, overlaps, crossed>>
  PROVE  IInv'
<1>1. Covers({}) /\ Here' = Here /\ EmergencyAdmins' = EmergencyAdmins
  BY NothingCovers DEF IInv
<1>2. CountState' /\ Untried' /\ FactorState'
  BY DEF IInv, CountState, Counted, Untried, FactorState, Drawn, FactorHolds, Used, Stale
<1>3. WayState'
  <2>1. Unlinking => Unlinking'
    BY UnlinkingStays
  <2> QED
    BY <1>1, <2>1, WayStays DEF IInv
<1>4. tokens' \ tokens = {} /\ ended' \ ended = {}
  OBVIOUS
<1> QED
  BY <1>1, <1>2, <1>3, <1>4, StepKeeps

LEMMA LastStep ==
  ASSUME IInv, NEW r \in Requests, Ends(r)
  PROVE  RequestsTyped' /\ Moves(r, Idle, {}) /\ Knows(r)' /\ ~Holds(r)'
<1>1. RequestsTyped /\ Idle \in Request /\ Idle.over \subseteq Idle.reads
  BY IdleTyped DEF IInv, TypeOK, RequestsTyped
<1>2. RequestsTyped' /\ Moves(r, Idle, {})
  BY <1>1, OneMoves DEF Ends
<1>3. request'[r] = Idle
  BY <1>2 DEF Moves
<1> QED
  BY <1>2, <1>3, IdleKnows, IdleTyped DEF Holds

LEMMA CallbackWritesStep ==
  ASSUME IInv, NEW r \in Requests, NEW a, a = request[r].attempt, CallbackWrites(r)
  PROVE  IInv'
<1> DEFINE q == request[r]
           new == [attempt[a] EXCEPT !.state = "handed", !.dir = q.found[1], !.who = q.found[2]]
<1>1. /\ At(r, "callback", "write") /\ q.op = "callback" /\ ~At(r, "unlink", "users") /\ Ends(r)
      /\ attempt' = IF attempt[a].state = "begun"
                    THEN [attempt EXCEPT ![a].state = "handed", ![a].dir = q.found[1], ![a].who = q.found[2]] ELSE attempt
      /\ UNCHANGED <<agenda, user, tenant, tokens, step, starts, fresh, ended, missed, proven, accepted, opened, overlaps, crossed>>
  BY DEF CallbackWrites, At
<1>2. TypeOK /\ Knows(r) /\ AttemptState /\ a \in Attempts /\ attempt[a] \in Attempt
  BY <1>1 DEF IInv, Knows, AttemptCarried, TypeOK
<1>3. /\ q.found[1] \in Directories \cup {None} /\ q.found[2] \in Users \cup {None, "somebody"}
      /\ attempt[a].mode = "sso" => q.found[2] \in Users \cup {None}
  BY <1>1, <1>2 DEF TypeOK, Request, Knows, AttemptCarried
<1>4. RequestsTyped' /\ Moves(r, Idle, {}) /\ Knows(r)' /\ ~Holds(r)'
  BY <1>1, LastStep
<1>5. new \in Attempt
  BY <1>2, <1>3, ZenonT(30) DEF Attempt
<1>6. new.state = "handed" /\ new.mode = attempt[a].mode /\ new.browser = attempt[a].browser /\ new.who = q.found[2]
  BY <1>2, <1>3 DEF Attempt
<1>7. attempt' = IF attempt[a].state = "begun" THEN [attempt EXCEPT ![a] = new] ELSE attempt
  BY <1>1, <1>2 DEF TypeOK
<1> HIDE DEF new
<1>8. /\ attempt' \in [Attempts -> Attempt]
      /\ attempt'[a] = IF attempt[a].state = "begun" THEN new ELSE attempt[a]
      /\ \A b \in Attempts \ {a} : attempt'[b] = attempt[b]
  BY <1>2, <1>5, <1>7 DEF TypeOK
<1>9. TypeOK'
  BY <1>1, <1>2, <1>4, <1>8, SMTT(30) DEF TypeOK, RequestsTyped
<1>10. AttemptsStay(r)
  BY <1>1, <1>6, <1>8, ZenonT(30) DEF AttemptsStay
<1>11. AttemptState'
  <2>1. \A b \in Attempts : attempt'[b].state # "gone" => \A c \in Browsers : opened'[b][c] = 0
    BY <1>1, <1>2, <1>8 DEF AttemptState, AttemptsTaken
  <2>2. \A b \in Attempts : attempt'[b].mode = "sso" => attempt'[b].who \in Users \cup {None}
    BY <1>2, <1>3, <1>6, <1>8 DEF AttemptState, AttemptsTaken
  <2>3. \A x \in Requests : Holds(x)' => Holds(x) /\ request'[x].attempt = request[x].attempt
    BY <1>4 DEF Moves, Follows, Holds
  <2>4. \A x, y \in Requests : Holds(x)' /\ Holds(y)' /\ request'[x].attempt = request'[y].attempt => x = y
    BY <1>2, <2>3 DEF AttemptState, AttemptsTaken
  <2>5. AttemptsTaken'
    BY <2>1, <2>2, <2>4 DEF AttemptsTaken
  <2>6. AttemptOpensOnce'
    <3>1. \A b \in Attempts : attempt'[b].browser = attempt[b].browser
      BY <1>6, <1>8
    <3> QED
      BY <1>1, <1>2, <3>1 DEF AttemptState, AttemptOpensOnce
  <2> QED
    BY <2>5, <2>6 DEF AttemptState
<1> QED
  BY <1>1, <1>4, <1>9, <1>10, <1>11, AttemptStep

LEMMA FinishTakesStep ==
  ASSUME IInv, NEW r \in Requests, NEW a, a = request[r].attempt, FinishTakes(r)
  PROVE  IInv'
<1> DEFINE q == request[r]
           new == [attempt[a] EXCEPT !.state = "gone"]
           Takes == attempt[a].state = "handed" /\ attempt[a].browser = q.browser /\ attempt[a].who # None
<1>1. /\ At(r, "finish", "read") /\ q.op = "finish" /\ q.pc = "read" /\ ~At(r, "unlink", "users")
      /\ attempt' = [attempt EXCEPT ![a].state = "gone"] /\ IF Takes THEN Goes(r, "check") ELSE Ends(r)
      /\ UNCHANGED <<agenda, user, tenant, tokens, step, starts, fresh, ended, missed, proven, accepted, opened, overlaps, crossed>>
  BY DEF FinishTakes, DeletesFirst, SameBrowser, At
<1>2. TypeOK /\ RequestsTyped /\ Knows(r) /\ AttemptState /\ a \in Attempts /\ attempt[a] \in Attempt /\ q.reads = {}
  BY <1>1 DEF IInv, Knows, Carried, AttemptCarried, TypeOK, RequestsTyped
<1>3. new \in Attempt
  BY <1>2, ZenonT(30) DEF Attempt
<1>4. new.state = "gone" /\ new.mode = attempt[a].mode /\ new.browser = attempt[a].browser /\ new.who = attempt[a].who
  BY <1>2 DEF Attempt
<1>5. attempt[a].state = "gone" => new = attempt[a]
  BY <1>2 DEF Attempt
<1>6. attempt' = [attempt EXCEPT ![a] = new]
  BY <1>1, <1>2 DEF TypeOK
<1> HIDE DEF new
<1>7. /\ attempt' \in [Attempts -> Attempt] /\ attempt'[a] = new /\ \A b \in Attempts \ {a} : attempt'[b] = attempt[b]
  BY <1>2, <1>3, <1>6 DEF TypeOK
<1>8. AttemptsStay(r)
  BY <1>1, <1>4, <1>5, <1>7 DEF AttemptsStay
<1>9. /\ \A b \in Attempts : attempt'[b].state # "gone" => \A c \in Browsers : opened'[b][c] = 0
      /\ \A b \in Attempts : attempt'[b].mode = "sso" => attempt'[b].who \in Users \cup {None}
      /\ AttemptOpensOnce'
  <2>1. \A b \in Attempts : attempt'[b].state # "gone" => \A c \in Browsers : opened'[b][c] = 0
    BY <1>1, <1>2, <1>4, <1>7 DEF AttemptState, AttemptsTaken
  <2>2. \A b \in Attempts : attempt'[b].mode = "sso" => attempt'[b].who \in Users \cup {None}
    BY <1>2, <1>4, <1>7 DEF AttemptState, AttemptsTaken
  <2>3. AttemptOpensOnce'
    BY <1>1, <1>2, <1>4, <1>7 DEF AttemptState, AttemptOpensOnce
  <2> QED
    BY <2>1, <2>2, <2>3
<1>10. CASE Takes
  <2> DEFINE next == [request[r] EXCEPT !.pc = "check"]
  <2>1. /\ GoesOn(r) /\ request'[r].pc = "check" /\ next \in Request /\ request' = [request EXCEPT ![r] = next]
        /\ next.over \subseteq next.reads
    BY <1>1, <1>2, <1>10, Going
  <2> HIDE DEF next
  <2>2. RequestsTyped' /\ Moves(r, next, {})
    BY <1>2, <2>1, OneMoves
  <2>3. TypeOK'
    BY <1>1, <1>2, <1>7, <2>2 DEF TypeOK, RequestsTyped
  <2>4. \A x \in Requests \ {r} : Holds(x)' => Holds(x) /\ request'[x].attempt = request[x].attempt
    BY <2>2 DEF Moves, Follows, Holds
  <2>5. \A x \in Requests : Holds(x) => request[x].attempt # a
    BY <1>10 DEF IInv, Knows, AttemptCarried
  <2>6. request'[r].attempt = a /\ request'[r].op = "finish" /\ request'[r].browser = q.browser /\ request'[r].reads = {}
    BY <1>1, <1>2, <2>1 DEF GoesOn
  <2>7. \A x, y \in Requests : Holds(x)' /\ Holds(y)' /\ request'[x].attempt = request'[y].attempt => x = y
    BY <1>2, <2>4, <2>5, <2>6 DEF AttemptState, AttemptsTaken
  <2>8. AttemptState'
    BY <1>9, <2>7 DEF AttemptState, AttemptsTaken
  <2>9. Knows(r)'
    <3>1. ~SigningIn(r)' /\ ~At(r, "unlink", "write")' /\ (\A p : ~At(r, "update", p)') /\ ~At(r, "callback", "write")'
      BY <2>1, <2>6 DEF SigningIn, At
    <3>2. Carried(r)'
      BY <2>1, <2>6, <3>1 DEF Carried, AboutOneUser, Kinds, OfFactor
    <3>3. AttemptCarried(r)'
      <4>1. \A b \in Browsers : opened[a][b] = 0
        BY <1>2, <1>10 DEF AttemptState, AttemptsTaken
      <4>2. q.browser \in Browsers
        BY <1>1, <1>2 DEF Knows, AttemptCarried
      <4> QED
        BY <1>1, <1>2, <1>4, <1>7, <1>10, <2>6, <3>1, <4>1, <4>2 DEF AttemptCarried
    <3>4. FailedKnown(r)'
      BY <2>6, <3>1 DEF FailedKnown, ReadsFailed
    <3>5. VersionKnown(r)'
      BY <2>6, <3>1 DEF VersionKnown
    <3>6. WayKnown(r)'
      BY <2>6, <3>1 DEF WayKnown
    <3> QED
      BY <2>6, <3>2, <3>3, <3>4, <3>5, <3>6, Ignores DEF Knows
  <2> QED
    BY <1>1, <1>8, <2>2, <2>3, <2>8, <2>9, AttemptStep
<1>11. CASE ~Takes
  <2>1. RequestsTyped' /\ Moves(r, Idle, {}) /\ Knows(r)' /\ ~Holds(r)'
    BY <1>1, <1>11, LastStep
  <2>2. TypeOK'
    BY <1>1, <1>2, <1>7, <2>1 DEF TypeOK, RequestsTyped
  <2>3. \A x \in Requests : Holds(x)' => Holds(x) /\ request'[x].attempt = request[x].attempt
    BY <2>1 DEF Moves, Follows, Holds
  <2>4. \A x, y \in Requests : Holds(x)' /\ Holds(y)' /\ request'[x].attempt = request'[y].attempt => x = y
    BY <1>2, <2>3 DEF AttemptState, AttemptsTaken
  <2>5. AttemptState'
    BY <1>9, <2>4 DEF AttemptState, AttemptsTaken
  <2> QED
    BY <1>1, <1>8, <2>1, <2>2, <2>5, AttemptStep
<1> QED
  BY <1>10, <1>11

\* Who holds an attempt opens it, once, in the browser where it began.
LEMMA OpeningOnce ==
  ASSUME IInv, NEW r \in Requests, NEW ws, Moves(r, Idle, ws), ~Holds(r)', Holds(r), NEW a, a = request[r].attempt,
         Opens(a, request[r].browser), attempt' = attempt
  PROVE  AttemptState' /\ AttemptsStay(r) /\ opened' \in [Attempts -> [Browsers -> Nat]]
<1> DEFINE b == request[r].browser
<1>1. TypeOK /\ AttemptState /\ request[r].op = "finish" /\ AttemptCarried(r)
  BY DEF IInv, Knows, Holds
<1>2. /\ a \in Attempts /\ b \in Browsers /\ attempt[a].state = "gone" /\ b = attempt[a].browser
      /\ \A c \in Browsers : opened[a][c] = 0
  BY <1>1 DEF AttemptCarried
<1>3. opened' = [opened EXCEPT ![a][b] = @ + 1]
  BY DEF Opens
<1> HIDE DEF b
<1>4. opened \in [Attempts -> [Browsers -> Nat]] /\ opened[a] \in [Browsers -> Nat]
  BY <1>1, <1>2 DEF TypeOK
<1>5. opened' = [opened EXCEPT ![a] = [opened[a] EXCEPT ![b] = 1]]
  <2>1. opened' = [opened EXCEPT ![a] = [opened[a] EXCEPT ![b] = @ + 1]]
    BY <1>2, <1>3, <1>4
  <2>2. opened[a][b] + 1 = 1
    BY <1>2
  <2>3. [opened[a] EXCEPT ![b] = @ + 1] = [opened[a] EXCEPT ![b] = 1]
    BY <1>2, <1>4, <2>2
  <2> QED
    BY <2>1, <2>3
<1>6. opened' \in [Attempts -> [Browsers -> Nat]]
  <2>1. [opened[a] EXCEPT ![b] = 1] \in [Browsers -> Nat]
    BY <1>4
  <2> QED
    BY <1>2, <1>4, <1>5, <2>1
<1>7. /\ \A c \in Browsers : opened'[a][c] = IF c = b THEN 1 ELSE 0
      /\ \A d \in Attempts \ {a} : opened'[d] = opened[d]
  BY <1>2, <1>4, <1>5
<1>8. \A x \in Requests : Holds(x)' => x # r /\ Holds(x) /\ request'[x].attempt = request[x].attempt /\ request[x].attempt # a
  <2>1. \A x \in Requests \ {r} : Holds(x)' => Holds(x) /\ request'[x].attempt = request[x].attempt
    BY DEF Moves, Follows, Holds
  <2>2. \A x \in Requests \ {r} : Holds(x) => request[x].attempt # a
    BY <1>1 DEF AttemptState, AttemptsTaken
  <2> QED
    BY <2>1, <2>2
<1>9. AttemptsTaken'
  <2>1. \A d \in Attempts : attempt'[d].state # "gone" => \A c \in Browsers : opened'[d][c] = 0
    BY <1>1, <1>2, <1>7 DEF AttemptState, AttemptsTaken
  <2> QED
    BY <1>1, <1>8, <2>1 DEF AttemptState, AttemptsTaken
<1>10. AttemptOpensOnce'
  <2> SUFFICES ASSUME NEW d \in Attempts, NEW c \in Browsers
               PROVE  opened'[d][c] <= (IF c = attempt'[d].browser THEN 1 ELSE 0)
    BY DEF AttemptOpensOnce
  <2>1. CASE d = a
    BY <1>2, <1>7, <2>1
  <2>2. CASE d # a
    <3>1. opened'[d][c] = opened[d][c]
      BY <1>7, <2>2
    <3> QED
      BY <1>1, <3>1 DEF AttemptState, AttemptOpensOnce
  <2> QED
    BY <2>1, <2>2
<1>11. AttemptsStay(r)
  <2>1. ASSUME NEW x \in Requests \ {r}, Holds(x) PROVE \A c \in Browsers : opened'[request[x].attempt][c] = opened[request[x].attempt][c]
    <3>1. request[x].attempt # a /\ request[x].attempt \in Attempts
      BY <1>1, <2>1 DEF AttemptState, AttemptsTaken, IInv, Knows, AttemptCarried, Holds
    <3> QED
      BY <1>7, <3>1
  <2> QED
    BY <2>1 DEF AttemptsStay
<1> QED
  BY <1>6, <1>9, <1>10, <1>11 DEF AttemptState

LEMMA BadgeRedeemsStep ==
  ASSUME IInv, NEW r \in Requests, NEW a, a = request[r].attempt, BadgeRedeems(r)
  PROVE  IInv'
<1>1. /\ At(r, "finish", "check") /\ ~At(r, "unlink", "users") /\ Holds(r) /\ Ends(r)
      /\ Opens(a, request[r].browser) \/ opened' = opened
      /\ UNCHANGED <<agenda, user, tenant, tokens, attempt, step, starts, fresh, ended, missed, proven, accepted, overlaps, crossed>>
  BY DEF BadgeRedeems, At, Holds
<1>2. RequestsTyped' /\ Moves(r, Idle, {}) /\ Knows(r)' /\ ~Holds(r)' /\ TypeOK
  BY <1>1, LastStep DEF IInv
<1>3. AttemptState' /\ AttemptsStay(r) /\ opened' \in [Attempts -> [Browsers -> Nat]]
  <2>1. CASE Opens(a, request[r].browser)
    BY <1>1, <1>2, <2>1, OpeningOnce
  <2>2. CASE opened' = opened
    <3>1. AttemptState'
      BY <1>1, <1>2, <2>2, AttemptsStayTaken DEF IInv
    <3> QED
      BY <1>1, <1>2, <2>2, <3>1 DEF AttemptsStay, TypeOK
  <2> QED
    BY <1>1, <2>1, <2>2
<1>4. TypeOK'
  BY <1>1, <1>2, <1>3 DEF TypeOK, RequestsTyped
<1> QED
  BY <1>1, <1>2, <1>3, <1>4, AttemptStep

LEMMA LinkCommitsStep ==
  ASSUME IInv, NEW r \in Requests, NEW a, a = request[r].attempt, LinkCommits(r)
  PROVE  IInv'
<1> DEFINE q == request[r]
           x == attempt[a]
           Commits == user[attempt[a].admin].active /\ user[attempt[a].admin].super
           ws == IF tenant.dir = attempt[a].dir THEN {} ELSE ({"subject"} \X Users) \cup {<<"directory", None>>}
<1>1. /\ At(r, "finish", "check") /\ ~At(r, "unlink", "users") /\ Holds(r)
      /\ UNCHANGED <<agenda, tokens, attempt, step, starts, fresh, ended, missed, proven, accepted>>
  BY DEF LinkCommits, At, Holds
<1>2. TypeOK /\ a \in Attempts /\ attempt[a] \in Attempt /\ tenant \in Tenant
  BY <1>1 DEF IInv, Knows, AttemptCarried, Holds, TypeOK
<1>3. CASE ~Commits
  <2>1. Ends(r) /\ Reads /\ starts' = starts
    BY <1>1, <1>3 DEF LinkCommits, Reads
  <2> QED
    BY <1>1, <2>1, EndingStep
<1>4. CASE Commits
  <2>1. /\ tenant' = [tenant EXCEPT !.dir = x.dir, !.enforced = @ /\ tenant.dir = x.dir]
        /\ user' = IF tenant.dir = x.dir THEN user ELSE Unbound
        /\ Opens(a, q.browser) /\ Writes(r, ws, Idle)
    BY <1>4 DEF LinkCommits
  <2>2. tenant' \in Tenant /\ tenant'.dir = x.dir /\ (tenant'.enforced <=> tenant.enforced /\ tenant.dir = x.dir)
    <3>1. x.dir \in Directories \cup {None} /\ (tenant.enforced /\ tenant.dir = x.dir) \in BOOLEAN
      BY <1>2 DEF Attempt
    <3> QED
      BY <1>2, <2>1, <3>1 DEF Tenant
  <2>3. /\ RequestsTyped' /\ Moves(r, Idle, ws) /\ Knows(r)' /\ ~Holds(r)' /\ crossed \subseteq crossed'
        /\ crossed' \subseteq Facts /\ overlaps' \in [Users -> Nat] /\ \A v \in Users : overlaps[v] <= overlaps'[v]
    BY <2>1, LastWrite
  <2>4. AttemptState' /\ AttemptsStay(r) /\ opened' \in [Attempts -> [Browsers -> Nat]]
    BY <1>1, <2>1, <2>3, OpeningOnce
  <2>5. user' \in [Users -> User] /\ Here' = Here /\ EmergencyAdmins' = EmergencyAdmins
    <3>1. CASE tenant.dir = x.dir
      BY <1>2, <2>1, <3>1 DEF TypeOK, Here, EmergencyAdmins, Active
    <3>2. CASE tenant.dir # x.dir
      BY <1>2, <2>1, <3>2, Unbinding
    <3> QED
      BY <3>1, <3>2
  <2>6. TypeOK'
    BY <1>1, <1>2, <2>2, <2>3, <2>4, <2>5 DEF TypeOK, RequestsTyped
  <2>7. Covers(ws) /\ CountState' /\ Untried' /\ FactorState'
    <3>1. CASE tenant.dir = x.dir
      <4>1. user' = user
        BY <2>1, <3>1
      <4>2. \A v \in Here : user[v].row = "here" /\ user[v].sv \in Nat
        BY <1>2, Versions DEF Here
      <4>3. Covers(ws)
        BY <2>2, <2>3, <2>5, <3>1, <4>1, <4>2 DEF Covers
      <4>4. CountState'
        BY <1>1, <1>2, <2>3, <2>6, <4>1, CountsStay DEF IInv
      <4>5. Untried'
        BY <4>1 DEF IInv, Untried
      <4>6. FactorState'
        <5>1. \A v \in Users : FactorSame(v)
          BY <1>1, <4>1 DEF FactorSame
        <5>2. fresh' \in Nat /\ fresh <= fresh'
          BY <1>1, <1>2 DEF TypeOK
        <5> QED
          BY <1>1, <1>2, <2>3, <5>1, <5>2, FactorsStay DEF IInv
      <4> QED
        BY <4>3, <4>4, <4>5, <4>6
    <3>2. CASE tenant.dir # x.dir
      <4>1. user' = Unbound /\ {"subject"} \X Users \subseteq ws /\ <<"directory", None>> \in ws /\ (tenant'.enforced => tenant.enforced)
        BY <2>1, <2>2, <3>2
      <4> HIDE DEF ws
      <4> QED
        BY <1>1, <2>3, <2>6, <4>1, UnbindingKeeps
    <3> QED
      BY <3>1, <3>2
  <2>8. WayState'
    <3>1. Crossings # {} => Crossings' # {}
      BY <2>3 DEF Crossings
    <3>2. ASSUME WayHolds PROVE WayHolds'
      <4>1. tenant'.enforced => tenant'.dir # None /\ EmergencyAdmins' # {}
        BY <2>2, <2>5, <3>2 DEF WayHolds
      <4>2. Unlinking => Unlinking'
        BY <1>1, <2>3, UnlinkingStays
      <4>3. CASE tenant.dir = x.dir
        <5>1. (\A v \in Here : Bound(v)) => \A v \in Here' : Bound(v)'
          BY <2>1, <2>2, <2>5, <4>3 DEF Bound
        <5> QED
          BY <3>2, <4>1, <4>2, <5>1 DEF WayHolds
      <4>4. CASE tenant.dir # x.dir
        <5>1. \A v \in Here' : Bound(v)'
          <6>1. user' = Unbound
            BY <2>1, <4>4
          <6> QED
            BY <1>2, <6>1, Unbinding DEF Bound, Here
        <5> QED
          BY <4>1, <5>1 DEF WayHolds
      <4> QED
        BY <4>3, <4>4
    <3> QED
      BY <3>1, <3>2 DEF IInv, WayState
  <2>9. tokens' \ tokens = {} /\ ended' \ ended = {}
    BY <1>1
  <2> HIDE DEF ws
  <2> QED
    BY <2>3, <2>4, <2>6, <2>7, <2>8, <2>9, StepKeeps
<1> QED
  BY <1>3, <1>4

\* A session of single sign-on; the first one binds the account.
LEMMA SignInOpensStep ==
  ASSUME IInv, NEW r \in Requests, NEW u, u = request[r].of, NEW a, a = request[r].attempt, SignInOpens(r)
  PROVE  IInv'
<1> DEFINE q == request[r]
           seen == request[r].seen
           over == request[r].over
           binds == request[r].seen.subject = None
           Lost == binds /\ user[u].subject # None
           dir == attempt[a].dir
           subject == IF binds THEN dir ELSE user[u].subject
           row == [user[u] EXCEPT !.failed = 0, !.locked = FALSE, !.subject = subject]
           ws == {<<"failed", u>>, <<"subject", u>>}
           token == [user |-> u, sv |-> seen.sv, typ |-> "sso", pw |-> seen.pw]
<1>1. /\ At(r, "finish", "write") /\ ~At(r, "unlink", "users") /\ SigningIn(r) /\ Holds(r)
      /\ UNCHANGED <<agenda, tenant, attempt, step, starts, fresh, proven, accepted>>
  BY DEF SignInOpens, At, SigningIn, Holds
<1>2. TypeOK /\ Knows(r) /\ seen \in User /\ seen.sv \in Nat /\ seen.pw \in Nat
  BY Versions DEF IInv
<1>3. /\ u \in Users /\ u \in Here /\ user[u].row = "here" /\ user[u] \in User /\ user[u].sv \in Nat
      /\ a \in Attempts /\ attempt[a] \in Attempt
  <2>1. u \in Users /\ u \in Here
    BY <1>1, <1>2, OfHere DEF Knows
  <2>2. a \in Attempts /\ attempt[a] \in Attempt
    BY <1>1, <1>2 DEF Knows, AttemptCarried, SigningIn, At, TypeOK
  <2> QED
    BY <1>2, <2>1, <2>2, Versions DEF Here
<1>4. CASE Lost
  <2>1. Ends(r) /\ Reads /\ starts' = starts
    BY <1>1, <1>4 DEF SignInOpens, Reads
  <2> QED
    BY <1>1, <2>1, EndingStep
<1>5. CASE ~Lost
  <2>1. OpensSession(r, seen, "sso", IF binds THEN [user EXCEPT ![u].subject = dir] ELSE user) /\ Opens(a, q.browser)
    BY <1>5, SMTT(30) DEF SignInOpens
  <2>2. /\ UserBecomes([IF binds THEN [user EXCEPT ![u].subject = dir] ELSE user EXCEPT ![u].failed = 0, ![u].locked = FALSE])
        /\ tokens' = tokens \cup {token} /\ missed' = [missed EXCEPT ![u] = 0] /\ Writes(r, ws, Idle)
    BY <2>1 DEF OpensSession
  <2>3. subject \in Directories \cup {None}
    BY <1>3 DEF Attempt, User
  <2>4. user' = [user EXCEPT ![u] = row]
    <3>1. user' = [IF binds THEN [user EXCEPT ![u].subject = dir] ELSE user EXCEPT ![u].failed = 0, ![u].locked = FALSE]
      BY <2>2 DEF UserBecomes
    <3>2. CASE binds
      <4>1. user' = [[user EXCEPT ![u].subject = dir] EXCEPT ![u].failed = 0, ![u].locked = FALSE]
        BY <3>1, <3>2
      <4>2. subject = dir
        BY <3>2
      <4> HIDE DEF binds, subject
      <4> QED
        BY <1>2, <1>3, <4>1, <4>2 DEF TypeOK, User
    <3>3. CASE ~binds
      <4>1. user' = [user EXCEPT ![u].failed = 0, ![u].locked = FALSE]
        BY <3>1, <3>3
      <4>2. subject = user[u].subject
        BY <3>3
      <4> HIDE DEF binds, subject
      <4> QED
        BY <1>2, <1>3, <4>1, <4>2 DEF TypeOK, User
    <3> QED
      BY <3>2, <3>3, SMTT(30)
  <2>5. binds => subject = dir /\ user[u].subject = None
    BY <1>5
  <2>6. ~binds => subject = user[u].subject
    OBVIOUS
  <2> HIDE DEF subject, binds
  <2>7. row \in User
    BY <1>3, <2>3, Sizes, ZenonT(30) DEF User
  <2>8. /\ row.failed = 0 /\ row.locked = FALSE /\ row.subject = subject
        /\ row.row = user[u].row /\ row.active = user[u].active /\ row.super = user[u].super /\ row.exempt = user[u].exempt
        /\ row.sv = user[u].sv /\ row.pw = user[u].pw /\ row.on = user[u].on /\ row.secret = user[u].secret
        /\ row.last = user[u].last /\ row.recovery = user[u].recovery
    BY <1>3 DEF User
  <2> HIDE DEF row
  <2>9. /\ RequestsTyped' /\ Moves(r, Idle, ws) /\ Knows(r)' /\ ~Holds(r)' /\ crossed \subseteq crossed' /\ over \subseteq crossed'
        /\ crossed' \subseteq Facts /\ overlaps' \in [Users -> Nat] /\ \A v \in Users : overlaps[v] <= overlaps'[v]
    BY <2>2, LastWrite
  <2>10. AttemptState' /\ AttemptsStay(r) /\ opened' \in [Attempts -> [Browsers -> Nat]]
    BY <1>1, <2>1, <2>9, OpeningOnce
  <2>11. /\ user' \in [Users -> User] /\ user'[u] = row /\ (\A v \in Users \ {u} : user'[v] = user[v])
         /\ Here' = Here /\ EmergencyAdmins' = EmergencyAdmins
    BY <1>2, <1>3, <2>4, <2>7, <2>8, OneRow
  <2>12. ended' \subseteq tokens' /\ \A t \in ended' \ ended : t \in tokens /\ user'[t.user].sv # t.sv
    BY <1>2, <2>2, Refusing
  <2>13. token \in Token
    BY <1>2, <1>3 DEF Token
  <2>14. tokens' \subseteq Token /\ missed' \in [Users -> Nat]
    BY <1>2, <2>2, <2>13 DEF TypeOK
  <2>15. TypeOK'
    BY <1>1, <1>2, <2>9, <2>10, <2>11, <2>12, <2>14 DEF TypeOK, RequestsTyped
  <2>16. Covers(ws)
    <3>1. RowCovered(u, row, ws)
      BY <1>3, <2>8 DEF RowCovered
    <3> HIDE DEF ws
    <3> QED
      BY <1>1, <1>2, <1>3, <2>4, <2>7, <2>9, <3>1, RowCovers
  <2>17. CountState'
    <3>1. missed'[u] = 0 /\ \A v \in Users \ {u} : missed'[v] = missed[v]
      BY <1>2, <1>3, <2>2 DEF TypeOK
    <3> QED
      BY <1>2, <2>9, <2>11, <2>15, <3>1, CountsStay DEF IInv
  <2>18. Untried'
    BY <1>3, <2>8, <2>11 DEF IInv, Untried
  <2>19. FactorState'
    <3>1. \A v \in Users : FactorSame(v)
      BY <1>1, <2>8, <2>11 DEF FactorSame
    <3>2. fresh' \in Nat /\ fresh <= fresh'
      BY <1>1, <1>2 DEF TypeOK
    <3> QED
      BY <1>1, <1>2, <2>9, <3>1, <3>2, FactorsStay DEF IInv
  <2>20. WayState'
    <3>1. <<"directory", None>> \in over => Crossings' # {}
      BY <2>9 DEF Crossings
    <3>2. Crossings # {} => Crossings' # {}
      BY <2>9 DEF Crossings
    <3>3. ASSUME WayHolds, <<"directory", None>> \notin over PROVE WayHolds'
      <4>1. tenant'.enforced => tenant'.dir # None /\ EmergencyAdmins' # {}
        BY <1>1, <2>11, <3>3 DEF WayHolds
      <4>2. Unlinking => Unlinking'
        BY <1>1, <2>9, UnlinkingStays
      <4>3. tenant.dir = dir
        BY <1>1, <1>2, <3>3 DEF Knows, WayKnown
      <4>4. ASSUME \A v \in Here : Bound(v), NEW v \in Here PROVE Bound(v)'
        <5>1. CASE v = u
          BY <1>1, <2>5, <2>6, <2>8, <2>11, <4>3, <4>4, <5>1 DEF Bound
        <5>2. CASE v # u
          BY <1>1, <2>11, <4>4, <5>2 DEF Bound, Here
        <5> QED
          BY <5>1, <5>2
      <4> QED
        BY <2>11, <3>3, <4>1, <4>2, <4>4 DEF WayHolds
    <3> QED
      BY <3>1, <3>2, <3>3 DEF IInv, WayState
  <2>21. \A t \in tokens' \ tokens : t.user \in Here /\ (Stale("version", t.user) \/ Behind(t.user, t.sv, t.pw))
    <3>1. Stale("version", u) \/ Behind(u, seen.sv, seen.pw)
      BY <1>1, <1>2 DEF Knows, VersionKnown
    <3> QED
      BY <1>3, <2>2, <3>1
  <2> HIDE DEF ws
  <2> QED
    BY <2>9, <2>10, <2>12, <2>15, <2>16, <2>17, <2>18, <2>19, <2>20, <2>21, StepKeeps
<1> QED
  BY <1>4, <1>5

-----------------------------------------------------------------------------
(* The invariant *)

LEMMA InitHolds == Init => IInv
<1> SUFFICES ASSUME Init PROVE IInv
  OBVIOUS
<1> DEFINE directory == agenda.kinds \cap {"enforce", "unlink", "sso", "link"} # {}
           factor == agenda.kinds \cap {"mfa", "disable"} # {}
           d == CHOOSE x \in Directories : TRUE
           subject == IF directory THEN d ELSE None
           secret == IF factor THEN 1 ELSE 0
           recovery == IF factor THEN {2, 3} ELSE {}
           row == [NoUser EXCEPT !.row = "here", !.active = TRUE, !.super = TRUE, !.exempt = TRUE, !.sv = 1, !.pw = 1, !.must = FALSE,
                                 !.subject = subject, !.on = factor, !.secret = secret, !.recovery = recovery]
<1>1. PICK Staff \in {S \in SUBSET Users : Cardinality(S) = agenda.staff} :
        /\ tokens = [user : Staff, sv : {1}, typ : {IF directory THEN "sso" ELSE "session"}, pw : {1}]
        /\ tenant = [enforced |-> directory, dir |-> subject, mfaRequired |-> FALSE]
        /\ user = [u \in Users |-> IF u \notin Staff THEN NoUser ELSE row]
        /\ fresh = IF factor THEN 3 ELSE 0
        /\ proven = [u \in Users |-> IF factor /\ u \in Staff THEN 1 ELSE 0]
  BY DEF Init
<1>2. /\ agenda \in Agendas
      /\ attempt = [a \in Attempts |-> NoAttempt] /\ request = [r \in Requests |-> Idle]
      /\ step = 0 /\ starts = 0 /\ ended = {} /\ missed = [u \in Users |-> 0] /\ overlaps = [u \in Users |-> 0]
      /\ accepted = [x \in {} |-> 0] /\ crossed = {}
      /\ opened = [a \in Attempts |-> [b \in Browsers |-> 0]]
  BY DEF Init
<1>3. d \in Directories
  BY AccountsAssumption
<1>4. subject \in Directories \cup {None} /\ (subject = None <=> ~directory)
  BY <1>3, Sizes
<1>5. directory \in BOOLEAN /\ factor \in BOOLEAN
  OBVIOUS
<1>6. /\ secret \in Nat /\ recovery \in SUBSET Nat /\ fresh \in Nat /\ recovery \subseteq 1..fresh /\ secret <= fresh
      /\ secret \notin recovery /\ (factor => secret = 1)
  <2>1. fresh = IF factor THEN 3 ELSE 0
    BY <1>1
  <2> HIDE DEF factor
  <2>2. CASE factor
    <3>1. fresh = 3 /\ secret = 1 /\ recovery = {2, 3}
      BY <2>1, <2>2
    <3> HIDE DEF secret, recovery
    <3> QED
      BY <3>1
  <2>3. CASE ~factor
    <3>1. fresh = 0 /\ secret = 0 /\ recovery = {}
      BY <2>1, <2>3
    <3> HIDE DEF secret, recovery
    <3> QED
      BY <2>3, <3>1
  <2> QED
    BY <2>2, <2>3
<1> HIDE DEF directory, factor, d, subject, secret, recovery
<1>7. row \in User
  BY <1>4, <1>5, <1>6, NoUserTyped, ZenonT(30) DEF User
<1>8. /\ row.row = "here" /\ row.active = TRUE /\ row.super = TRUE /\ row.exempt = TRUE /\ row.sv = 1 /\ row.pw = 1
      /\ row.subject = subject /\ row.on = factor /\ row.secret = secret /\ row.recovery = recovery
      /\ row.failed = 0 /\ row.locked = FALSE
  BY DEF NoUser
<1> HIDE DEF row
<1>9. /\ NoUser.row = "absent" /\ NoUser.failed = 0 /\ NoUser.locked = FALSE /\ NoUser.on = FALSE /\ NoUser.secret = 0
      /\ NoUser.recovery = {} /\ NoUser.subject = None
  BY DEF NoUser
<1>10. Staff \subseteq Users /\ Staff # {} /\ agenda.starts \in Nat
  <2>1. agenda.staff \in 1..Cardinality(Users) /\ agenda.starts \in Nat
    BY <1>2, AccountsAssumption
  <2>2. Cardinality(Users) \in Nat
    BY AccountsAssumption, FS_CardinalityType
  <2>3. Cardinality(Staff) # 0
    BY <1>1, <2>1, <2>2
  <2> QED
    BY <1>1, <2>1, <2>3, FS_EmptySet
<1>11. \A u \in Users : (u \in Staff => user[u] = row) /\ (u \notin Staff => user[u] = NoUser)
  BY <1>1
<1>12. Here = Staff
  BY <1>8, <1>9, <1>10, <1>11 DEF Here
<1>13. \A t \in tokens : t \in Token /\ t.user \in Staff /\ t.sv = 1 /\ t.pw = 1
  <2>1. tokens \subseteq [user : Staff, sv : {1}, typ : {"sso", "session"}, pw : {1}]
    BY <1>1
  <2> QED
    BY <1>10, <2>1 DEF Token
<1>14. \A r \in Requests : request[r] = Idle
  BY <1>2
<1>15. TypeOK
  <2>1. user \in [Users -> User]
    BY <1>1, <1>7, NoUserTyped
  <2>2. tenant \in Tenant
    BY <1>1, <1>4, <1>5 DEF Tenant
  <2>3. NoAttempt \in Attempt
    BY DEF NoAttempt, Attempt
  <2>4. attempt \in [Attempts -> Attempt]
    BY <1>2, <2>3
  <2>5. request \in [Requests -> Request] /\ \A r \in Requests : request[r].over \subseteq request[r].reads
    BY <1>2, <1>14, IdleTyped
  <2>6. step \in 0..MaxStep /\ starts \in 0..agenda.starts
    BY <1>2, <1>10, Sizes
  <2>7. missed \in [Users -> Nat] /\ overlaps \in [Users -> Nat] /\ proven \in [Users -> Nat]
    BY <1>1, <1>2
  <2>8. DOMAIN accepted \subseteq Users \X Codes /\ accepted \in [DOMAIN accepted -> Nat]
    BY <1>2
  <2>9. opened \in [Attempts -> [Browsers -> Nat]]
    BY <1>2
  <2> QED
    BY <1>2, <1>6, <1>13, <2>1, <2>2, <2>4, <2>5, <2>6, <2>7, <2>8, <2>9 DEF TypeOK
<1>16. TokensOfUsers
  BY <1>8, <1>10, <1>11, <1>13 DEF TokensOfUsers
<1>17. \A a \in Attempts : attempt[a] = NoAttempt /\ \A b \in Browsers : opened[a][b] = 0
  BY <1>2
<1>18. AttemptState
  <2>1. NoAttempt.mode = None /\ NoAttempt.browser = None /\ NoAttempt.who = None
    BY DEF NoAttempt
  <2>2. \A r \in Requests : ~Holds(r)
    BY <1>14, IdleTyped DEF Holds
  <2>3. AttemptsTaken
    BY <1>17, <2>1, <2>2 DEF AttemptsTaken
  <2>4. AttemptOpensOnce
    BY <1>17 DEF AttemptOpensOnce
  <2> QED
    BY <2>3, <2>4 DEF AttemptState
<1>19. CountState /\ Untried
  <2>1. MaxFailed * 0 = 0
    BY Sizes
  <2>2. \A u \in Users : user[u].failed = 0 /\ user[u].locked = FALSE /\ missed[u] = 0 /\ overlaps[u] = 0
    BY <1>2, <1>8, <1>9, <1>11
  <2> QED
    BY <2>1, <2>2 DEF CountState, Counted, Untried
<1>20. VersionState
  BY <1>2, <1>8, <1>10, <1>11, <1>13 DEF VersionState, TokenHolds, Behind
<1>21. FactorState
  <2>1. ASSUME NEW u \in Users PROVE Drawn(u) /\ FactorHolds(u)
    <3>1. DOMAIN accepted = {}
      BY <1>2
    <3>2. CASE u \in Staff
      <4>1. user[u].on => proven[u] = 1 /\ user[u].secret = 1
        BY <1>1, <1>6, <1>8, <1>11, <3>2
      <4>2. user[u].recovery = recovery /\ user[u].secret = secret
        BY <1>8, <1>11, <3>2
      <4> QED
        BY <1>6, <3>1, <4>1, <4>2 DEF Drawn, FactorHolds
    <3>3. CASE u \notin Staff
      <4>1. user[u].on = FALSE /\ user[u].recovery = {} /\ user[u].secret = 0
        BY <1>9, <1>11, <3>3
      <4> QED
        BY <1>6, <3>1, <4>1 DEF Drawn, FactorHolds
    <3> QED
      BY <3>2, <3>3
  <2> QED
    BY <2>1 DEF FactorState
<1>22. WayState
  <2>1. PICK u \in Staff : TRUE
    BY <1>10
  <2>2. u \in EmergencyAdmins
    BY <1>8, <1>10, <1>11, <1>12, <2>1 DEF EmergencyAdmins, Active
  <2>3. tenant.enforced = directory /\ tenant.dir = subject
    BY <1>1
  <2>4. \A v \in Here : Bound(v)
    BY <1>8, <1>10, <1>11, <1>12, <2>3 DEF Bound
  <2>5. WayHolds
    BY <1>4, <2>2, <2>3, <2>4 DEF WayHolds
  <2> QED
    BY <2>5 DEF WayState
<1>23. ASSUME NEW r \in Requests PROVE Knows(r)
  <2>1. request[r].op = "idle" /\ request[r].pc = "idle"
    BY <1>14, IdleTyped
  <2>2. ~SigningIn(r) /\ ~Holds(r) /\ (\A op, pc : op # "idle" => ~At(r, op, pc))
    BY <2>1 DEF SigningIn, Holds, At
  <2>3. Carried(r)
    BY <2>1, <2>2 DEF Carried, AboutOneUser, Kinds, OfFactor
  <2>4. AttemptCarried(r)
    BY <2>1, <2>2 DEF AttemptCarried
  <2>5. FailedKnown(r)
    BY <2>1, <2>2 DEF FailedKnown, ReadsFailed
  <2>6. VersionKnown(r)
    BY <2>1, <2>2 DEF VersionKnown
  <2>7. FactorKnown(r)
    BY <2>1, <2>2 DEF FactorKnown, OfFactor
  <2>8. WayKnown(r)
    BY <2>1, <2>2 DEF WayKnown
  <2> QED
    BY <2>3, <2>4, <2>5, <2>6, <2>7, <2>8 DEF Knows
<1> QED
  BY <1>15, <1>16, <1>18, <1>19, <1>20, <1>21, <1>22, <1>23 DEF IInv

-----------------------------------------------------------------------------
(* The invariant *)

\* The steps of a request that only read the tables, or open or refuse something.
LEMMA ReadingSteps ==
  ASSUME IInv, NEW r \in Requests,
         \/ LoginReads(r) \/ LoginFails(r) \/ LoginRefused(r) \/ LoginTickets(r) \/ LoginOpens(r)
         \/ MfaReads(r) \/ SetupStarts(r) \/ EnableStarts(r) \/ CodesStarts(r) \/ DisableStarts(r) \/ OwnReads(r)
         \/ FactorRefused(r) \/ MfaFails(r) \/ MfaOpens(r) \/ OwnRefused(r)
         \/ Logout(r) \/ PasswordReads(r) \/ ResetReads(r) \/ ResetMfaReads(r)
         \/ UpdateReads(r) \/ UpdateChecks(r) \/ CreateReads(r) \/ OrganisationReads(r)
         \/ CallbackReads(r) \/ CallbackRedeems(r) \/ FinishReads(r) \/ SignInReads(r)
  PROVE  IInv'
<1>1. CASE LoginReads(r)
  BY <1>1, LoginReadsStep
<1>2. CASE LoginFails(r) \/ MfaFails(r)
  BY <1>2, WrongTries
<1>3. CASE LoginRefused(r) \/ OwnRefused(r)
  BY <1>3, RefusedSteps
<1>4. CASE LoginTickets(r)
  BY <1>4, LoginTicketsStep
<1>5. CASE LoginOpens(r) \/ MfaOpens(r)
  BY <1>5, OpeningSteps
<1>6. CASE MfaReads(r)
  BY <1>6, MfaReadsStep
<1>7. CASE SetupStarts(r) \/ EnableStarts(r) \/ CodesStarts(r) \/ DisableStarts(r)
  BY <1>7, OwnRoutesStart
<1>8. CASE OwnReads(r)
  BY <1>8, OwnReadsStep
<1>9. CASE FactorRefused(r)
  BY <1>9, FactorRefusedStep
<1>10. CASE Logout(r)
  BY <1>10, LogoutStep
<1>11. CASE PasswordReads(r) \/ ResetReads(r) \/ ResetMfaReads(r)
  BY <1>11, ReplacingStarts
<1>12. CASE UpdateReads(r)
  BY <1>12, UpdateReadsStep
<1>13. CASE UpdateChecks(r)
  BY <1>13, UpdateChecksStep
<1>14. CASE CreateReads(r)
  BY <1>14, CreateReadsStep
<1>15. CASE OrganisationReads(r)
  BY <1>15, OrganisationReadsStep
<1>16. CASE CallbackReads(r) \/ FinishReads(r)
  BY <1>16, AnswersArrive
<1>17. CASE CallbackRedeems(r)
  BY <1>17, CallbackRedeemsStep
<1>18. CASE SignInReads(r)
  BY <1>18, SignInReadsStep
<1> QED
  BY <1>1, <1>2, <1>3, <1>4, <1>5, <1>6, <1>7, <1>8, <1>9, <1>10, <1>11, <1>12, <1>13, <1>14, <1>15, <1>16, <1>17, <1>18

\* The writes of the row of the account a request is about.
LEMMA AccountSteps ==
  ASSUME IInv, NEW r \in Requests,
         \/ FactorUsed(r) \/ SetupWrites(r) \/ EnableWrites(r) \/ CodesWrites(r) \/ DisableWrites(r)
         \/ LogoutWrites(r) \/ PasswordWrites(r) \/ ResetWrites(r) \/ ResetMfaWrites(r)
         \/ UpdateSaves(r) \/ CreateSaves(r)
  PROVE  IInv'
<1> DEFINE u == request[r].of
<1>1. Carried(r)
  BY SMTT(30) DEF IInv, Knows
<1>2. request[r].op \in AboutOneUser
  <2>1. request[r].pc = "factor" => request[r].op \in OfFactor
    BY <1>1 DEF Carried
  <2>2. OfFactor \cup {"setup", "logout", "password", "reset", "resetMfa", "update", "create"} \subseteq AboutOneUser
    BY DEF OfFactor, AboutOneUser, Kinds
  <2> QED
    BY <2>1, <2>2 DEF FactorUsed, SetupWrites, EnableWrites, CodesWrites, DisableWrites, LogoutWrites, PasswordWrites,
                      ResetWrites, ResetMfaWrites, UpdateSaves, CreateSaves, At, OfFactor
<1>3. u \in Users
  BY <1>1, <1>2 DEF Carried
<1>4. CASE FactorUsed(r)
  BY <1>3, <1>4, FactorUsedStep
<1>5. CASE SetupWrites(r)
  BY <1>3, <1>5, SetupWritesStep
<1>6. CASE EnableWrites(r)
  BY <1>3, <1>6, EnableWritesStep
<1>7. CASE CodesWrites(r)
  BY <1>3, <1>7, CodesWritesStep
<1>8. CASE DisableWrites(r)
  BY <1>3, <1>8, DisableWritesStep
<1>9. CASE LogoutWrites(r)
  BY <1>3, <1>9, LogoutWritesStep
<1>10. CASE PasswordWrites(r)
  BY <1>3, <1>10, PasswordWritesStep
<1>11. CASE ResetWrites(r)
  BY <1>3, <1>11, ResetWritesStep
<1>12. CASE ResetMfaWrites(r)
  BY <1>3, <1>12, ResetMfaWritesStep
<1>13. CASE UpdateSaves(r)
  BY <1>3, <1>13, UpdateSavesStep
<1>14. CASE CreateSaves(r)
  BY <1>3, <1>14, CreateSavesStep
<1> QED
  BY <1>4, <1>5, <1>6, <1>7, <1>8, <1>9, <1>10, <1>11, <1>12, <1>13, <1>14

\* The writes of the organisation, and those of single sign-on.
LEMMA OtherSteps ==
  ASSUME IInv, NEW r \in Requests,
         \/ OrganisationWrites(r) \/ Unlink(r) \/ UnlinkTenant(r) \/ UnlinkUsers(r)
         \/ CallbackWrites(r) \/ FinishTakes(r) \/ LinkCommits(r) \/ BadgeRedeems(r) \/ SignInOpens(r)
  PROVE  IInv'
<1>1. CASE OrganisationWrites(r)
  BY <1>1, OrganisationWritesStep
<1>2. CASE Unlink(r)
  BY <1>2, UnlinkStep
<1>3. CASE UnlinkTenant(r)
  BY <1>3, UnlinkTenantStep
<1>4. CASE UnlinkUsers(r)
  BY <1>4, UnlinkUsersStep
<1>5. CASE CallbackWrites(r)
  BY <1>5, CallbackWritesStep
<1>6. CASE FinishTakes(r)
  BY <1>6, FinishTakesStep
<1>7. CASE LinkCommits(r)
  BY <1>7, LinkCommitsStep
<1>8. CASE BadgeRedeems(r)
  BY <1>8, BadgeRedeemsStep
<1>9. CASE SignInOpens(r)
  BY <1>9, SignInOpensStep
<1> QED
  BY <1>1, <1>2, <1>3, <1>4, <1>5, <1>6, <1>7, <1>8, <1>9

LEMMA NextKeeps ==
  ASSUME IInv, Next
  PROVE  IInv'
<1>1. ASSUME NEW a \in Attempts, NEW b \in Browsers, SignInBegins(a, b) \/ BadgeBegins(a, b) \/ LinkBegins(a, b)
      PROVE  IInv'
  <2>1. PICK op \in {"sso", "link", "badge"}, admin \in Users \cup {None} : SsoBegins(op, a, b, admin)
    BY <1>1 DEF SignInBegins, BadgeBegins, LinkBegins
  <2> QED
    BY <2>1, SsoBeginsStep
<1>2. ASSUME NEW a \in Attempts, SsoExpires(a) PROVE IInv'
  BY <1>2, SsoExpiresStep
<1>3. ASSUME NEW u \in Users, LockEnds(u) PROVE IInv'
  BY <1>3, LockEndsStep
<1>4. CASE Ticks
  BY <1>4, TicksStep
<1> QED
  BY <1>1, <1>2, <1>3, <1>4, ReadingSteps, AccountSteps, OtherSteps DEF Next

LEMMA StutterKeeps ==
  ASSUME IInv, UNCHANGED vars
  PROVE  IInv'
<1>1. TypeOK'
  BY DEF IInv, TypeOK, vars
<1>2. AttemptState'
  BY DEF IInv, AttemptState, AttemptsTaken, AttemptOpensOnce, Holds, vars
<1> QED
  BY <1>1, <1>2, AsideKeeps DEF vars

LEMMA Inductive == Spec => []IInv
<1>1. IInv /\ [Next]_vars => IInv'
  BY NextKeeps, StutterKeeps
<1> QED
  BY InitHolds, <1>1, PTL DEF Spec

-----------------------------------------------------------------------------
(* The theorems *)

\* The variables keep their types; what a request carries on belongs to a column it has read.
THEOREM TypeCorrect == Spec => []TypeOK
<1>1. IInv => TypeOK
  BY DEF IInv
<1> QED
  BY Inductive, <1>1, PTL

\* Guesses by the lock, sessions by the attempt: what one try opens or costs is bounded, for any
\* number of requests at once (auth.controller.ts:92 to 157, sso.controller.ts:168 to 234).
THEOREM EntriesAreBounded == Spec => []EntriesBounded
<1>1. ASSUME IInv PROVE LockBoundsGuesses
  <2> SUFFICES ASSUME NEW u \in Users
               PROVE  missed[u] <= MaxFailed * (1 + overlaps[u])
    BY DEF LockBoundsGuesses
  <2>1. MaxFailed \in Nat /\ overlaps[u] \in Nat /\ missed[u] \in Nat /\ user[u].failed \in 0..(MaxFailed - 1)
    BY <1>1, Sizes DEF IInv, TypeOK, User
  <2>2. missed[u] <= MaxFailed * overlaps[u] + (IF user[u].locked THEN MaxFailed ELSE user[u].failed)
    BY <1>1 DEF IInv, CountState, Counted
  <2>3. MaxFailed * (1 + overlaps[u]) = MaxFailed * overlaps[u] + MaxFailed
    BY <2>1
  <2>4. MaxFailed * overlaps[u] \in Nat
    BY <2>1
  <2> QED
    BY <2>1, <2>2, <2>3, <2>4
<1>2. IInv => EntriesBounded
  BY <1>1 DEF EntriesBounded, IInv, AttemptState
<1> QED
  BY Inductive, <1>2, PTL

\* A session refused once, or opened with a password since replaced, is not accepted again unless a
\* version was written over by a request that had read an older one (auth.controller.ts:234 to 269,
\* management.controller.ts:372 to 403, guards.ts:52).
THEOREM EndedSessionsStayEnded == Spec => []EndedStaysEnded
<1>1. IInv => EndedStaysEnded
  <2> SUFFICES ASSUME IInv, NEW t \in tokens, t.typ # "mfa", Valid(t), ~Stale("version", t.user)
               PROVE  t \notin ended /\ t.pw = user[t.user].pw
    BY DEF EndedStaysEnded
  <2>1. TokenHolds(t) /\ t.user \in Users /\ t.sv = user[t.user].sv /\ user[t.user].sv \in Nat
    BY Versions DEF IInv, VersionState, TypeOK, Token, Valid
  <2> QED
    BY <2>1 DEF TokenHolds, Behind
<1> QED
  BY Inductive, <1>1, PTL

\* A code opens the second step once, and an account that asks for codes asks for those of a secret a
\* first code has confirmed, unless the factor was changed under a request that had read it
\* (auth.controller.ts:71 to 91, :171 to 201).
THEOREM SecondFactorIsKept == Spec => []SecondFactorHolds
<1>1. IInv => SecondFactorHolds
  BY DEF IInv, FactorState, FactorHolds, Used, SecondFactorHolds
<1> QED
  BY Inductive, <1>1, PTL

\* While the directory is required there is one, and an administrator who signs in without it; accounts
\* are bound to the directory that is linked: unless requests crossed on the administrators or on the
\* link (management.controller.ts:66 to 113, :364 to 371; sso.controller.ts:245 to 276).
THEOREM WayInIsKept == Spec => []WayInStays
<1>1. IInv => WayInStays
  BY DEF IInv, WayState, WayHolds, Crossings, Bound, Unlinking, WayInStays
<1> QED
  BY Inductive, <1>1, PTL
=============================================================================
