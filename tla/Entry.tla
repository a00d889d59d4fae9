-------------------------------- MODULE Entry --------------------------------
(***************************************************************************)
(* How a person enters the console, and the second factor of their account: *)
(* the screens of src/web/src/admin/AdminApp.tsx around what /auth/me last   *)
(* said, and pages/Account.tsx.  The recovery codes are shown once, in the   *)
(* answer that makes them.                                                  *)
(*                                                                         *)
(* The server's side is one person's row, its requests served whole: how    *)
(* they cross is module Accounts.  Codes are named by the order in which     *)
(* they are made, a secret by the enrolment that asked for it.               *)
(***************************************************************************)
EXTENDS Integers, FiniteSets

CONSTANTS
  LastEnrolment,  \* bound: enrolments begun
  LastCodes,      \* bound: times codes are made
  MaxAsked        \* bound: requests under way at once

VARIABLES
  me,        \* what the console shows: unknown, anon, password, enrol, in
  ticket,    \* the sign-in screen asks for a code
  account,   \* the account page, or the enrolment the organisation wants
  person,    \* the server's row
  asked,     \* requests under way
  unseen     \* history: an answer with codes was lost or came to a screen that was left, or two made codes at once

entryVars == <<me, ticket, account, person, asked, unseen>>

\* known: whether the factor is on, as the page loaded it; n: the enrolment on the page.
Closed == [open |-> FALSE, known |-> "unknown", mode |-> "idle", n |-> 0, ready |-> FALSE, codes |-> 0]

Request(op) == [op |-> op, at |-> "asked", saw |-> "none", n |-> account.n, codes |-> 0, live |-> TRUE]

EntryInit ==
  /\ me = "unknown" /\ ticket = FALSE /\ unseen = FALSE
  /\ account = Closed
  /\ person = [session |-> FALSE, change |-> TRUE, required |-> FALSE, on |-> FALSE, secret |-> 0, codes |-> 0, shown |-> 0]
  /\ asked = {[op |-> "me", at |-> "asked", saw |-> "none", n |-> 0, codes |-> 0, live |-> TRUE]}

MayAskMore == Cardinality(asked) < MaxAsked
AsksFor(op) == asked' = asked \cup {Request(op)}
Gone(qs) == {[q EXCEPT !.live = FALSE] : q \in qs}

-----------------------------------------------------------------------------
(* The sign-in *)

\* Nothing waits for the answer to /auth/me: the form can be sent again before it comes.
SignsIn(op) ==
  /\ me = "anon" /\ MayAskMore /\ op = (IF ticket THEN "verify" ELSE "login")
  /\ ~\E q \in asked : q.op \in {"login", "verify"}
  /\ AsksFor(op) /\ UNCHANGED <<me, ticket, account, person, unseen>>

ChangesPassword ==
  /\ me = "password" /\ MayAskMore /\ ~\E q \in asked : q.op = "change"
  /\ AsksFor("change") /\ UNCHANGED <<me, ticket, account, person, unseen>>

\* From the pages of the console; the enrolment screen loads the console anew.
SignsOut ==
  /\ me \in {"in", "enrol"} /\ MayAskMore /\ (me = "enrol" => account.codes = 0)
  /\ AsksFor("logout") /\ UNCHANGED <<me, ticket, account, person, unseen>>

-----------------------------------------------------------------------------
(* The second factor *)

Making == {"enable", "regenerate"}

OpensAccount ==
  /\ me = "in" /\ ~account.open /\ MayAskMore
  /\ account' = [Closed EXCEPT !.open = TRUE, !.n = account.n] /\ AsksFor("status")
  /\ UNCHANGED <<me, ticket, person, unseen>>

LeavesAccount ==
  /\ account.open /\ me = "in"
  /\ account' = [Closed EXCEPT !.n = account.n] /\ asked' = Gone(asked)
  /\ UNCHANGED <<me, ticket, person, unseen>>

\* A new enrolment asks for a new secret, once.
Enrolling(screen) == [screen EXCEPT !.mode = "enrol", !.n = @ + 1, !.ready = FALSE]

BeginsEnrolment ==
  /\ me = "in" /\ account.open /\ account.known = "off" /\ account.mode = "idle" /\ account.codes = 0
  /\ account.n < LastEnrolment /\ MayAskMore
  /\ account' = Enrolling(account)
  /\ asked' = asked \cup {[Request("setup") EXCEPT !.n = account.n + 1]}
  /\ UNCHANGED <<me, ticket, person, unseen>>

Opens(mode) ==
  /\ me = "in" /\ account.open /\ account.known = "on" /\ account.mode = "idle" /\ account.codes = 0
  /\ account' = [account EXCEPT !.mode = mode]
  /\ UNCHANGED <<me, ticket, person, asked, unseen>>

\* Back from a form; what it asked goes on.
ClosesForm ==
  /\ me = "in" /\ account.mode # "idle" /\ account.codes = 0
  /\ account' = [account EXCEPT !.mode = "idle"]
  /\ UNCHANGED <<me, ticket, person, asked, unseen>>

\* A form of the page waits for either of the two; an enrolment for itself.
FormWaits ==
  IF account.mode = "enrol" THEN \E q \in asked : q.live /\ q.op = "enable" /\ q.n = account.n
                            ELSE \E q \in asked : q.live /\ q.op \in {"disable", "regenerate"}

SendsCode ==
  /\ account.mode # "idle" /\ account.codes = 0 /\ ~FormWaits /\ MayAskMore
  /\ account.mode = "enrol" => account.ready
  /\ LET op == IF account.mode = "enrol" THEN "enable" ELSE account.mode
     IN  AsksFor(op) /\ unseen' = (op \in Making /\ \E q \in asked : q.op \in Making)
  /\ UNCHANGED <<me, ticket, account, person>>

\* "I have saved them".
SavedCodes ==
  /\ account.codes # 0
  /\ IF me = "enrol" THEN MayAskMore /\ AsksFor("me") /\ UNCHANGED account
                     ELSE account' = [account EXCEPT !.codes = 0] /\ UNCHANGED asked
  /\ UNCHANGED <<me, ticket, person, unseen>>

-----------------------------------------------------------------------------
(* The server *)

MeIs ==
  IF ~person.session THEN "anon"
  ELSE IF person.change THEN "password"
  ELSE IF person.required /\ ~person.on THEN "enrol" ELSE "in"

\* With the right password and code, and in a session that lasts.
Granted(q) ==
  \/ q.op \in {"me", "login", "verify"}
  \/ person.session /\ q.op \in {"status", "change", "logout"}
  \/ person.session /\ ~person.on /\ (q.op = "setup" \/ (q.op = "enable" /\ q.n = person.secret))
  \/ person.session /\ person.on /\ (q.op = "regenerate" \/ (q.op = "disable" /\ ~person.required))

After(q) ==
  CASE q.op = "login"  -> [person EXCEPT !.session = (@ \/ ~person.on)]
    [] q.op = "verify" -> [person EXCEPT !.session = TRUE]
    [] q.op = "change" -> [person EXCEPT !.change = FALSE, !.session = FALSE]
    [] q.op = "logout" -> [person EXCEPT !.session = FALSE]
    [] q.op = "setup"  -> [person EXCEPT !.secret = q.n]
    [] q.op \in Making -> [person EXCEPT !.on = TRUE, !.codes = @ + 1]
    [] q.op = "disable" -> [person EXCEPT !.on = FALSE, !.secret = 0]
    [] OTHER -> person

Says(q) ==
  CASE q.op = "me" -> MeIs
    [] q.op = "login" -> IF person.on THEN "code" ELSE "ok"
    [] q.op = "status" -> IF person.on THEN "on" ELSE "off"
    [] OTHER -> "ok"

Replies(q, saw) ==
  asked' = (asked \ {q}) \cup {[q EXCEPT !.at = "answered", !.saw = saw, !.codes = IF saw = "ok" THEN After(q).codes ELSE 0]}

\* heard: whether the answer arrives; none is like a refusal.
ServesEntry(q, heard) ==
  /\ q.at = "asked" /\ Granted(q) /\ (q.op \in Making => person.codes < LastCodes)
  /\ person' = After(q) /\ Replies(q, IF heard THEN Says(q) ELSE "refused")
  /\ unseen' = (unseen \/ (~heard /\ q.op \in Making))
  /\ UNCHANGED <<me, ticket, account>>

RefusesEntry(q) ==
  /\ q.at = "asked" /\ Replies(q, "refused") /\ UNCHANGED <<me, ticket, account, person, unseen>>

\* The session runs out or is ended elsewhere; the organisation asks for second factors.
ChangesOutside ==
  /\ \/ person.session /\ person' = [person EXCEPT !.session = FALSE]
     \/ ~person.required /\ person' = [person EXCEPT !.required = TRUE]
  /\ UNCHANGED <<me, ticket, account, asked, unseen>>

-----------------------------------------------------------------------------
(* The answers *)

Answered(q, op) == q.op = op /\ q.at = "answered"

\* Another screen: what the old one asked is answered to nobody, the enrolment begins.
MovesTo(screen, rest) ==
  /\ me' = screen /\ ticket' = (ticket /\ screen = me)
  /\ IF screen = me THEN account' = account /\ asked' = rest
     ELSE IF screen = "enrol"
     THEN /\ account' = [Enrolling(Closed) EXCEPT !.n = account.n + 1]
          /\ asked' = Gone(rest) \cup {[Request("setup") EXCEPT !.n = account.n + 1]}
     ELSE account' = [Closed EXCEPT !.n = account.n] /\ asked' = Gone(rest)

\* No answer is no session.
MeComes(q) ==
  /\ Answered(q, "me") /\ MovesTo(IF q.saw = "refused" THEN "anon" ELSE q.saw, asked \ {q})
  /\ account'.n <= LastEnrolment
  /\ UNCHANGED <<person, unseen>>

SignedIn(q) ==
  /\ q.op \in {"login", "verify"} /\ q.at = "answered"
  /\ asked' = (asked \ {q}) \cup IF q.saw = "ok" THEN {Request("me")} ELSE {}
  /\ ticket' = IF q.live THEN q.saw = "code" \/ ticket ELSE ticket
  /\ UNCHANGED <<me, account, person, unseen>>

\* The ticket has expired.
TicketExpires(q) ==
  /\ Answered(q, "verify") /\ q.saw = "refused" /\ ticket' = FALSE /\ asked' = asked \ {q}
  /\ UNCHANGED <<me, account, person, unseen>>

\* Said for a moment, then the sign-in again.
Changed(q) ==
  /\ Answered(q, "change") /\ UNCHANGED <<person, unseen>>
  /\ IF q.saw = "ok" THEN MovesTo("anon", asked \ {q}) ELSE asked' = asked \ {q} /\ UNCHANGED <<me, ticket, account>>

\* Whatever the server said.
SignedOut(q) ==
  /\ Answered(q, "logout") /\ UNCHANGED <<person, unseen>>
  /\ IF me = "enrol" THEN MovesTo("unknown", {p \in asked \ {q} : p.op # "me"} \cup {Request("me")}) ELSE MovesTo("anon", asked \ {q})

StatusComes(q) ==
  /\ Answered(q, "status") /\ asked' = asked \ {q}
  /\ account' = IF q.live /\ q.saw # "refused" THEN [account EXCEPT !.known = q.saw] ELSE account
  /\ UNCHANGED <<me, ticket, person, unseen>>

SetupComes(q) ==
  /\ Answered(q, "setup") /\ asked' = asked \ {q}
  /\ account' = IF q.live /\ q.n = account.n THEN [account EXCEPT !.ready = q.saw = "ok"] ELSE account
  /\ UNCHANGED <<me, ticket, person, unseen>>

WithCodes(q) == [account EXCEPT !.mode = "idle", !.codes = q.codes]

\* Shown also when the form was closed meanwhile, not when the page was left.
CodesCome(q) ==
  /\ q.op \in Making /\ q.at = "answered" /\ q.saw = "ok"
  /\ asked' = (asked \ {q}) \cup IF q.live /\ me = "in" THEN {Request("status")} ELSE {}
  /\ account' = IF q.live THEN WithCodes(q) ELSE account
  /\ person' = IF q.live THEN [person EXCEPT !.shown = account'.codes] ELSE person
  /\ unseen' = (unseen \/ ~q.live) /\ UNCHANGED <<me, ticket>>

DisabledComes(q) ==
  /\ Answered(q, "disable") /\ q.saw = "ok"
  /\ asked' = (asked \ {q}) \cup IF q.live THEN {Request("status")} ELSE {}
  /\ account' = IF q.live THEN [account EXCEPT !.mode = "idle"] ELSE account
  /\ UNCHANGED <<me, ticket, person, unseen>>

\* The form says so and stays.
FailureComes(q) ==
  /\ q.op \in Making \cup {"disable"} /\ q.at = "answered" /\ q.saw = "refused"
  /\ asked' = asked \ {q} /\ UNCHANGED <<me, ticket, account, person, unseen>>

\* Bound: what follows once codes went unseen is left out.
EntryNext == ~unseen /\
  \/ \E op \in {"login", "verify"} : SignsIn(op)
  \/ \E mode \in {"disable", "regenerate"} : Opens(mode)
  \/ ChangesPassword \/ SignsOut \/ OpensAccount \/ LeavesAccount \/ BeginsEnrolment
  \/ ClosesForm \/ SendsCode \/ SavedCodes \/ ChangesOutside
  \/ \E q \in asked :
       \/ ServesEntry(q, TRUE) \/ ServesEntry(q, FALSE) \/ RefusesEntry(q)
       \/ MeComes(q) \/ SignedIn(q) \/ TicketExpires(q) \/ Changed(q) \/ SignedOut(q) \/ StatusComes(q)
       \/ SetupComes(q) \/ CodesCome(q) \/ DisabledComes(q) \/ FailureComes(q)

-----------------------------------------------------------------------------
(* The recovery codes on the page are those in force, and once a second      *)
(* factor is on and no answer is on its way its codes have been shown: unless *)
(* an answer with codes was lost, or the page was left before it came.        *)
CodesInForce ==
  \/ unseen \/ \E q \in asked : q.op \in Making /\ ~q.live
  \/ /\ account.codes # 0 /\ person.on => account.codes = person.codes
     /\ person.on /\ (\A q \in asked : q.op \notin Making) => person.shown = person.codes
=============================================================================
