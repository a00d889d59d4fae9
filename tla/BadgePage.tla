------------------------------ MODULE BadgePage -----------------------------
(***************************************************************************)
(* "My badge" in the browser, src/web/src/access/BadgeApp.tsx: activation   *)
(* with the mailed code or the company account, the code drawn anew at      *)
(* every step, what the server says of the badge, and its removal.  Codes   *)
(* are signed and drawn asynchronously, and answers come in any order, also *)
(* after the badge they are about was replaced.                             *)
(*                                                                         *)
(* Badges are numbered in the order the server issued them; 0 is none.      *)
(***************************************************************************)
EXTENDS Integers, FiniteSets

CONSTANTS
  LastBadge,  \* bound: badges issued
  LastCode,   \* bound: steps of the code
  MaxChecks   \* bound: questions to the server under way at once

VARIABLES
  badgeServer, \* the badge in force and how many were issued
  stored,      \* the badge in the browser's storage
  myBadge,     \* the badge, the screen and what the server said of it
  setup,       \* the first run: what is shown, what is asked, the verifier kept
  codeStep,    \* the step of the clock
  drawing,     \* the codes being signed and drawn
  drawn,       \* the code on the screen
  checks,      \* the questions under way and what the server answered
  revoking     \* the removal under way from the settings

badgePageVars == <<badgeServer, stored, myBadge, setup, codeStep, drawing, drawn, checks, revoking>>
serverSide == <<badgeServer, codeStep>>
screenSide == <<drawing, drawn>>

NoCode == [badge |-> 0, step |-> 0]
FirstRun == [shows |-> "email", waits |-> "none", verifier |-> FALSE]
Current == [badge |-> myBadge.badge, step |-> codeStep]
OnBadge == myBadge.badge # 0 /\ myBadge.view = "badge"
With(badge) == [badge |-> badge, view |-> "badge", said |-> "none", profile |-> 0]
Asking(badge) ==
  IF badge = 0 \/ Cardinality(checks) >= MaxChecks THEN checks
  ELSE checks \cup {[badge |-> badge, answer |-> "none"]}

BadgePageInit ==
  /\ badgeServer = [inForce |-> 0, issued |-> 0]
  /\ stored = 0 /\ myBadge = With(0) /\ setup = FirstRun
  /\ codeStep = 1 /\ drawing = {} /\ drawn = NoCode
  /\ checks = {} /\ revoking = "none"

-----------------------------------------------------------------------------
(* Setup.  What is asked waits for the server one thing at a time.          *)
Asks ==
  /\ myBadge.badge = 0 /\ setup.waits = "none"
  /\ \/ setup.shows = "email" /\ setup' \in {[setup EXCEPT !.waits = "code"],
                                              [setup EXCEPT !.waits = "provider", !.verifier = TRUE]}
     \/ setup.shows = "code" /\ setup' \in {[setup EXCEPT !.waits = "badge"], [setup EXCEPT !.shows = "email"]}
  /\ UNCHANGED <<stored, myBadge, checks, revoking>> /\ UNCHANGED serverSide /\ UNCHANGED screenSide

(* The page is loaded with the badge in the storage. *)
LoadsPage ==
  /\ myBadge' = With(stored) /\ drawing' = {} /\ drawn' = NoCode /\ revoking' = "none"
  /\ checks' = IF stored = 0 THEN {} ELSE {[badge |-> stored, answer |-> "none"]}
  /\ UNCHANGED stored /\ UNCHANGED serverSide

(* Back from the provider, with a code or an error: the verifier is taken    *)
(* out of the storage and redeemed once.  A page that has a badge by then    *)
(* does not look, and a browser without the verifier has nothing to redeem.  *)
ComesBack ==
  /\ setup.verifier /\ LoadsPage
  /\ setup' \in IF stored = 0 THEN {FirstRun, [FirstRun EXCEPT !.waits = "badge"]}
               ELSE {[FirstRun EXCEPT !.verifier = TRUE]}

Activated(badge) ==
  /\ stored' = badge /\ myBadge' = With(badge) /\ setup' = [FirstRun EXCEPT !.verifier = setup.verifier]
  /\ checks' = Asking(badge)

SetupAnswered ==
  /\ setup.waits \in {"code", "badge"}
  /\ \/ setup.waits = "code" /\ setup' = [setup EXCEPT !.shows = "code", !.waits = "none"]
        /\ UNCHANGED <<badgeServer, stored, myBadge, checks>>
     \/ setup.waits = "badge" /\ badgeServer.issued < LastBadge
        /\ badgeServer' = [inForce |-> badgeServer.issued + 1, issued |-> badgeServer.issued + 1]
        /\ Activated(badgeServer.issued + 1)
     \/ setup' = [setup EXCEPT !.waits = "none"] /\ UNCHANGED <<badgeServer, stored, myBadge, checks>>
  /\ UNCHANGED <<codeStep, revoking>> /\ UNCHANGED screenSide

-----------------------------------------------------------------------------
(* The code: signed and drawn for the badge and the step of that moment.    *)
CodePasses ==
  /\ codeStep < LastCode /\ codeStep' = codeStep + 1
  /\ UNCHANGED <<badgeServer, stored, myBadge, setup, checks, revoking>> /\ UNCHANGED screenSide

Draws ==
  /\ OnBadge /\ Current \notin drawing \cup {drawn}
  /\ drawing' = drawing \cup {Current}
  /\ UNCHANGED <<stored, myBadge, setup, drawn, checks, revoking>> /\ UNCHANGED serverSide

(* (as a bug) a code drawn late is shown too *)
AliveEver(code) == TRUE

Alive(code) == code = Current

Drawn(code) ==
  /\ drawing' = drawing \ {code}
  /\ drawn' = IF OnBadge /\ Alive(code) THEN code ELSE drawn
  /\ UNCHANGED <<stored, myBadge, setup, checks, revoking>> /\ UNCHANGED serverSide

-----------------------------------------------------------------------------
(* What the server says of the badge, asked when the page comes in front.   *)
InFront ==
  /\ myBadge.badge # 0 /\ checks' = Asking(myBadge.badge)
  /\ UNCHANGED <<stored, myBadge, setup, revoking>> /\ UNCHANGED serverSide /\ UNCHANGED screenSide

Checks(c) ==
  /\ c.answer = "none"
  /\ checks' = (checks \ {c}) \cup {[c EXCEPT !.answer = IF badgeServer.inForce = c.badge THEN "ok" ELSE "stale"]}
  /\ UNCHANGED <<stored, myBadge, setup, revoking>> /\ UNCHANGED serverSide /\ UNCHANGED screenSide

(* Its answer is shown whatever badge the page has by then.                 *)
Said(c) ==
  /\ checks' = checks \ {c}
  /\ myBadge' = IF c.answer = "ok" THEN [myBadge EXCEPT !.said = "ok", !.profile = c.badge]
                ELSE IF c.answer = "stale" THEN [myBadge EXCEPT !.said = "stale", !.profile = 0]
                ELSE [myBadge EXCEPT !.said = "offline"]
  /\ UNCHANGED <<stored, setup, revoking>> /\ UNCHANGED serverSide /\ UNCHANGED screenSide

(* Screens are entries of the history; the code is drawn again on return.   *)
Turns ==
  /\ myBadge.badge # 0 /\ revoking = "none"
  /\ \E view \in {"badge", "settings", "apps"} \ {myBadge.view} :
       /\ view = "apps" => myBadge.profile # 0
       /\ myBadge' = [myBadge EXCEPT !.view = view]
  /\ drawn' = NoCode
  /\ UNCHANGED <<stored, setup, drawing, checks, revoking>> /\ UNCHANGED serverSide

-----------------------------------------------------------------------------
Revoke(badge) == IF badgeServer.inForce = badge THEN [badgeServer EXCEPT !.inForce = 0] ELSE badgeServer
Forgets == stored' = 0 /\ myBadge' = With(0) /\ drawn' = NoCode

(* A stale badge is forgotten at once, and revoked behind its back.         *)
Reactivates ==
  /\ OnBadge /\ myBadge.said = "stale"
  /\ Forgets
  /\ badgeServer' \in {badgeServer, Revoke(myBadge.badge)}
  /\ UNCHANGED <<setup, codeStep, drawing, checks, revoking>>

(* From the settings the server is told first, and a refusal keeps it; the  *)
(* answer, good, lost or a refusal, comes after.                            *)
Removes ==
  /\ myBadge.view = "settings" /\ revoking = "none"
  /\ \/ revoking' = "refused" /\ UNCHANGED badgeServer
     \/ revoking' = "gone" /\ badgeServer' \in {badgeServer, Revoke(myBadge.badge)}
  /\ UNCHANGED <<stored, myBadge, setup, codeStep, checks>> /\ UNCHANGED screenSide

Removed ==
  /\ revoking # "none" /\ revoking' = "none"
  /\ IF revoking = "gone" THEN Forgets ELSE UNCHANGED <<stored, myBadge, drawn>>
  /\ UNCHANGED <<badgeServer, setup, codeStep, drawing, checks>>

(* The console revokes the badge; another page of the browser removes it or *)
(* activates another; this page is opened again.                            *)
OtherPage ==
  /\ \/ badgeServer' = [badgeServer EXCEPT !.inForce = 0] /\ stored' \in {stored, 0}
     \/ /\ badgeServer.issued < LastBadge /\ stored' = badgeServer.issued + 1
        /\ badgeServer' = [inForce |-> badgeServer.issued + 1, issued |-> badgeServer.issued + 1]
  /\ UNCHANGED <<myBadge, setup, codeStep, checks, revoking>> /\ UNCHANGED screenSide

ReloadsBadge == LoadsPage /\ setup' = [FirstRun EXCEPT !.verifier = setup.verifier]

BadgePageNext ==
  \/ Asks \/ ComesBack \/ SetupAnswered \/ CodePasses \/ Draws \/ InFront \/ Turns
  \/ Reactivates \/ Removes \/ Removed \/ OtherPage \/ ReloadsBadge
  \/ \E code \in drawing : Drawn(code)
  \/ \E c \in checks : Checks(c) \/ Said(c)

-----------------------------------------------------------------------------
(* The code on the screen is of the badge shown, and never goes back to an  *)
(* older step, however late its drawing ends: the reader would refuse it.   *)
CodeFollowsClock ==
  [][/\ drawn'.badge \in {0, myBadge'.badge}
     /\ drawn'.badge = drawn.badge => drawn'.step >= drawn.step]_<<drawn, myBadge>>
=============================================================================
