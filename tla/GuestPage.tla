----------------------------- MODULE GuestPage ------------------------------
(***************************************************************************)
(* The page a guest opens from the invitation mail to register from the    *)
(* phone, src/web/src/guest/GuestApp.tsx, and what the server accepts from  *)
(* it.  The page loads the invitation with the texts in force, the guest   *)
(* ticks and signs, the server refuses texts that were replaced meanwhile, *)
(* and a registration can be opened and replaced again.                    *)
(*                                                                         *)
(* A text is a version number; docs 0 is a site without documents.  The    *)
(* language is left out but for what changing it forgets.                  *)
(***************************************************************************)
EXTENDS Integers, FiniteSets, Sequences

CONSTANTS
  LastText,   \* bound: texts published
  LastLoad    \* bound: loads of the invitation under way at once

Nothing == [notice |-> 0, docs |-> 0]
PageTexts == [notice : 0..LastText, docs : 0..LastText]

VARIABLES
  inForce,    \* the texts in force at the server
  invitation, \* what the page loaded last
  page,       \* the state of the page and of its form
  post,       \* the submission under way: the texts it names, and their ticks
  answerTo,   \* what the server said to it
  loads,      \* why the invitation is being loaded
  registered  \* the registration the server stored last

guestPageVars == <<inForce, invitation, page, post, answerTo, loads, registered>>

NoPost == [texts |-> Nothing, seen |-> 0, docsOk |-> {}, replaced |-> FALSE]

Blank(shows) ==
  [shows |-> shows, step |-> 1, read |-> FALSE, seen |-> 0, docsOk |-> {},
   signed |-> FALSE, busy |-> FALSE, replaced |-> FALSE]

GuestPageInit ==
  /\ inForce = [notice |-> 1, docs |-> 1]
  /\ invitation = Nothing
  /\ page = Blank("form")
  /\ post = NoPost
  /\ answerTo = "none"
  /\ loads = {"open"}
  /\ registered = NoPost

PageSteps == IF invitation.docs = 0 THEN <<"details", "notice", "sign">>
                                    ELSE <<"details", "notice", "docs", "sign">>
PageKey == IF page.step \in DOMAIN PageSteps THEN PageSteps[page.step] ELSE "none"
OnForm == invitation # Nothing /\ page.shows = "form"
Filling == OnForm /\ ~page.busy

MayGoOn ==
  CASE PageKey = "details" -> TRUE
    [] PageKey = "notice"  -> page.read
    [] PageKey = "docs"    -> invitation.docs \in page.docsOk
    [] OTHER               -> page.signed

Touches(p) ==
  /\ page' = p
  /\ UNCHANGED <<inForce, invitation, post, answerTo, loads, registered>>

TicksText ==
  /\ Filling
  /\ \/ /\ PageKey = "notice"
        /\ Touches([page EXCEPT !.read = ~@, !.replaced = FALSE,
                                !.seen = IF page.read THEN @ ELSE invitation.notice])
     \/ /\ PageKey = "docs"
        /\ Touches([page EXCEPT !.docsOk = @ \cup {invitation.docs}])

(* Another language is other texts: what was ticked is forgotten, and the   *)
(* step is not, so past the notice nobody asks for it again (replaced).     *)
ChangesLanguage ==
  OnForm /\ Touches([page EXCEPT !.read = FALSE, !.docsOk = {}, !.replaced = @ \/ page.step > 2])

SignsPage == Filling /\ PageKey = "sign" /\ Touches([page EXCEPT !.signed = TRUE])

Pages ==
  /\ Filling
  /\ \/ MayGoOn /\ page.step < Len(PageSteps) /\ Touches([page EXCEPT !.step = @ + 1])
     \/ page.step > 1 /\ Touches([page EXCEPT !.step = @ - 1])

(* A registration stored, or found stored, is opened again: a new form. *)
Reopens == page.shows \in {"done", "stored"} /\ Touches(Blank("form"))

Posts ==
  /\ Filling /\ MayGoOn /\ page.step >= Len(PageSteps)
  /\ page' = [page EXCEPT !.busy = TRUE]
  /\ post' = [texts |-> invitation, seen |-> page.seen, docsOk |-> page.docsOk, replaced |-> page.replaced]
  /\ UNCHANGED <<inForce, invitation, answerTo, loads, registered>>

-----------------------------------------------------------------------------
PublishesText ==
  /\ LET v == IF inForce.notice > inForce.docs THEN inForce.notice + 1 ELSE inForce.docs + 1
     IN  inForce' \in PageTexts \cap {[inForce EXCEPT !.notice = v], [inForce EXCEPT !.docs = v],
                                      [inForce EXCEPT !.docs = 0]}
  /\ UNCHANGED <<invitation, page, post, answerTo, loads, registered>>

(* The server compares the texts named with those in force. *)
Judges ==
  /\ post # NoPost /\ answerTo = "none"
  /\ answerTo' = IF post.texts.notice # inForce.notice THEN "notice"
                 ELSE IF post.texts.docs # inForce.docs THEN "docs" ELSE "ok"
  /\ registered' = IF answerTo' = "ok" THEN post ELSE registered
  /\ UNCHANGED <<inForce, invitation, page, post, loads>>

(* The answer.  Outdated texts keep the form busy until they are loaded; a  *)
(* lost answer leaves the form ready to send again.                         *)
Hears ==
  /\ post # NoPost
  /\ post' = NoPost /\ answerTo' = "none"
  /\ \/ /\ answerTo = "ok"
        /\ page' = Blank("done")
        /\ loads' = loads \cup {"done"}
     \/ /\ answerTo \in {"notice", "docs"}
        /\ loads' = loads \cup {answerTo}
        /\ UNCHANGED page
     \/ /\ page' = [page EXCEPT !.busy = FALSE]
        /\ UNCHANGED loads
  /\ UNCHANGED <<inForce, invitation, registered>>

(* (as a bug) the ticks stay *)
AgainKeeping(why, p, docs) ==
  [p EXCEPT !.signed = FALSE, !.busy = FALSE, !.step = IF why = "docs" /\ docs # 0 THEN 3 ELSE 2]

(* The answer that was outdated forgets every tick, and goes to the step    *)
(* that was: from the documents on, the notice is not asked again.          *)
Again(why, p, docs) ==
  [p EXCEPT !.read = FALSE, !.docsOk = {}, !.signed = FALSE, !.busy = FALSE,
            !.step = IF why = "docs" /\ docs # 0 THEN 3 ELSE 2]

(* History: the notice changes under a tick that nobody asks again, or the  *)
(* documents do while the form is past them.                                *)
Replaced(why, p, new) ==
  [p EXCEPT !.replaced = \/ @
                         \/ (why # "notice" /\ p.seen \notin {0, new.notice})
                         \/ (why \notin {"notice", "docs"} /\ new.docs # invitation.docs)]

Loads(why) ==
  /\ why \in loads
  /\ loads' = loads \ {why}
  /\ invitation' = inForce
  /\ page' =
       LET p == Replaced(why, page, inForce)
           known == why = "open" /\ registered # NoPost /\ page.shows = "form"
       IN  IF why \in {"notice", "docs"} /\ page.busy THEN Again(why, p, invitation.docs)
           ELSE IF known THEN [p EXCEPT !.shows = "stored"] ELSE p
  /\ UNCHANGED <<inForce, post, answerTo, registered>>

(* A load that fails replaces the page by an error: the form is lost, and   *)
(* after a registration the guest reads an error although it is stored.     *)
LoadFails(why) ==
  /\ why \in loads
  /\ loads' = loads \ {why}
  /\ page' = Blank("error")
  /\ post' = NoPost /\ answerTo' = "none"
  /\ UNCHANGED <<inForce, invitation, registered>>

(* The page is opened again, from the mail. *)
ReloadsPage ==
  /\ Cardinality(loads) < LastLoad
  /\ page' = Blank("form")
  /\ loads' = {"open"}
  /\ invitation' = Nothing
  /\ post' = NoPost /\ answerTo' = "none"
  /\ UNCHANGED <<inForce, registered>>

GuestPageNext ==
  \/ TicksText \/ ChangesLanguage \/ SignsPage \/ Pages \/ Reopens \/ Posts
  \/ PublishesText \/ Judges \/ Hears \/ ReloadsPage
  \/ \E why \in loads : Loads(why) \/ LoadFails(why)

-----------------------------------------------------------------------------
(* The texts a stored registration accepts are those that were on the phone *)
(* when the guest ticked them, whatever was published meanwhile and however *)
(* the form was sent back, unless past the notice the language was changed, *)
(* the documents alone were refused, or a load replaced the texts: then the *)
(* page itself asks for no new tick.                                        *)
RegisteredWasShown ==
  \/ registered.replaced
  \/ /\ registered.seen = registered.texts.notice
     /\ registered.texts.docs \in registered.docsOk \cup {0}
=============================================================================
