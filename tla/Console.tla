------------------------------- MODULE Console -------------------------------
(***************************************************************************)
(* The pages of the console that keep a list: employees, users, hosts,      *)
(* sites, doors, ... (src/web/src/admin/pages).  Each page loads its rows,  *)
(* opens a form from a row as it is shown, sends the form as a whole when   *)
(* it is saved, and loads the rows again.  Loads are answered in any order. *)
(* The employees page saves in two calls here: the person, then the apps    *)
(* turned off; the parking benefit is a third one, made like the second.    *)
(*                                                                         *)
(* What is typed into a form is named by the number of the form.  A request *)
(* may fail, before or after the server did what it asks.  One form is open *)
(* at a time.  Left out: what a page does without a form, turning a row off *)
(* and on or deleting it.                                                   *)
(***************************************************************************)
EXTENDS Integers, Sequences, FiniteSets

CONSTANTS
  LastPanel,  \* bound: forms opened on a page
  MaxJobs     \* bound: requests under way at once

VARIABLES
  place,      \* the page in front
  rows,       \* what the server holds
  list,       \* the rows the page loaded last
  panel,      \* the form open, or NoPanel
  jobs,       \* requests under way
  opened,     \* forms opened so far
  said,       \* what the page last said it had saved
  repeated    \* history: forms that may be saved twice

consoleVars == <<place, rows, list, panel, opened, jobs, said, repeated>>

(* How each page treats its form.  waits: what its button waits for while a   *)
(* request is under way (nothing, any request of the page, one of this form); *)
(* adds and edits: what forms it has; stays: the form of a row stays open     *)
(* when it was saved; follows: the form is filled in again at every load;     *)
(* apps: a second call is made.                                               *)
Page(waits, traits) ==
  [waits |-> waits, adds |-> "adds" \in traits, edits |-> "edits" \in traits,
   stays |-> "stays" \in traits, follows |-> "follows" \in traits,
   apps |-> "apps" \in traits]

EmployeesPage    == Page("page", {"adds", "edits", "apps"})
UsersPage        == Page("form", {"adds", "edits", "stays"})
HostsPage        == Page("nothing", {"adds", "edits"})
DoorsPage        == Page("nothing", {"adds"})
SitesPage        == Page("nothing", {"adds"})
ProjectsPage     == Page("page", {"adds", "edits"})
WebhooksPage     == Page("page", {"adds"})
InvitationsPage  == Page("form", {"adds"})
OrganisationPage == Page("nothing", {"edits", "follows"})
ConsolePages ==
  {EmployeesPage, UsersPage, HostsPage, DoorsPage, SitesPage, ProjectsPage, WebhooksPage, InvitationsPage,
   OrganisationPage}
NoPage == Page("nothing", {})

NoPanel == [n |-> 0, id |-> 0, details |-> 0, apps |-> 0]
NothingYet == [id |-> 0, details |-> 0, apps |-> 0, fresh |-> FALSE]
LoadJob == [op |-> "load", at |-> "asked", live |-> TRUE, rows |-> <<>>]

ConsoleInit ==
  /\ place = NoPage
  /\ rows = <<>> /\ list = <<>>
  /\ panel = NoPanel /\ opened = 0 /\ jobs = {} /\ said = NothingYet /\ repeated = {}

MayCall == Cardinality(jobs) < MaxJobs

\* A page comes in front, or is left and comes back: what it had under way goes on unseen.
\* The lists begin empty, the organisation is one row from the start.
ComesInFront(p) ==
  /\ place \in {NoPage, p} /\ MayCall
  /\ place' = p /\ jobs' = {[j EXCEPT !.live = FALSE] : j \in jobs} \cup {LoadJob}
  /\ rows' = IF place = NoPage /\ ~p.adds THEN <<[form |-> 0, details |-> 0, apps |-> 0]>> ELSE rows
  /\ list' = <<>> /\ panel' = NoPanel /\ said' = NothingYet
  /\ UNCHANGED <<opened, repeated>>

-----------------------------------------------------------------------------
(* What the person does *)

TheyShow(f) == panel' = f /\ opened' = f.n /\ UNCHANGED <<place, rows, list, jobs, said, repeated>>

OpensNew ==
  /\ place.adds /\ panel = NoPanel /\ opened < LastPanel
  /\ TheyShow([NoPanel EXCEPT !.n = opened + 1])

RowForm(n, r, shown) == [n |-> n, id |-> r, details |-> shown[r].details, apps |-> shown[r].apps]

\* A drawer covers the other rows.
Edits(r) ==
  /\ place.edits /\ ~place.follows /\ r \in DOMAIN list /\ opened < LastPanel
  /\ place.stays => panel = NoPanel
  /\ TheyShow(RowForm(opened + 1, r, list))

Types ==
  /\ panel # NoPanel /\ panel.details # panel.n
  /\ \E apps \in {panel.apps} \cup IF place.apps THEN {panel.n} ELSE {} :
       panel' = [panel EXCEPT !.details = panel.n, !.apps = apps]
  /\ UNCHANGED <<place, rows, list, opened, jobs, said, repeated>>

\* Also while it is being saved.
Cancels ==
  /\ panel # NoPanel /\ ~place.follows /\ panel' = NoPanel
  /\ UNCHANGED <<place, rows, list, opened, jobs, said, repeated>>

UnderWay == {j \in jobs : j.live /\ j.op = "save"}
AskedTwice == {j \in UnderWay : j.n = panel.n}

SaveWaits ==
  \/ place.waits = "page" /\ UnderWay # {}
  \/ place.waits = "form" /\ AskedTwice # {}

\* prev: the apps the page shows for the row, compared with the form's when the person was
\* saved; none for a new one.
Saves ==
  /\ panel # NoPanel /\ (panel.id = 0 => panel.details = panel.n) /\ ~SaveWaits /\ MayCall
  /\ LET prev == IF panel.id \in DOMAIN list THEN list[panel.id].apps ELSE 0
         current == panel.id = 0 \/ prev = rows[panel.id].apps
     IN jobs' = jobs \cup {[op |-> "save", at |-> "asked", live |-> TRUE, n |-> panel.n, new |-> panel.id = 0,
                             id |-> panel.id, details |-> panel.details, apps |-> panel.apps, prev |-> prev,
                             step |-> "details", fresh |-> current]}
  /\ repeated' = IF place.waits = "nothing" /\ AskedTwice # {} THEN repeated \cup {panel.n} ELSE repeated
  /\ said' = NothingYet /\ UNCHANGED <<place, rows, list, panel, opened>>

-----------------------------------------------------------------------------
(* The server *)

Wrote(j, k) == jobs' = (jobs \ {j}) \cup {k}

\* A row is written: what others said or are saying of it is no longer all there is.
Written(r, others, own) ==
  /\ jobs' = {IF j.op = "save" /\ j.id = r THEN [j EXCEPT !.fresh = FALSE] ELSE j : j \in others} \cup own
  /\ said' = IF said.id = r THEN NothingYet ELSE said

ServesLoad(j) ==
  /\ j.op = "load" /\ j.at = "asked" /\ Wrote(j, [j EXCEPT !.at = "answered", !.rows = rows])
  /\ UNCHANGED <<place, rows, list, panel, opened, said, repeated>>

\* heard: whether the answer arrives; without one the page shows an error and the form
\* stays as it is, to be saved again.
ServesSave(j, heard) ==
  /\ j.op = "save" /\ j.at = "asked"
  /\ LET r == IF j.id = 0 THEN Len(rows) + 1 ELSE j.id IN
     /\ \/ j.id = 0 /\ r <= LastPanel /\ rows' = Append(rows, [form |-> j.n, details |-> j.details, apps |-> 0])
        \/ j.step = "details" /\ j.id # 0 /\ rows' = [rows EXCEPT ![r].details = j.details]
        \/ j.step = "apps" /\ rows' = [rows EXCEPT ![r].apps = j.apps]
     /\ Written(r, jobs \ {j}, IF heard THEN {[j EXCEPT !.at = "answered", !.id = r]} ELSE {})
  /\ repeated' = IF heard THEN repeated ELSE repeated \cup {j.n}
  /\ UNCHANGED <<place, list, panel, opened>>

\* Refused, or never arrived.
FailsSave(j) ==
  /\ j.at = "asked" /\ jobs' = jobs \ {j}
  /\ repeated' = IF j.op = "save" /\ j.step = "apps" THEN repeated \cup {j.n} ELSE repeated
  /\ UNCHANGED <<place, rows, list, panel, opened, said>>

Elsewhere == LastPanel + 1

\* Another administrator, or the HR system, changes a row, once.
OthersChange(r) ==
  /\ r \in DOMAIN rows /\ \A i \in DOMAIN rows : Elsewhere \notin {rows[i].details, rows[i].apps}
  /\ \/ rows' = [rows EXCEPT ![r].details = Elsewhere]
     \/ place.apps /\ rows' = [rows EXCEPT ![r].apps = Elsewhere]
  /\ Written(r, jobs, {})
  /\ UNCHANGED <<place, list, panel, opened, repeated>>

-----------------------------------------------------------------------------
(* The answers *)

\* The last answer is the one shown, whichever was asked last.
RowsCome(j) ==
  /\ j.op = "load" /\ j.at = "answered" /\ jobs' = jobs \ {j}
  /\ list' = IF j.live THEN j.rows ELSE list
  /\ IF j.live /\ place.follows THEN panel' = RowForm(1, 1, j.rows) /\ opened' = 1 ELSE UNCHANGED <<panel, opened>>
  /\ UNCHANGED <<place, rows, said, repeated>>

\* Bug: the apps of a new person are not sent.
AppsDifferOnEdit(j) == j.step = "details" /\ place.apps /\ j.apps # j.prev /\ ~j.new

AppsDiffer(j) == j.step = "details" /\ place.apps /\ j.apps # j.prev

GoesOn(j) ==
  /\ j.op = "save" /\ j.at = "answered" /\ AppsDiffer(j)
  /\ Wrote(j, [j EXCEPT !.step = "apps", !.at = "asked"])
  /\ UNCHANGED <<place, rows, list, panel, opened, said, repeated>>

ReloadsList(j) == jobs' = (jobs \ {j}) \cup IF j.live THEN {LoadJob} ELSE {}

\* Saved: the form is closed, and so is one that was opened in its place.
SavedComes(j) ==
  /\ j.op = "save" /\ j.at = "answered" /\ ~AppsDiffer(j) /\ ReloadsList(j)
  /\ panel' = IF ~j.live \/ place.follows \/ (place.stays /\ ~j.new) THEN panel ELSE NoPanel
  /\ said' = IF j.live THEN [id |-> j.id, details |-> j.details, apps |-> j.apps, fresh |-> j.fresh] ELSE said
  /\ UNCHANGED <<place, rows, list, opened, repeated>>

ConsoleNext ==
  \/ \E p \in ConsolePages : ComesInFront(p)
  \/ OpensNew \/ Types \/ Cancels \/ Saves
  \/ \E r \in DOMAIN rows : Edits(r) \/ OthersChange(r)
  \/ \E j \in jobs :
       \/ ServesLoad(j) \/ ServesSave(j, TRUE) \/ ServesSave(j, FALSE) \/ FailsSave(j)
       \/ RowsCome(j) \/ GoesOn(j) \/ SavedComes(j)

-----------------------------------------------------------------------------
(* What a page says it saved is what the server holds, unless someone else   *)
(* wrote the row or the page showed old apps for it when the button was      *)
(* pressed; and a form makes one row, unless a call of its failed, an answer *)
(* was lost, or the page let its button be pressed again.                    *)
SavedAsSaid ==
  /\ said.fresh => rows[said.id].details = said.details /\ rows[said.id].apps = said.apps
  /\ \A r, s \in DOMAIN rows : r # s /\ rows[r].form = rows[s].form => rows[r].form \in repeated
=============================================================================
