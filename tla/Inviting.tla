------------------------------- MODULE Inviting ------------------------------
(***************************************************************************)
(* How an employee invites guests from "My badge": the list, the form, and  *)
(* one invitation with the code to forward (src/web/src/access/             *)
(* BadgeInvites.tsx, and src/mobile/src/app/invites, the same three screens *)
(* on the phone).  A screen that is left drops what it was told later,      *)
(* except the answer to a new invitation, which opens it wherever the       *)
(* person is by then.                                                       *)
(*                                                                         *)
(* Invitations are numbered in the order they are made, forms in the order  *)
(* they are opened.  Any request may fail, before or after the server did   *)
(* what it asks.                                                            *)
(***************************************************************************)
EXTENDS Integers, Sequences, FiniteSets

CONSTANTS
  LastInvite,   \* bound: invitations made
  LastForm,     \* bound: forms opened
  MaxTasks      \* bound: requests under way at once

\* of: the invitation whose row is shown, code: the one whose code is; ends: a request
\* of the person, whose end makes the screen ready for the next.
VARIABLES
  invites,      \* the invitations: status, and the form they were made with
  desk,         \* the screen in front, and what it shows
  tasks,        \* the requests under way, and what the server answered
  unheard,      \* history: forms whose invitation the person was not told of
  overtaken     \* history: the invitation shown changed while it was being loaded

invitingVars == <<invites, desk, tasks, unheard, overtaken>>

Shown(view, form, id) ==
  [view |-> view, form |-> form, id |-> id, of |-> 0, status |-> "unknown", code |-> 0, busy |-> FALSE, rows |-> desk.rows]
TaskOf(op, about) == [op |-> op, about |-> about, at |-> "asked", saw |-> "none", rows |-> 0,
                       live |-> TRUE, ends |-> op \in {"create", "cancel"}]

InvitingInit ==
  /\ invites = <<>>
  /\ desk = [view |-> "list", form |-> 0, id |-> 0, of |-> 0, status |-> "unknown", code |-> 0, busy |-> FALSE, rows |-> 0]
  /\ tasks = {TaskOf("list", 0)}
  /\ unheard = {} /\ overtaken = FALSE

Unmounted(ts) == {[t EXCEPT !.live = FALSE] : t \in ts}
MayAsk == Cardinality(tasks) < MaxTasks

\* A screen comes in front with what it loads first.
Comes(screen, rest) ==
  /\ desk' = screen
  /\ tasks' = Unmounted(rest) \cup
       (CASE screen.view = "list"   -> {TaskOf("list", 0)}
          [] screen.view = "detail" -> {TaskOf("load", screen.id)}
          [] OTHER                  -> {})
  /\ overtaken' = FALSE

BacksOut ==
  /\ desk.view # "list" /\ MayAsk
  /\ Comes(Shown("list", desk.form, 0), tasks) /\ UNCHANGED <<invites, unheard>>

OpensForm ==
  /\ desk.view = "list" /\ desk.form < LastForm
  /\ Comes(Shown("new", desk.form + 1, 0), tasks) /\ UNCHANGED <<invites, unheard>>

OpensInvite(i) ==
  /\ desk.view = "list" /\ i \in 1..desk.rows /\ MayAsk
  /\ Comes(Shown("detail", desk.form, i), tasks) /\ UNCHANGED <<invites, unheard>>

\* In front again: a guest may have arrived meanwhile.
ListAgain ==
  /\ desk.view = "list" /\ MayAsk
  /\ tasks' = tasks \cup {TaskOf("list", 0)}
  /\ UNCHANGED <<invites, desk, unheard, overtaken>>

\* Bug: the button does not wait for the answer.
CompleteAnyway == desk.view = "new"

\* Names, address and time look right, a site is left, nothing is under way.
Complete == desk.view = "new" /\ ~desk.busy

Creates ==
  /\ Complete /\ MayAsk
  /\ desk' = [desk EXCEPT !.busy = TRUE]
  /\ tasks' = tasks \cup {TaskOf("create", desk.form)}
  /\ UNCHANGED <<invites, unheard, overtaken>>

CancelsInvite ==
  /\ desk.view = "detail" /\ desk.status = "pending" /\ ~desk.busy /\ MayAsk
  /\ desk' = [desk EXCEPT !.busy = TRUE]
  /\ overtaken' = (overtaken \/ \E t \in tasks : t.live)
  /\ tasks' = tasks \cup {TaskOf("cancel", desk.of)}
  /\ UNCHANGED <<invites, unheard>>

-----------------------------------------------------------------------------
(* The server *)

Made(form) == Append(invites, [status |-> "pending", form |-> form])
Answer(t, saw) == tasks' = (tasks \ {t}) \cup {[t EXCEPT !.at = "answered", !.saw = saw, !.rows = Len(invites)]}

\* Cancelling and the code want an open invitation; a person who is no longer one to
\* visit is refused everything.
ServesInvite(t) ==
  /\ t.at = "asked" /\ UNCHANGED <<desk, unheard, overtaken>>
  /\ \/ t.op = "list" /\ Answer(t, "ok") /\ UNCHANGED invites
     \/ t.op = "create" /\ Len(invites) < LastInvite /\ invites' = Made(t.about) /\ Answer(t, "ok")
     \/ t.op = "load" /\ Answer(t, invites[t.about].status) /\ UNCHANGED invites
     \/ t.op = "code" /\ invites[t.about].status = "pending" /\ Answer(t, "ok") /\ UNCHANGED invites
     \/ t.op = "cancel" /\ invites[t.about].status = "pending" /\ Answer(t, "ok")
        /\ invites' = [invites EXCEPT ![t.about].status = "cancelled"]
     \/ Answer(t, "refused") /\ UNCHANGED invites

\* The guest checks in, or another device of the employee or the console cancels.
ChangesElsewhere(i) ==
  /\ i \in DOMAIN invites /\ invites[i].status = "pending"
  /\ \E status \in {"used", "cancelled"} : invites' = [invites EXCEPT ![i].status = status]
  /\ UNCHANGED <<desk, tasks, unheard, overtaken>>

-----------------------------------------------------------------------------
(* The answer *)

Ok(t, op) == t.op = op /\ t.at = "answered" /\ t.saw # "refused"
On(t, screen) == IF t.live THEN screen ELSE desk

ListComes(t) ==
  /\ Ok(t, "list") /\ desk' = On(t, [desk EXCEPT !.rows = t.rows])
  /\ tasks' = tasks \ {t} /\ UNCHANGED <<invites, unheard, overtaken>>

\* From wherever the person is; the screen of another invitation stays mounted, and
\* shows it until the new one is loaded.
CreatedComes(t) ==
  /\ Ok(t, "create") /\ UNCHANGED <<invites, unheard>>
  /\ \/ desk.view # "detail" /\ Comes(Shown("detail", desk.form, t.rows + 1), tasks \ {t})
     \/ /\ desk.view = "detail" /\ desk' = [desk EXCEPT !.id = t.rows + 1]
        /\ tasks' = (tasks \ {t}) \cup {TaskOf("load", t.rows + 1)}
        /\ overtaken' = TRUE

WithRow(t) == [desk EXCEPT !.of = t.about, !.status = t.saw, !.code = IF t.saw = "pending" THEN @ ELSE 0]

\* An open invitation asks for its code next; one that is not ends the load here.
LoadComes(t) ==
  /\ Ok(t, "load") /\ desk' = On(t, [WithRow(t) EXCEPT !.busy = @ /\ (t.saw = "pending" \/ ~t.ends)])
  /\ tasks' = (tasks \ {t}) \cup IF t.saw = "pending" THEN {[t EXCEPT !.op = "code", !.at = "asked", !.saw = "none"]} ELSE {}
  /\ UNCHANGED <<invites, unheard, overtaken>>

CodeComes(t) ==
  /\ Ok(t, "code") /\ desk' = On(t, [desk EXCEPT !.code = t.about, !.busy = @ /\ ~t.ends])
  /\ tasks' = tasks \ {t} /\ UNCHANGED <<invites, unheard, overtaken>>

\* Cancelled: the screen stays busy until it loaded the invitation again.
CancelledComes(t) ==
  /\ Ok(t, "cancel") /\ tasks' = (tasks \ {t}) \cup {[t EXCEPT !.op = "load", !.at = "asked", !.saw = "none"]}
  /\ UNCHANGED <<invites, desk, unheard, overtaken>>

\* Refused, or no answer: the screen says so and shows what it had; a form may be sent
\* again, also when its invitation was made.
NothingComes(t) ==
  /\ tasks' = tasks \ {t} /\ desk' = On(t, [desk EXCEPT !.busy = @ /\ ~t.ends])
  /\ unheard' = IF t.op = "create" THEN unheard \cup {t.about} ELSE unheard
  /\ UNCHANGED <<invites, overtaken>>

InvitingNext ==
  \/ BacksOut \/ OpensForm \/ ListAgain \/ Creates \/ CancelsInvite
  \/ \E i \in 1..LastInvite : OpensInvite(i) \/ ChangesElsewhere(i)
  \/ \E t \in tasks :
       \/ ServesInvite(t) \/ ListComes(t) \/ CreatedComes(t) \/ LoadComes(t)
       \/ CodeComes(t) \/ CancelledComes(t) \/ NothingComes(t)

-----------------------------------------------------------------------------
(* A form invites its guest once, unless the person was never told that it   *)
(* did and sent it again; and the code to forward is that of the invitation  *)
(* shown, which the screen says is open, unless that was cancelled or        *)
(* replaced while the screen was still loading it.                           *)
InvitedOnce ==
  /\ \A i, j \in DOMAIN invites : i # j /\ invites[i].form = invites[j].form => invites[i].form \in unheard
  /\ desk.code # 0 => (desk.code = desk.of /\ desk.status = "pending") \/ overtaken
=============================================================================
