------------------------------- MODULE Kiosk --------------------------------
(***************************************************************************)
(* The web application of a reception tablet, src/web/src/kiosk.  Guests   *)
(* use one tablet one after another; every request is answered while the   *)
(* screen lives on: an answer may come when its form is gone (the idle     *)
(* reset, Cancel on the invitation screen) and the next guest is there, or *)
(* may never come.  A guest steps up only to the welcome screen.           *)
(*                                                                         *)
(* Texts are version numbers; docs 0 is a site that has no documents.  An  *)
(* invitation is the guest it was sent to.  The photos a policy may ask    *)
(* for, the language and the wording of errors are left out.               *)
(***************************************************************************)
EXTENDS Integers, FiniteSets, SequencesExt

CONSTANTS
  Visitors,   \* people who use the tablet
  MaxChanges, \* bound: texts published or withdrawn
  MaxLoad     \* bound: requests under way and people who have used the tablet

NoOne == "none"
NoConfig == [notice |-> 0, docs |-> 0]

VARIABLES
  served,    \* the texts in force at the server
  changes,   \* how often they changed
  cfg,       \* the configuration the tablet holds
  paired,    \* the tablet has a token
  guest,     \* the person at the tablet
  queue,     \* people who have not been at it yet
  screen,    \* what it shows: the screen, an invitation, a result
  form,      \* the state of the mounted check-in form
  calls,     \* requests and answers under way
  crossed,   \* history: this screen came with an answer its flow no longer waited for
  accepted,  \* history: the visits the server registered
  missed,    \* history: people the tablet never told, or registered from a crossed screen
  again      \* history: people registered a second time

kioskVars == <<served, changes, cfg, paired, guest, queue, screen, form, calls, crossed, accepted, missed, again>>

Show(name, invite, result) == [name |-> name, invite |-> invite, result |-> result]
Welcome == Show("welcome", NoOne, NoOne)

BlankForm(g) == [by |-> g, step |-> 1, read |-> 0, docsOk |-> {},
                 signed |-> FALSE, busy |-> FALSE, swapped |-> FALSE]
NewForm == BlankForm(guest)
NoForm == BlankForm(NoOne)

(* The steps of the form follow the configuration, not the guest. *)
Steps == IF cfg.docs = 0 THEN <<"details", "notice", "sign">>
                         ELSE <<"details", "notice", "docs", "sign">>
Key == IF form.step > Len(Steps) THEN "sign" ELSE Steps[form.step]
CanNext ==
  CASE Key = "details" -> TRUE
    [] Key = "notice"  -> form.read # 0
    [] Key = "docs"    -> cfg.docs \in form.docsOk
    [] OTHER           -> form.signed

Busy == \E c \in calls : c.live /\ c.kind \in {"arrive", "checkout"}
(* Whom a registration is about. *)
Person(c) == IF c.kind = "arrive" THEN c.invite ELSE c.by
Room == Cardinality(calls) + Cardinality(Visitors \ queue) < MaxLoad

KioskInit ==
  /\ served = [notice |-> 1, docs |-> 1]
  /\ changes = 0
  /\ cfg = served
  /\ paired = TRUE
  /\ guest = NoOne
  /\ queue = Visitors
  /\ screen = Welcome
  /\ form = NoForm
  /\ calls = {}
  /\ crossed = FALSE
  /\ accepted = {}
  /\ missed = {}
  /\ again = {}

-----------------------------------------------------------------------------
(* The form is on the page of a tablet that is paired and has loaded. *)
Mounted(p, c, s) == p /\ c # NoConfig /\ s.name = "checkin"

(* A flow that leaves the screen loses its state; its requests go on. *)
Orphans(cs) == {[c EXCEPT !.live = FALSE] : c \in cs}
Registers(c) == c.kind \in {"checkin", "arrive"}
Waiting(cs) == {Person(c) : c \in {d \in cs : d.live /\ Registers(d)}}

Leave(cs, to) ==
  /\ screen' = to
  /\ form' = IF Mounted(paired, cfg, to) THEN NewForm ELSE NoForm
  /\ calls' = Orphans(cs)
  /\ missed' = missed \cup Waiting(cs)

(* Welcome, and a new session: Cancel, Finish and the idle timer. *)
GoHome ==
  /\ screen # Welcome
  /\ Leave(calls, Welcome)
  /\ crossed' = FALSE
  /\ UNCHANGED <<served, changes, cfg, paired, guest, queue, accepted, again>>

(* Cancel waits for the answer; the idle timer does not, and the invitation *)
(* screen never does.                                                       *)
Cancel ==
  /\ screen.name \in {"arrive", "checkout"} => ~Busy
  /\ screen.name = "checkin" => form # NoForm /\ ~form.busy /\ form.step = 1
  /\ GoHome

Idle == GoHome

(* Whoever comes next: nothing tells one guest from another. *)
StepsUp ==
  /\ screen = Welcome /\ queue # {}
  /\ guest' = CHOOSE v \in queue : TRUE
  /\ queue' = queue \ {guest'}
  /\ UNCHANGED <<served, changes, cfg, paired, screen, form, calls, crossed, accepted, missed, again>>

(* A person told of her registration does not register again. *)
Told == {v.person : v \in accepted} \ missed

Chooses ==
  /\ paired /\ cfg # NoConfig /\ guest # NoOne
  /\ \/ /\ screen = Welcome
        /\ \E n \in IF guest \in Told THEN {"checkout"} ELSE {"checkin", "invite", "checkout"} :
             Leave(calls, Show(n, NoOne, NoOne))
     \/ screen.name = "invite" /\ Leave(calls, Show("checkin", NoOne, NoOne))
  /\ UNCHANGED <<served, changes, cfg, paired, guest, queue, crossed, accepted, again>>

-----------------------------------------------------------------------------
(* The form.  read is the version of the notice under the tick. *)
AtForm == screen.name = "checkin" /\ form # NoForm /\ ~form.busy

Fills(f) ==
  /\ form' = f
  /\ UNCHANGED <<served, changes, cfg, paired, guest, queue, screen, calls, crossed, accepted, missed, again>>

TicksNotice ==
  /\ AtForm /\ Key = "notice"
  /\ Fills([form EXCEPT !.read = IF @ = 0 THEN cfg.notice ELSE 0, !.swapped = FALSE])

TicksDocuments ==
  /\ AtForm /\ Key = "docs" /\ cfg.docs \notin form.docsOk
  /\ Fills([form EXCEPT !.docsOk = @ \cup {cfg.docs}])

Signs == AtForm /\ Key = "sign" /\ Fills([form EXCEPT !.signed = TRUE])

Forward == AtForm /\ CanNext /\ form.step < Len(Steps) /\ Fills([form EXCEPT !.step = @ + 1])

Back == AtForm /\ form.step > 1 /\ Fills([form EXCEPT !.step = @ - 1])

(* One request: what it asks, for whom, whether its screen is still mounted. *)
Call(kind, invite, shown) ==
  [kind |-> kind, by |-> guest, invite |-> invite,
   texts |-> IF kind = "checkin" THEN cfg ELSE NoConfig, shown |-> shown,
   why |-> kind, crossed |-> crossed, live |-> TRUE, step |-> 0, answer |-> "none"]

Sends(c) ==
  /\ Room
  /\ calls' = calls \cup {c}
  /\ UNCHANGED <<served, changes, cfg, paired, guest, queue, screen, crossed, accepted, missed, again>>

(* The texts a request names as accepted are those under the ticks. *)
TextsWereShown == form.read = cfg.notice /\ cfg.docs \in form.docsOk \cup {0}

(* A Confirm button that does not wait for the answer. *)
MaySubmitTwice == screen.name = "checkin" /\ form # NoForm /\ CanNext /\ form.step >= Len(Steps)

MaySubmit == AtForm /\ CanNext /\ form.step >= Len(Steps)

Submits ==
  /\ MaySubmit
  /\ form' = [form EXCEPT !.busy = TRUE]
  /\ Sends(Call("checkin", screen.invite, TextsWereShown \/ form.swapped))

(* A person looks up her own invitation; another lookup waits for the first. *)
LooksUp ==
  /\ screen.name = "invite" /\ cfg # NoConfig
  /\ ~\E c \in calls : c.live /\ c.kind = "lookup"
  /\ Sends(Call("lookup", guest, TRUE))
  /\ UNCHANGED form

Confirms ==
  /\ screen.name \in {"arrive", "checkout"} /\ cfg # NoConfig /\ ~Busy
  /\ Sends(Call(screen.name, screen.invite, TRUE))
  /\ UNCHANGED form

(* The welcome screen refreshes; a tablet just paired loads. *)
Load(why, by, live, step) ==
  [kind |-> "config", by |-> by, invite |-> NoOne, texts |-> NoConfig, shown |-> TRUE,
   why |-> why, crossed |-> FALSE, live |-> live, step |-> step, answer |-> "none"]

Refreshes ==
  /\ paired /\ screen = Welcome
  /\ ~\E c \in calls : c.kind = "config"
  /\ Sends(Load("refresh", NoOne, FALSE, 0))
  /\ UNCHANGED form

Pairs ==
  /\ ~paired /\ Room
  /\ paired' = TRUE
  /\ calls' = calls \cup {Load("refresh", NoOne, FALSE, 0)}
  /\ form' = IF Mounted(TRUE, cfg, screen) THEN NewForm ELSE NoForm
  /\ UNCHANGED <<served, changes, cfg, guest, queue, screen, crossed, accepted, missed, again>>

-----------------------------------------------------------------------------
(* The server: new texts, and one answer to each request. *)
Publishes ==
  /\ changes < MaxChanges
  /\ changes' = changes + 1
  /\ served' \in {[served EXCEPT !.notice = changes + 2], [served EXCEPT !.docs = changes + 2],
                 [served EXCEPT !.docs = 0]}
  /\ UNCHANGED <<cfg, paired, guest, queue, screen, form, calls, crossed, accepted, missed, again>>

Used(i) == \E v \in accepted : v.invite = i /\ i # NoOne

Answers(c) ==
  IF c.kind = "checkin" /\ c.texts.notice # served.notice THEN {"notice"}
  ELSE IF c.kind = "checkin" /\ c.texts.docs # served.docs THEN {"docs"}
  ELSE IF Used(c.invite) THEN {}
  ELSE IF c.kind = "arrive" THEN {"ok", "incomplete"} ELSE {"ok", "host"}

Visit(c) == [person |-> Person(c), invite |-> c.invite, shown |-> c.shown,
             own |-> c.crossed \/ c.invite \in {c.by, NoOne}]

Serves(c) ==
  /\ Registers(c) /\ c.answer = "none"
  /\ \E a \in Answers(c) :
       /\ calls' = (calls \ {c}) \cup {[c EXCEPT !.answer = a]}
       /\ IF a = "ok"
            THEN /\ accepted' = accepted \cup {Visit(c)}
                 /\ again' = again \cup ({Person(c)} \cap {v.person : v \in accepted})
                 /\ missed' = IF c.crossed THEN missed \cup {Person(c)} ELSE missed
            ELSE UNCHANGED <<accepted, again, missed>>
  /\ UNCHANGED <<served, changes, cfg, paired, guest, queue, screen, form, crossed>>

-----------------------------------------------------------------------------
(* The answer at the tablet.  The handlers of a form that is gone still     *)
(* change the screen and the configuration, never the next form's state.    *)
ShowsTo(c, to) ==
  /\ IF to.name = "checkin" /\ screen.name = "checkin" /\ form # NoForm
       THEN screen' = to /\ calls' = calls \ {c} /\ UNCHANGED <<form, missed>>
       ELSE Leave(calls \ {c}, to)
  /\ crossed' = (crossed \/ c.crossed \/ ~c.live)
  /\ UNCHANGED <<served, changes, cfg, paired, guest, queue, accepted, again>>

Done(c) ==
  /\ Registers(c) /\ c.answer = "ok"
  /\ ShowsTo(c, Show("done", NoOne, Person(c)))

Goodbye(c) == c.kind = "checkout" /\ ShowsTo(c, Show("outdone", NoOne, NoOne))

Found(c) ==
  \/ /\ c.kind = "lookup" /\ ~Used(c.invite)
     /\ \E n \in {"checkin", "arrive"} : ShowsTo(c, Show(n, c.invite, NoOne))
  \/ c.answer = "incomplete" /\ ShowsTo(c, Show("checkin", c.invite, NoOne))

(* Outdated texts and a lost host reload the configuration first. *)
Reloads(c) ==
  /\ c.answer \in {"notice", "docs", "host"}
  /\ LET back == CASE c.answer = "notice" -> 2
                   [] c.answer = "docs" /\ c.texts.docs # 0 -> 3
                   [] OTHER -> 1
     IN  calls' = (calls \ {c}) \cup {Load(c.answer, c.by, c.live, back)}
  /\ UNCHANGED <<served, changes, cfg, paired, guest, queue, screen, form, crossed, accepted, missed, again>>

(* A request is refused or lost, or its answer is; one that was given up on *)
(* may still reach the server.                                              *)
Fails(c) ==
  /\ c.kind # "config" /\ c.answer \in {"none", "ok"}
  /\ \/ /\ calls' = calls \ {c}
        /\ missed' = IF c.answer = "ok" THEN missed \cup {Person(c)} ELSE missed
     \/ /\ Registers(c) /\ c.live /\ c.answer = "none"
        /\ calls' = (calls \ {c}) \cup Orphans({c})
        /\ missed' = missed \cup {Person(c)}
  /\ form' = IF c.kind = "checkin" /\ c.live THEN [form EXCEPT !.busy = FALSE] ELSE form
  /\ UNCHANGED <<served, changes, cfg, paired, guest, queue, screen, crossed, accepted, again>>

(* What the form that asked for the configuration does once it has it. *)
Reset(c, f) ==
  [f EXCEPT !.read = IF c.why = "notice" THEN 0 ELSE @,
            !.docsOk = IF c.why = "docs" THEN {} ELSE @,
            !.signed = FALSE, !.busy = FALSE, !.step = c.step]

(* History: the texts were replaced under a tick by anything but the form's *)
(* own answer to outdated texts.                                            *)
Swapped(f, new, why) ==
  [f EXCEPT !.swapped = \/ @
                         \/ (why # "notice" /\ f.read \notin {0, new.notice})
                         \/ (why = "refresh" /\ new.docs # cfg.docs)]

Loaded(c) ==
  /\ c.kind = "config"
  /\ calls' = calls \ {c}
  /\ cfg' \in {served, cfg}
  /\ form' = IF form = NoForm
               THEN IF cfg = NoConfig /\ Mounted(paired, cfg', screen) THEN NewForm ELSE NoForm
               ELSE LET f == Swapped(form, cfg', IF c.live THEN c.why ELSE "refresh")
                    IN  IF c.live THEN Reset(c, f) ELSE f
  /\ UNCHANGED <<served, changes, paired, guest, queue, screen, crossed, accepted, missed, again>>

(* The application is off, or the tablet revoked: every flow is unmounted, *)
(* the screen's name stays.                                                *)
Away(c) ==
  /\ c.kind = "config"
  /\ cfg' = NoConfig
  /\ paired' \in {paired, FALSE}
  /\ form' = NoForm
  /\ calls' = Orphans(calls \ {c})
  /\ missed' = missed \cup Waiting(calls)
  /\ UNCHANGED <<served, changes, guest, queue, screen, crossed, accepted, again>>

KioskNext ==
  \/ Cancel \/ Idle \/ StepsUp \/ Chooses
  \/ TicksNotice \/ TicksDocuments \/ Signs \/ Forward \/ Back
  \/ Submits \/ LooksUp \/ Confirms \/ Refreshes \/ Pairs \/ Publishes
  \/ \E c \in calls : 
       \/ Serves(c) \/ Done(c) \/ Goodbye(c) \/ Found(c)
       \/ Reloads(c) \/ Fails(c) \/ Loaded(c) \/ Away(c)

-----------------------------------------------------------------------------
(* The next guest never meets the form, the invitation or the badge of the  *)
(* one before, and no visit is signed with another person's invitation,     *)
(* unless an answer came whose flow had left the screen: the idle reset and *)
(* the buttons of the invitation screen forget a flow, never its request.   *)
GuestsKeptApart ==
  /\ \/ crossed
     \/ /\ {screen.invite, screen.result} \subseteq {guest, NoOne}
        /\ form # NoForm => form.by = guest
  /\ \A v \in accepted : v.own

(* The texts a visit registers as accepted are the ones that were on the    *)
(* screen when the guest ticked them, unless the configuration was replaced *)
(* under a ticked form by a slow refresh, an earlier guest's reload or the  *)
(* form's own reload for another reason.                                    *)
AcceptedWasShown == \A v \in accepted : v.shown

(* A person is registered twice only if the tablet never told her of the    *)
(* first time (its answer was lost or came after the reset), or a lookup    *)
(* given up came back over her badge and she confirmed that too.            *)
TwiceOnlyInSilence == again \subseteq missed

=============================================================================
