------------------------------- MODULE Texts -------------------------------
(***************************************************************************)
(* What a guest accepts.  The privacy notice of a country and the          *)
(* documents of a site are published in versions that never change; the    *)
(* tablet and the guest's phone show the ones they loaded; a check-in or a *)
(* pre-registration reads the notice, then the documents, then their       *)
(* texts, and refuses a screen that shows others.  A guest who registered  *)
(* from the phone is let in with what was accepted then, if it still       *)
(* covers what the site asks.                                              *)
(*                                                                         *)
(* One language stands for the languages: a document without a text in the *)
(* guest's one is read in another.                                         *)
(*                                                                         *)
(* A definition under a "Bug:" comment is not part of the specification:   *)
(* it is the definition that follows with a plausible mistake in it, which *)
(* the properties must notice.                                             *)
(***************************************************************************)
EXTENDS Integers

CONSTANTS
  Editors,      \* publications that may be in progress together
  Docs,         \* rows of the table site_documents
  MaxVersion    \* bound on the versions of a text

ASSUME TextsAssumption == MaxVersion \in Nat \ {0} /\ "none" \notin Editors \cup Docs

VARIABLES
  notice,     \* the last version in privacy_notices
  doc,        \* site_documents with the last version of each, 0 without a text
  screen,     \* what the tablet or the phone has loaded
  pre,        \* the pre-registration of the invitation
  guest,      \* the guest's request
  editor      \* the publications

textVars == <<notice, doc, screen, pre, guest, editor>>

Texts == Docs \X (1..MaxVersion)
Away == [op |-> "idle", pc |-> "idle", asked |-> {}, from |-> 0, always |-> {}, seen |-> {}]
Blank == [what |-> "none", last |-> 0]

\* asked: what the request has read; from: the notice when it began, seen: the texts
\* in force at some moment since, always: the documents in force all that time (history).
TextTypeOK ==
  /\ notice \in 1..MaxVersion
  /\ doc \in [Docs -> [row : {"absent", "active", "off"}, version : 0..MaxVersion]]
  /\ screen.notice \in 0..MaxVersion /\ screen.texts \subseteq Texts
  /\ pre.done \in BOOLEAN /\ pre.texts \subseteq Texts
  /\ guest.op \in {"idle", "checkin", "submit", "arrive"} /\ guest.pc \in {"idle", "notice", "docs", "texts", "persist"}
  /\ guest.asked \subseteq Docs /\ guest.from \in 0..MaxVersion /\ guest.always \subseteq Docs /\ guest.seen \subseteq Texts
  /\ editor \in [Editors -> [what : Docs \cup {"notice", "none"}, last : 0..MaxVersion]]

TextInit ==
  /\ notice = 1
  /\ doc = [d \in Docs |-> [row |-> "absent", version |-> 0]]
  /\ screen = [notice |-> 0, texts |-> {}]
  /\ pre = [done |-> FALSE, texts |-> {}]
  /\ guest = Away
  /\ editor = [e \in Editors |-> Blank]

\* Latest text of every active document; one without any text is not shown.
InForce(docs) == {<<d, docs[d].version>> : d \in {x \in Docs : docs[x].row = "active" /\ docs[x].version > 0}}
Named(texts) == {t[1] : t \in texts}

\* The guest's request notes what comes into force and what ceases to be.
Notes(docs) ==
  guest' = IF guest.op = "idle" THEN guest
           ELSE [guest EXCEPT !.seen = @ \cup InForce(docs), !.always = @ \cap Named(InForce(docs))]

-----------------------------------------------------------------------------
(* The console *)

PublishReads(e) ==
  /\ editor[e] = Blank
  /\ \E what \in Docs \cup {"notice"} :
       LET last == IF what = "notice" THEN notice ELSE doc[what].version IN
       /\ last < MaxVersion /\ (what \in Docs => doc[what].row # "absent")
       /\ editor' = [editor EXCEPT ![e] = [what |-> what, last |-> last]]
  /\ UNCHANGED <<notice, doc, screen, pre, guest>>

\* The version is unique: of two texts published at once the second is refused.
PublishInserts(e) ==
  LET what == editor[e].what
      last == editor[e].last
  IN
  /\ what # "none" /\ editor' = [editor EXCEPT ![e] = Blank]
  /\ \/ what = "notice" /\ notice' = (IF last = notice THEN last + 1 ELSE notice) /\ UNCHANGED doc
     \/ /\ what \in Docs /\ UNCHANGED notice
        /\ doc' = IF last = doc[what].version THEN [doc EXCEPT ![what].version = last + 1] ELSE doc
  /\ Notes(doc')
  /\ UNCHANGED <<screen, pre>>

DocCreated(d) ==
  /\ doc[d].row = "absent" /\ doc' = [doc EXCEPT ![d].row = "active"]
  /\ Notes(doc')
  /\ UNCHANGED <<notice, screen, pre, editor>>

DocSwitched(d) ==
  /\ doc[d].row # "absent"
  /\ doc' = [doc EXCEPT ![d].row = IF @ = "active" THEN "off" ELSE "active"]
  /\ Notes(doc')
  /\ UNCHANGED <<notice, screen, pre, editor>>

-----------------------------------------------------------------------------
(* The guest: one request after another *)

\* The tablet loads its configuration, or the guest opens the invitation.
Loads ==
  /\ guest.op = "idle"
  /\ screen' = [notice |-> notice, texts |-> InForce(doc)] /\ screen' # screen
  /\ UNCHANGED <<notice, doc, pre, guest, editor>>

\* A new invitation.
Invited == pre.done /\ guest.op = "idle" /\ pre' = [done |-> FALSE, texts |-> {}]
           /\ UNCHANGED <<notice, doc, screen, guest, editor>>

Enters(op, pc) ==
  /\ guest = Away
  /\ guest' = [op |-> op, pc |-> pc, asked |-> {}, from |-> notice, seen |-> InForce(doc), always |-> Named(InForce(doc))]
  /\ UNCHANGED <<notice, doc, screen, pre, editor>>

\* The guest signs for what the screen shows.
Submits == screen.notice > 0 /\ Enters("submit", "notice")
CheckIn == screen.notice > 0 /\ Enters("checkin", "notice")
Arrives == pre.done /\ Enters("arrive", "docs")

CurrentNotice == screen.notice = notice

ReadsNotice ==
  /\ guest.pc = "notice"
  /\ guest' = IF CurrentNotice THEN [guest EXCEPT !.pc = "docs"] ELSE Away
  /\ UNCHANGED <<notice, doc, screen, pre, editor>>

\* The documents in use at the site; their texts come with the next statement.
ReadsDocs ==
  /\ guest.pc = "docs"
  /\ guest' = [guest EXCEPT !.pc = "texts", !.asked = {d \in Docs : doc[d].row = "active"}]
  /\ UNCHANGED <<notice, doc, screen, pre, editor>>

Required == {<<d, doc[d].version>> : d \in {x \in guest.asked : doc[x].version > 0}}

\* Bug: it is enough to have accepted nothing else.
AcceptedSome(required, accepted) == accepted \subseteq required

\* Exactly the current texts.
AssertAccepted(required, accepted) == accepted = required

\* Every current document, in any version.
Covers(required, accepted) == Named(required) \subseteq Named(accepted)

\* What a policy asks for and the request does not carry refuses it, too.
ReadsTexts ==
  LET fits == IF guest.op = "arrive" THEN Covers(Required, pre.texts) ELSE AssertAccepted(Required, screen.texts) IN
  /\ guest.pc = "texts"
  /\ guest' \in {Away} \cup (IF fits THEN {[guest EXCEPT !.pc = "persist"]} ELSE {})
  /\ UNCHANGED <<notice, doc, screen, pre, editor>>

\* The visit, with the notice and the texts accepted; or the pre-registration.
Persists ==
  /\ guest.pc = "persist"
  /\ pre' = IF guest.op = "submit" THEN [done |-> TRUE, texts |-> screen.texts] ELSE pre
  /\ guest' = Away
  /\ UNCHANGED <<notice, doc, screen, editor>>

TextNext ==
  \/ \E d \in Docs : DocCreated(d) \/ DocSwitched(d)
  \/ \E e \in Editors : PublishReads(e) \/ PublishInserts(e)
  \/ Loads \/ Invited \/ Submits \/ CheckIn \/ Arrives
  \/ ReadsNotice \/ ReadsDocs \/ ReadsTexts \/ Persists

-----------------------------------------------------------------------------
(* Whatever is published while a guest signs, a check-in past its checks     *)
(* records a notice and texts each of which was in force at some moment of   *)
(* the request, and nobody enters without having accepted every document the *)
(* site asked for all that while; of a pre-registration, any version.        *)
AcceptedInForce ==
  guest.pc = "persist" =>
    LET accepted == IF guest.op = "arrive" THEN pre.texts ELSE screen.texts IN
    /\ guest.always \subseteq Named(accepted)
    /\ guest.op # "arrive" => screen.notice \in guest.from..notice /\ accepted \subseteq guest.seen
=============================================================================
