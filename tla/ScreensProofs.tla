---------------------------- MODULE ScreensProofs ----------------------------
(***************************************************************************)
(* Theorems about the screens people use, for any number of visitors,      *)
(* cards, badges, forms, requests under way and loads: what the tablet, the *)
(* guest's link, the reader at a door, the badge on a phone and in a        *)
(* browser, its invitations and the console promise to those at them.       *)
(*                                                                         *)
(* A step of one screen changes nothing of the others, so each has an       *)
(* invariant of its own that its steps preserve.                           *)
(***************************************************************************)
EXTENDS Screens, FiniteSetTheorems, SequenceTheorems, TLAPS

-----------------------------------------------------------------------------
(* The tablet *)

AnyOne == Visitors \cup {NoOne}
TabletTexts == [notice : Nat, docs : Nat]
TabletScreens == {"welcome", "checkin", "invite", "checkout", "arrive", "done", "outdone"}
ScreenState == [name : TabletScreens, invite : AnyOne, result : AnyOne]
FormState == [by : AnyOne, step : Nat, read : Nat, docsOk : SUBSET Nat, signed : BOOLEAN, busy : BOOLEAN,
              swapped : BOOLEAN]
CallKinds == {"checkin", "arrive", "checkout", "lookup", "config"}
CallState ==
  [kind : CallKinds, by : AnyOne, invite : AnyOne, texts : TabletTexts, shown : BOOLEAN,
   why : {"checkin", "arrive", "checkout", "lookup", "refresh", "notice", "docs", "host"},
   crossed : BOOLEAN, live : BOOLEAN, step : 0..3,
   answer : {"none", "ok", "notice", "docs", "host", "incomplete"}]

KioskTypeOK ==
  /\ served \in TabletTexts /\ served.notice > 0 /\ cfg \in TabletTexts /\ changes \in Nat
  /\ paired \in BOOLEAN /\ guest \in AnyOne /\ queue \subseteq Visitors
  /\ screen \in ScreenState /\ form \in FormState /\ calls \subseteq CallState /\ crossed \in BOOLEAN

\* A request whose screen is still there is of the guest at the tablet and of that screen,
\* and no screen waits for two answers of a registration.
LiveCall(c) ==
  c.live =>
    /\ c.by = guest
    /\ c.kind = "lookup" => screen.name = "invite"
    /\ c.kind \in {"arrive", "checkout"} => screen.name = c.kind
    /\ c.kind \in {"checkin", "config"} => form # NoForm /\ form.busy
    /\ c.kind = "config" => c.step > 0 /\ (c.step > 2 => c.why # "notice")
Flows == {"checkin", "config", "arrive"}
OneFlow == \A c, d \in calls : c.live /\ d.live /\ c.kind \in Flows /\ d.kind \in Flows => c = d

\* Whom a request is about, and what it may still say.
CallOK(c) ==
  /\ c.crossed \/ c.invite \in {c.by, NoOne}
  /\ c.shown
  /\ c.kind = "lookup" => c.invite = c.by
  /\ c.kind = "arrive" => c.crossed \/ c.invite = c.by
  /\ c.answer \in {"notice", "docs", "host"} => c.kind = "checkin"
  /\ c.answer = "incomplete" => c.kind = "arrive"
  /\ Registers(c) /\ ~c.live => Person(c) \in missed
  /\ Registers(c) /\ ~c.crossed /\ c.answer = "none" => Person(c) \notin Told
CallsOK == \A c \in calls : LiveCall(c) /\ CallOK(c)

\* What was ticked is the text in force at the tablet, unless it was replaced under the tick.
TickedOK(f, texts) ==
  /\ f.swapped \/ f.read \in {0, texts.notice}
  /\ f.step > 0
  /\ f.step > 2 => f.read # 0
  /\ f.step > 3 /\ texts.docs # 0 => f.swapped \/ texts.docs \in f.docsOk
  /\ f.busy => f.step > 2
FormOK == form # NoForm => screen.name = "checkin" /\ paired /\ cfg # NoConfig /\ TickedOK(form, cfg)

\* Until an answer crosses, the screen is its guest's, who is told of no registration yet but by
\* the answer on its way.
Awaited(p) == \E c \in calls : c.live /\ Registers(c) /\ c.answer = "ok" /\ Person(c) = p
ScreenOK ==
  ~crossed =>
    /\ {screen.invite, screen.result} \subseteq {guest, NoOne}
    /\ form # NoForm => form.by = guest
    /\ screen.name = "arrive" => screen.invite = guest
    /\ screen.name \in {"checkin", "invite", "arrive"} => guest \notin Told \/ Awaited(guest)

VisitsOK == again \subseteq missed /\ \A v \in accepted : v.own /\ v.shown

KioskInv == KioskTypeOK /\ OneFlow /\ CallsOK /\ FormOK /\ ScreenOK /\ VisitsOK

-----------------------------------------------------------------------------
LEMMA KioskRecords ==
  /\ Welcome \in ScreenState /\ Welcome.name = "welcome" /\ Welcome.invite = NoOne /\ Welcome.result = NoOne
  /\ NoForm \in FormState /\ ~NoForm.busy /\ NoConfig \in TabletTexts /\ NoConfig.notice = 0
  /\ \A n \in TabletScreens, i, r \in AnyOne :
       /\ Show(n, i, r) \in ScreenState
       /\ Show(n, i, r).name = n /\ Show(n, i, r).invite = i /\ Show(n, i, r).result = r
<1>1. \A n \in TabletScreens, i, r \in AnyOne :
        /\ Show(n, i, r) \in ScreenState
        /\ Show(n, i, r).name = n /\ Show(n, i, r).invite = i /\ Show(n, i, r).result = r
  BY DEF Show, ScreenState
<1>2. NoOne \in AnyOne /\ "welcome" \in TabletScreens
  BY DEF AnyOne, TabletScreens
<1>3. NoForm \in FormState /\ ~NoForm.busy
  BY <1>2 DEF NoForm, BlankForm, FormState
<1>4. NoConfig \in TabletTexts /\ NoConfig.notice = 0
  BY DEF NoConfig, TabletTexts
<1> QED
  BY <1>1, <1>2, <1>3, <1>4 DEF Welcome

LEMMA KioskBlank ==
  ASSUME guest \in AnyOne
  PROVE  /\ NewForm \in FormState /\ NewForm.by = guest /\ ~NewForm.busy /\ ~NewForm.swapped
         /\ NewForm.step = 1 /\ NewForm.read = 0
         /\ \A texts \in TabletTexts : TickedOK(NewForm, texts)
<1>1. /\ NewForm \in FormState /\ NewForm.by = guest /\ ~NewForm.busy /\ ~NewForm.swapped
      /\ NewForm.step = 1 /\ NewForm.read = 0
  BY DEF NewForm, BlankForm, FormState
<1> QED
  BY <1>1 DEF TickedOK

\* A request whose screen has gone is the same request.
LeftThere(c) == [c EXCEPT !.live = FALSE]
LEMMA KioskGone ==
  ASSUME NEW c \in CallState
  PROVE  /\ LeftThere(c) \in CallState /\ ~LeftThere(c).live
         /\ LeftThere(c).kind = c.kind /\ LeftThere(c).by = c.by /\ LeftThere(c).invite = c.invite /\ LeftThere(c).shown = c.shown
         /\ LeftThere(c).crossed = c.crossed /\ LeftThere(c).answer = c.answer
         /\ Person(LeftThere(c)) = Person(c) /\ (Registers(LeftThere(c)) <=> Registers(c))
<1>1. LeftThere(c) \in CallState
  BY DEF LeftThere, CallState
<1>2. /\ ~LeftThere(c).live
      /\ LeftThere(c).kind = c.kind /\ LeftThere(c).by = c.by /\ LeftThere(c).invite = c.invite /\ LeftThere(c).shown = c.shown
      /\ LeftThere(c).crossed = c.crossed /\ LeftThere(c).answer = c.answer
  BY DEF LeftThere, CallState
<1> QED
  BY <1>1, <1>2 DEF Person, Registers

LEMMA KioskCallKept ==
  ASSUME NEW c \in CallState, CallOK(c), Told' \subseteq Told, missed \subseteq missed'
  PROVE  CallOK(c)'
  BY DEF CallOK

LEMMA KioskCallGone ==
  ASSUME NEW c \in CallState, CallOK(c), Told' \subseteq Told, missed \subseteq missed',
         c.live /\ Registers(c) => Person(c) \in missed'
  PROVE  CallOK(LeftThere(c))' /\ LiveCall(LeftThere(c))'
<1>1. Registers(c) => Person(c) \in missed'
  BY DEF CallOK
<1> QED
  BY <1>1, KioskGone DEF CallOK, LiveCall

LEMMA KioskOrphans ==
  ASSUME NEW cs \in SUBSET CallState, \A c \in cs : CallOK(c),
         Told' \subseteq Told, missed \subseteq missed', Waiting(cs) \subseteq missed'
  PROVE  /\ Orphans(cs) \subseteq CallState
         /\ \A o \in Orphans(cs) : ~o.live /\ CallOK(o)' /\ LiveCall(o)'
<1> SUFFICES ASSUME NEW o \in Orphans(cs)
             PROVE  o \in CallState /\ ~o.live /\ CallOK(o)' /\ LiveCall(o)'
  OBVIOUS
<1>1. PICK c \in cs : o = LeftThere(c)
  BY DEF Orphans, LeftThere
<1>2. c.live /\ Registers(c) => Person(c) \in missed'
  BY DEF Waiting
<1> QED
  BY <1>1, <1>2, KioskCallGone, KioskGone

LEMMA KioskTold ==
  ASSUME accepted' = accepted, missed \subseteq missed'
  PROVE  Told' \subseteq Told
  BY DEF Told

\* Which screen a request under way belongs to.
LEMMA KioskFlows ==
  ASSUME KioskInv
  PROVE  /\ screen.name # "checkin" => form = NoForm
         /\ \A c \in calls : c.live =>
              /\ Registers(c) => screen.name = c.kind
              /\ c.kind = "config" => screen.name = "checkin"
              /\ c.kind = "lookup" => screen.name = "invite"
              /\ c.kind = "checkout" => screen.name = "checkout"
         /\ screen.name \in {"welcome", "done", "outdone"} => \A c \in calls : ~c.live
         /\ screen.name = "invite" => ~Awaited(guest)
<1>1. screen.name # "checkin" => form = NoForm
  BY DEF KioskInv, FormOK
<1>2. ASSUME NEW c \in calls, c.live
      PROVE  /\ Registers(c) => screen.name = c.kind
             /\ c.kind = "config" => screen.name = "checkin"
             /\ c.kind = "lookup" => screen.name = "invite"
             /\ c.kind = "checkout" => screen.name = "checkout"
  BY <1>1, <1>2 DEF KioskInv, CallsOK, LiveCall, Registers
<1>3. \A c \in calls : c.kind \in CallKinds
  BY DEF KioskInv, KioskTypeOK, CallState
<1>4. ASSUME NEW c \in calls, c.live PROVE screen.name \in {"checkin", "arrive", "invite", "checkout"}
  BY <1>2, <1>3, <1>4 DEF CallKinds, Registers
<1>5. screen.name = "invite" => ~Awaited(guest)
  BY <1>2 DEF Awaited, Registers
<1> QED
  BY <1>1, <1>2, <1>4, <1>5

\* A screen is left for another: its flow is forgotten, its requests are not.
LEMMA KioskLeaves ==
  ASSUME KioskInv, NEW cs \in SUBSET calls, NEW to \in ScreenState, Leave(cs, to),
         UNCHANGED <<served, changes, cfg, paired, guest, queue, accepted, again>>, crossed' \in BOOLEAN,
         ~crossed' =>
           /\ {to.invite, to.result} \subseteq {guest, NoOne}
           /\ to.name = "arrive" => to.invite = guest
           /\ to.name \in {"checkin", "invite", "arrive"} => guest \notin Told
  PROVE  KioskInv'
<1>1. KioskTypeOK /\ cs \subseteq CallState /\ guest \in AnyOne /\ cfg \in TabletTexts
  BY DEF KioskInv, KioskTypeOK
<1>2. missed \subseteq missed' /\ Waiting(cs) \subseteq missed' /\ Told' \subseteq Told
  BY KioskTold DEF Leave
<1>3. \A c \in cs : CallOK(c)
  BY DEF KioskInv, CallsOK
<1>4. /\ calls' = Orphans(cs) /\ calls' \subseteq CallState
      /\ \A o \in calls' : ~o.live /\ CallOK(o)' /\ LiveCall(o)'
  BY <1>1, <1>2, <1>3, KioskOrphans DEF Leave
<1>5. CallsOK' /\ OneFlow'
  BY <1>4 DEF CallsOK, OneFlow
<1>6. /\ screen' = to /\ form' = IF Mounted(paired, cfg, to) THEN NewForm ELSE NoForm
      /\ form' \in FormState
  BY <1>1, KioskBlank, KioskRecords DEF Leave
<1>7. KioskTypeOK'
  BY <1>1, <1>4, <1>6 DEF KioskTypeOK
<1>8. FormOK'
  BY <1>1, <1>6, KioskBlank DEF FormOK, Mounted
<1>9. ScreenOK'
  BY <1>1, <1>2, <1>6, KioskBlank DEF ScreenOK
<1>10. VisitsOK'
  BY <1>2 DEF KioskInv, VisitsOK
<1> QED
  BY <1>5, <1>7, <1>8, <1>9, <1>10 DEF KioskInv

\* Requests leave, and nothing else changes but who was told.
LEMMA KioskShows ==
  ASSUME KioskInv, NEW c \in calls, NEW to \in ScreenState, ShowsTo(c, to),
         c.live /\ ~c.crossed /\ ~crossed =>
           /\ {to.invite, to.result} \subseteq {guest, NoOne}
           /\ to.name = "arrive" => to.invite = guest
           /\ to.name \in {"checkin", "invite", "arrive"} => guest \notin Told
           /\ to.name = "checkin" => screen.name # "checkin"
  PROVE  KioskInv'
<1>1. KioskTypeOK /\ crossed \in BOOLEAN /\ c.crossed \in BOOLEAN /\ c.live \in BOOLEAN
  BY DEF KioskInv, KioskTypeOK, CallState
<1>2. /\ crossed' = (crossed \/ c.crossed \/ ~c.live) /\ crossed' \in BOOLEAN
      /\ UNCHANGED <<served, changes, cfg, paired, guest, queue, accepted, again>>
  BY <1>1 DEF ShowsTo
<1>3. CASE to.name = "checkin" /\ screen.name = "checkin" /\ form # NoForm
  <2>1. screen' = to /\ calls' = calls \ {c} /\ UNCHANGED <<form, missed>> /\ crossed'
    BY <1>1, <1>2, <1>3 DEF ShowsTo
  <2>2. Told' = Told
    BY <1>2, <2>1 DEF Told
  <2>3. ASSUME NEW d \in calls' PROVE LiveCall(d)' /\ CallOK(d)'
    <3>1. d \in calls /\ d \in CallState /\ LiveCall(d) /\ CallOK(d)
      BY <2>1 DEF KioskInv, CallsOK, KioskTypeOK
    <3>2. CallOK(d)'
      BY <3>1, <2>1, <2>2, KioskCallKept
    <3>3. LiveCall(d)'
      BY <3>1, <2>1, <1>2, <1>3 DEF LiveCall
    <3> QED
      BY <3>2, <3>3
  <2>4. CallsOK' /\ OneFlow'
    BY <2>1, <2>3 DEF CallsOK, OneFlow, KioskInv
  <2>5. KioskTypeOK'
    BY <1>1, <1>2, <2>1 DEF KioskTypeOK
  <2>6. FormOK'
    BY <1>2, <1>3, <2>1 DEF FormOK, KioskInv
  <2>7. ScreenOK' /\ VisitsOK'
    BY <1>2, <2>1 DEF ScreenOK, VisitsOK, KioskInv
  <2> QED
    BY <2>4, <2>5, <2>6, <2>7 DEF KioskInv
<1>4. CASE ~(to.name = "checkin" /\ screen.name = "checkin" /\ form # NoForm)
  <2>1. Leave(calls \ {c}, to)
    BY <1>4 DEF ShowsTo
  <2>2. /\ calls \ {c} \in SUBSET calls
        /\ ~crossed' =>
             /\ {to.invite, to.result} \subseteq {guest, NoOne}
             /\ to.name = "arrive" => to.invite = guest
             /\ to.name \in {"checkin", "invite", "arrive"} => guest \notin Told
    BY <1>1, <1>2
  <2> QED
    BY <1>2, <2>1, <2>2, KioskLeaves
<1> QED
  BY <1>3, <1>4

LEMMA KioskGoes ==
  ASSUME KioskInv, Cancel \/ Idle \/ StepsUp \/ Chooses
  PROVE  KioskInv'
<1>1. KioskTypeOK /\ guest \in AnyOne /\ NoOne \in AnyOne
  BY DEF KioskInv, KioskTypeOK, AnyOne
<1>2. CASE GoHome
  <2>1. /\ Leave(calls, Welcome) /\ crossed' = FALSE
        /\ UNCHANGED <<served, changes, cfg, paired, guest, queue, accepted, again>>
    BY <1>2 DEF GoHome
  <2>2. /\ {Welcome.invite, Welcome.result} \subseteq {guest, NoOne}
        /\ Welcome.name \notin {"checkin", "invite", "arrive"} /\ Welcome \in ScreenState
        /\ calls \in SUBSET calls /\ crossed' \in BOOLEAN
    BY <2>1, KioskRecords
  <2> QED
    BY <2>1, <2>2, KioskLeaves
<1>3. CASE StepsUp
  <2>1. /\ screen = Welcome /\ guest' \in queue /\ queue' \subseteq queue
        /\ UNCHANGED <<served, changes, cfg, paired, screen, form, calls, crossed, accepted, missed, again>>
    BY <1>3 DEF StepsUp
  <2>2. screen.name = "welcome" /\ screen.invite = NoOne /\ screen.result = NoOne
    BY <2>1, KioskRecords
  <2>3. form = NoForm /\ \A c \in calls : ~c.live
    BY <2>2, KioskFlows
  <2>4. KioskTypeOK'
    BY <2>1, <1>1 DEF KioskTypeOK, AnyOne
  <2>5. Told' = Told
    BY <2>1 DEF Told
  <2>6. ASSUME NEW c \in calls' PROVE LiveCall(c)' /\ CallOK(c)'
    <3>1. c \in calls /\ c \in CallState /\ ~c.live /\ CallOK(c)
      BY <2>1, <2>3 DEF KioskInv, CallsOK, KioskTypeOK
    <3> QED
      BY <3>1, <2>1, <2>5, KioskCallKept DEF LiveCall
  <2>7. CallsOK' /\ OneFlow'
    BY <2>1, <2>3, <2>6 DEF CallsOK, OneFlow
  <2>8. FormOK' /\ ScreenOK' /\ VisitsOK'
    BY <2>1, <2>2, <2>3 DEF FormOK, ScreenOK, VisitsOK, KioskInv
  <2> QED
    BY <2>4, <2>7, <2>8 DEF KioskInv
<1>4. CASE Chooses
  <2>1. /\ UNCHANGED <<served, changes, cfg, paired, guest, queue, crossed, accepted, again>>
        /\ crossed \in BOOLEAN /\ calls \in SUBSET calls
    BY <1>1, <1>4 DEF Chooses, KioskTypeOK
  <2>2. ASSUME NEW n \in TabletScreens, Leave(calls, Show(n, NoOne, NoOne)), n # "arrive",
               ~crossed /\ n \in {"checkin", "invite"} => guest \notin Told
        PROVE  KioskInv'
    <3> DEFINE to == Show(n, NoOne, NoOne)
    <3>1. to \in ScreenState /\ to.name = n /\ to.invite = NoOne /\ to.result = NoOne
      BY <1>1, KioskRecords
    <3>2. /\ Leave(calls, to)
          /\ crossed' \in BOOLEAN
          /\ ~crossed' =>
               /\ {to.invite, to.result} \subseteq {guest, NoOne}
               /\ to.name = "arrive" => to.invite = guest
               /\ to.name \in {"checkin", "invite", "arrive"} => guest \notin Told
      BY <2>1, <2>2, <3>1
    <3> HIDE DEF to
    <3> QED
      BY <2>1, <3>1, <3>2, KioskLeaves
  <2>3. CASE screen = Welcome
    <3>1. screen.name # "invite"
      BY <2>3, KioskRecords
    <3>2. PICK n \in IF guest \in Told THEN {"checkout"} ELSE {"checkin", "invite", "checkout"} :
            Leave(calls, Show(n, NoOne, NoOne))
      BY <1>4, <3>1 DEF Chooses
    <3> QED
      BY <2>2, <3>2 DEF TabletScreens
  <2>4. CASE screen.name = "invite"
    <3>1. Leave(calls, Show("checkin", NoOne, NoOne))
      BY <1>4, <2>4, KioskRecords DEF Chooses
    <3>2. ~crossed => guest \notin Told
      BY <2>4, KioskFlows DEF KioskInv, ScreenOK
    <3> QED
      BY <2>2, <3>1, <3>2 DEF TabletScreens
  <2> QED
    BY <1>4, <2>3, <2>4 DEF Chooses
<1> QED
  BY <1>2, <1>3, <1>4 DEF Cancel, Idle

LEMMA KioskKeys ==
  ASSUME form.step \in Nat, form.step > 0
  PROVE  /\ Len(Steps) = (IF cfg.docs = 0 THEN 3 ELSE 4)
         /\ form.step = 2 <=> Key = "notice"
         /\ form.step = 3 /\ cfg.docs # 0 => Key = "docs"
<1>1. CASE cfg.docs = 0
  <2>1. Steps = <<"details", "notice", "sign">>
    BY <1>1 DEF Steps
  <2>2. Len(Steps) = 3 /\ Steps[1] = "details" /\ Steps[2] = "notice" /\ Steps[3] = "sign"
    BY <2>1
  <2>3. form.step > 3 \/ form.step = 1 \/ form.step = 2 \/ form.step = 3
    OBVIOUS
  <2> QED
    BY <1>1, <2>2, <2>3 DEF Key
<1>2. CASE cfg.docs # 0
  <2>1. Steps = <<"details", "notice", "docs", "sign">>
    BY <1>2 DEF Steps
  <2>2. Len(Steps) = 4 /\ Steps[1] = "details" /\ Steps[2] = "notice" /\ Steps[3] = "docs" /\ Steps[4] = "sign"
    BY <2>1
  <2>3. form.step > 4 \/ form.step = 1 \/ form.step = 2 \/ form.step = 3 \/ form.step = 4
    OBVIOUS
  <2> QED
    BY <1>2, <2>2, <2>3 DEF Key
<1> QED
  BY <1>1, <1>2

\* At a form that waits for no answer.
LEMMA KioskAtForm ==
  ASSUME KioskInv, AtForm
  PROVE  /\ form \in FormState /\ cfg \in TabletTexts /\ TickedOK(form, cfg) /\ form.step \in Nat /\ form.step > 0
         /\ paired /\ cfg # NoConfig /\ screen.name = "checkin"
         /\ \A c \in calls : c.live => c.kind \notin Flows
         /\ ~crossed => guest \notin Told
<1>1. /\ form \in FormState /\ cfg \in TabletTexts /\ TickedOK(form, cfg) /\ form.step \in Nat /\ form.step > 0
      /\ paired /\ cfg # NoConfig /\ screen.name = "checkin"
  BY DEF KioskInv, KioskTypeOK, AtForm, FormOK, TickedOK, FormState
<1>2. \A c \in calls : c.live => c.kind \notin Flows
  BY <1>1 DEF KioskInv, CallsOK, LiveCall, AtForm, Flows
<1>3. ~crossed => guest \notin Told
  BY <1>1, <1>2 DEF KioskInv, ScreenOK, Awaited, Registers, Flows
<1> QED
  BY <1>1, <1>2, <1>3

LEMMA KioskFilled ==
  ASSUME KioskInv, AtForm, Fills(form'), form' \in FormState, form'.by = form.by, ~form'.busy,
         TickedOK(form', cfg)
  PROVE  KioskInv'
<1>1. UNCHANGED <<served, changes, cfg, paired, guest, queue, screen, calls, crossed, accepted, missed, again>>
  BY DEF Fills
<1>2. Told' = Told /\ KioskTypeOK /\ KioskTypeOK'
  BY <1>1 DEF Told, KioskInv, KioskTypeOK
<1>3. ASSUME NEW c \in calls' PROVE LiveCall(c)' /\ CallOK(c)'
  <2>1. c \in calls /\ c \in CallState /\ LiveCall(c) /\ CallOK(c) /\ (c.live => c.kind \notin Flows)
    BY <1>1, <1>2, KioskAtForm DEF KioskInv, CallsOK, KioskTypeOK
  <2>2. CallOK(c)'
    BY <2>1, <1>1, <1>2, KioskCallKept
  <2> QED
    BY <2>1, <2>2, <1>1 DEF LiveCall, Flows
<1>4. CallsOK' /\ OneFlow'
  BY <1>1, <1>3 DEF CallsOK, OneFlow, KioskInv
<1>5. FormOK'
  BY <1>1, KioskAtForm DEF FormOK
<1>6. form # NoForm
  BY DEF AtForm
<1>7. Awaited(guest)' = Awaited(guest)
  BY <1>1 DEF Awaited
<1>8. ScreenOK' /\ VisitsOK'
  BY <1>1, <1>2, <1>6, <1>7 DEF ScreenOK, VisitsOK, KioskInv
<1> QED
  BY <1>2, <1>4, <1>5, <1>8 DEF KioskInv

LEMMA KioskTurned ==
  ASSUME KioskInv, AtForm, Fills(form'), NEW k \in Nat, form' = [form EXCEPT !.step = k],
         k > 0, k > 2 => form.read # 0,
         k > 3 /\ cfg.docs # 0 => form.swapped \/ cfg.docs \in form.docsOk
  PROVE  KioskInv'
<1>1. form \in FormState /\ TickedOK(form, cfg) /\ ~form.busy
  BY KioskAtForm DEF AtForm
<1>2. form' \in FormState
  BY <1>1 DEF FormState
<1>3. /\ form'.by = form.by /\ ~form'.busy /\ form'.step = k /\ form'.read = form.read
      /\ form'.swapped = form.swapped /\ form'.docsOk = form.docsOk
  BY <1>1 DEF FormState
<1>4. TickedOK(form', cfg)
  BY <1>1, <1>3 DEF TickedOK
<1> QED
  BY <1>2, <1>3, <1>4, KioskFilled

LEMMA KioskFills ==
  ASSUME KioskInv, TicksNotice \/ TicksDocuments \/ Signs \/ Forward \/ Back
  PROVE  KioskInv'
<1>1. AtForm /\ ~form.busy
  BY DEF TicksNotice, TicksDocuments, Signs, Forward, Back, AtForm
<1>2. /\ form \in FormState /\ cfg \in TabletTexts /\ TickedOK(form, cfg) /\ form.step \in Nat /\ form.step > 0
      /\ cfg.notice \in Nat /\ cfg.docs \in Nat /\ form.read \in Nat /\ form.docsOk \subseteq Nat
  BY <1>1, KioskAtForm DEF FormState, TabletTexts
<1>3. CASE TicksNotice
  <2>1. form' = [form EXCEPT !.read = IF @ = 0 THEN cfg.notice ELSE 0, !.swapped = FALSE] /\ Fills(form')
    BY <1>3 DEF TicksNotice, Fills
  <2>2. form' \in FormState
    BY <1>2, <2>1 DEF FormState
  <2>3. /\ form'.by = form.by /\ ~form'.busy /\ form'.step = form.step /\ form'.read \in {0, cfg.notice}
    BY <1>1, <1>2, <2>1 DEF FormState
  <2>4. form.step = 2
    BY <1>2, <1>3, KioskKeys DEF TicksNotice
  <2>5. TickedOK(form', cfg)
    BY <2>3, <2>4 DEF TickedOK
  <2> QED
    BY <1>1, <2>1, <2>2, <2>3, <2>5, KioskFilled
<1>4. CASE TicksDocuments
  <2>1. form' = [form EXCEPT !.docsOk = @ \cup {cfg.docs}] /\ Fills(form')
    BY <1>4 DEF TicksDocuments, Fills
  <2>2. form' \in FormState
    BY <1>2, <2>1 DEF FormState
  <2>3. /\ form'.by = form.by /\ ~form'.busy /\ form'.step = form.step /\ form'.read = form.read
        /\ form'.swapped = form.swapped /\ cfg.docs \in form'.docsOk
    BY <1>1, <1>2, <2>1 DEF FormState
  <2>4. TickedOK(form', cfg)
    BY <1>2, <2>3 DEF TickedOK
  <2> QED
    BY <1>1, <2>1, <2>2, <2>3, <2>4, KioskFilled
<1>5. CASE Signs
  <2>1. form' = [form EXCEPT !.signed = TRUE] /\ Fills(form')
    BY <1>5 DEF Signs, Fills
  <2>2. form' \in FormState
    BY <1>2, <2>1 DEF FormState
  <2>3. /\ form'.by = form.by /\ ~form'.busy /\ form'.step = form.step /\ form'.read = form.read
        /\ form'.swapped = form.swapped /\ form'.docsOk = form.docsOk
    BY <1>1, <1>2, <2>1 DEF FormState
  <2>4. TickedOK(form', cfg)
    BY <1>2, <2>3 DEF TickedOK
  <2> QED
    BY <1>1, <2>1, <2>2, <2>3, <2>4, KioskFilled
<1>6. CASE Forward
  <2>1. CanNext /\ form.step < Len(Steps) /\ form.step + 1 \in Nat /\ form' = [form EXCEPT !.step = form.step + 1]
    BY <1>2, <1>6 DEF Forward, Fills
  <2>2. form.step = 2 => form.read # 0
    BY <2>1, <1>2, KioskKeys DEF CanNext
  <2>3. form.step = 3 /\ cfg.docs # 0 => cfg.docs \in form.docsOk
    BY <2>1, <1>2, KioskKeys DEF CanNext
  <2>4. Len(Steps) = IF cfg.docs = 0 THEN 3 ELSE 4
    BY <1>2, KioskKeys
  <2>5. form.step < 4 /\ (form.step = 3 => cfg.docs # 0)
    BY <2>1, <2>4, <1>2
  <2>6. /\ form.step + 1 > 0 /\ (form.step + 1 > 2 => form.read # 0)
        /\ form.step + 1 > 3 /\ cfg.docs # 0 => form.swapped \/ cfg.docs \in form.docsOk
    BY <1>2, <2>2, <2>3, <2>5 DEF TickedOK
  <2>7. Fills(form')
    BY <1>6 DEF Forward, Fills
  <2> QED
    BY <1>1, <2>1, <2>6, <2>7, KioskTurned
<1>7. CASE Back
  <2>1. form.step > 1 /\ form.step - 1 \in Nat /\ form' = [form EXCEPT !.step = form.step - 1]
    BY <1>2, <1>7 DEF Back, Fills
  <2>2. /\ form.step - 1 > 0 /\ (form.step - 1 > 2 => form.read # 0)
        /\ form.step - 1 > 3 /\ cfg.docs # 0 => form.swapped \/ cfg.docs \in form.docsOk
    BY <1>2, <2>1 DEF TickedOK
  <2>3. Fills(form')
    BY <1>7 DEF Back, Fills
  <2> QED
    BY <1>1, <2>1, <2>2, <2>3, KioskTurned
<1> QED
  BY <1>3, <1>4, <1>5, <1>6, <1>7

\* What a guest may ask: every request names texts that were on the screen.
Asked(kind, invite) == Call(kind, invite, TRUE)
LEMMA KioskAsked ==
  ASSUME KioskTypeOK, NEW k \in {"checkin", "arrive", "checkout", "lookup"}, NEW i \in AnyOne,
         NEW c, c = Asked(k, i)
  PROVE  /\ c \in CallState /\ c.kind = k /\ c.by = guest /\ c.invite = i /\ c.shown
         /\ c.crossed = crossed /\ c.live /\ c.answer = "none"
<1>1. guest \in AnyOne /\ cfg \in TabletTexts /\ crossed \in BOOLEAN /\ NoConfig \in TabletTexts
  BY KioskRecords DEF KioskTypeOK
<1>2. (IF k = "checkin" THEN cfg ELSE NoConfig) \in TabletTexts
  BY <1>1
<1>3. k \in CallKinds /\ 0 \in 0..3
  BY DEF CallKinds
<1> QED
  BY <1>1, <1>2, <1>3 DEF Asked, Call, CallState

LEMMA KioskLoad ==
  ASSUME NEW why \in {"refresh", "notice", "docs", "host"}, NEW by \in AnyOne, NEW live \in BOOLEAN, NEW step \in 0..3
  PROVE  LET c == Load(why, by, live, step)
         IN  /\ c \in CallState /\ c.kind = "config" /\ c.by = by /\ c.live = live /\ c.step = step /\ c.why = why
             /\ CallOK(c)
<1>1. NoOne \in AnyOne /\ NoConfig \in TabletTexts /\ "config" \in CallKinds
  BY KioskRecords DEF AnyOne, CallKinds
<1>2. Load(why, by, live, step) \in CallState
  BY <1>1 DEF Load, CallState
<1>3. CallOK(Load(why, by, live, step))
  BY <1>1 DEF CallOK, Registers, Load
<1> QED
  BY <1>2, <1>3 DEF Load

LEMMA KioskRefresh ==
  LET c == Load("refresh", NoOne, FALSE, 0) IN c \in CallState /\ ~c.live /\ CallOK(c)
<1>1. NoOne \in AnyOne /\ NoConfig \in TabletTexts /\ "config" \in CallKinds
  BY KioskRecords DEF AnyOne, CallKinds
<1>2. Load("refresh", NoOne, FALSE, 0) \in CallState
  BY <1>1 DEF Load, CallState
<1>3. CallOK(Load("refresh", NoOne, FALSE, 0)) /\ ~Load("refresh", NoOne, FALSE, 0).live
  BY <1>1 DEF CallOK, Registers, Load
<1> QED
  BY <1>2, <1>3

\* One more request is under way.
LEMMA KioskSent ==
  ASSUME KioskInv, NEW c \in CallState, calls' = calls \cup {c},
         UNCHANGED <<served, changes, cfg, guest, queue, screen, crossed, accepted, missed, again>>,
         paired' \in BOOLEAN, form' \in FormState, FormOK', ~crossed /\ form' # NoForm => form'.by = guest,
         \A d \in calls : d.live /\ d.kind \in {"checkin", "config"} => form' = form,
         CallOK(c), LiveCall(c)',
         c.live /\ c.kind \in Flows => \A d \in calls : d.live => d.kind \notin Flows
  PROVE  KioskInv'
<1>1. Told' = Told /\ KioskTypeOK
  BY DEF Told, KioskInv
<1>2. KioskTypeOK'
  BY <1>1 DEF KioskTypeOK
<1>3. ASSUME NEW d \in calls PROVE LiveCall(d)' /\ CallOK(d)'
  <2>1. d \in CallState /\ LiveCall(d) /\ CallOK(d)
    BY <1>1 DEF KioskInv, CallsOK, KioskTypeOK
  <2>2. CallOK(d)'
    BY <2>1, <1>1, KioskCallKept
  <2> QED
    BY <2>1, <2>2 DEF LiveCall
<1>4. CallOK(c)'
  BY <1>1, KioskCallKept
<1>5. CallsOK'
  BY <1>3, <1>4 DEF CallsOK
<1>6. OneFlow'
  BY DEF OneFlow, KioskInv
<1>7. Awaited(guest) => Awaited(guest)'
  BY DEF Awaited
<1>8. ScreenOK'
  BY <1>1, <1>7 DEF ScreenOK, KioskInv
<1>9. VisitsOK'
  BY DEF VisitsOK, KioskInv
<1> QED
  BY <1>2, <1>5, <1>6, <1>8, <1>9 DEF KioskInv

LEMMA KioskSubmits ==
  ASSUME KioskInv, Submits
  PROVE  KioskInv'
<1> DEFINE shown == TextsWereShown \/ form.swapped
<1>1. AtForm /\ CanNext /\ form.step >= Len(Steps)
  BY DEF Submits, MaySubmit
<1>2. /\ form \in FormState /\ cfg \in TabletTexts /\ TickedOK(form, cfg) /\ form.step \in Nat /\ form.step > 0
      /\ paired /\ cfg # NoConfig /\ screen.name = "checkin"
      /\ (\A d \in calls : d.live => d.kind \notin Flows) /\ (~crossed => guest \notin Told)
  BY <1>1, KioskAtForm
<1>3. /\ KioskTypeOK /\ screen \in ScreenState /\ screen.invite \in AnyOne /\ ~form.busy /\ form # NoForm
      /\ shown \in BOOLEAN
  BY <1>1 DEF KioskInv, KioskTypeOK, ScreenState, AtForm, FormState, TextsWereShown
<1>4. Len(Steps) = IF cfg.docs = 0 THEN 3 ELSE 4
  BY <1>2, KioskKeys
<1>5. form.step > 2 /\ (cfg.docs # 0 => form.step > 3)
  BY <1>1, <1>2, <1>4
<1>6. shown
  <2>1. form.swapped \/ form.read = cfg.notice
    BY <1>2, <1>5 DEF TickedOK
  <2>2. form.swapped \/ cfg.docs \in form.docsOk \cup {0}
    BY <1>2, <1>5 DEF TickedOK
  <2> QED
    BY <2>1, <2>2 DEF TextsWereShown
<1>7. PICK i \in AnyOne : i = screen.invite
  BY <1>3
<1>8. PICK c : c = Asked("checkin", i)
  OBVIOUS
<1>20. /\ c \in CallState /\ c.kind = "checkin" /\ c.by = guest /\ c.invite = screen.invite /\ c.shown
       /\ c.crossed = crossed /\ c.live /\ c.answer = "none"
  BY <1>3, <1>7, <1>8, KioskAsked
<1>21. /\ calls' = calls \cup {c} /\ form' = [form EXCEPT !.busy = TRUE]
       /\ UNCHANGED <<served, changes, cfg, paired, guest, queue, screen, crossed, accepted, missed, again>>
  <2>1. shown = TRUE
    BY <1>6
  <2>2. Sends(Call("checkin", screen.invite, shown)) /\ form' = [form EXCEPT !.busy = TRUE]
    BY DEF Submits
  <2> HIDE DEF shown
  <2> QED
    BY <1>7, <1>8, <2>1, <2>2 DEF Sends, Asked
<1>9. form' \in FormState
  BY <1>2, <1>21 DEF FormState
<1>10. /\ form'.busy /\ form'.by = form.by /\ form'.step = form.step /\ form'.read = form.read
       /\ form'.swapped = form.swapped /\ form'.docsOk = form.docsOk
  BY <1>2, <1>21 DEF FormState
<1>11. form' # NoForm /\ TickedOK(form', cfg)
  BY <1>2, <1>5, <1>10, KioskRecords DEF TickedOK
<1>12. FormOK'
  BY <1>2, <1>21, <1>11 DEF FormOK
<1>13. Registers(c) /\ Person(c) = guest
  BY <1>20 DEF Registers, Person
<1>14. ~crossed => form.by = guest /\ screen.invite \in {guest, NoOne}
  BY <1>3 DEF KioskInv, ScreenOK
<1>15. CallOK(c)
  BY <1>2, <1>6, <1>20, <1>13, <1>14 DEF CallOK
<1>16. LiveCall(c)'
  <2>1. c.kind # "lookup" /\ c.kind # "arrive" /\ c.kind # "checkout" /\ c.kind # "config" /\ guest' = guest
    BY <1>20, <1>21
  <2> QED
    BY <1>20, <2>1, <1>10, <1>11 DEF LiveCall
<1>17. \A d \in calls : d.live /\ d.kind \in {"checkin", "config"} => form' = form
  BY <1>2 DEF Flows
<1>18. paired' \in BOOLEAN /\ (~crossed /\ form' # NoForm => form'.by = guest)
       /\ (c.live /\ c.kind \in Flows => \A d \in calls : d.live => d.kind \notin Flows)
  BY <1>2, <1>3, <1>21, <1>10, <1>14 DEF KioskTypeOK
<1>19. /\ calls' = calls \cup {c} /\ c \in CallState
       /\ UNCHANGED <<served, changes, cfg, guest, queue, screen, crossed, accepted, missed, again>>
  BY <1>20, <1>21
<1> QED
  BY <1>9, <1>12, <1>15, <1>16, <1>17, <1>18, <1>19, KioskSent

LEMMA KioskAsks ==
  ASSUME KioskInv, LooksUp \/ Confirms \/ Refreshes \/ Pairs
  PROVE  KioskInv'
<1>1. /\ KioskTypeOK /\ screen \in ScreenState /\ screen.invite \in AnyOne /\ guest \in AnyOne /\ NoOne \in AnyOne
      /\ form \in FormState /\ cfg \in TabletTexts
  BY DEF KioskInv, KioskTypeOK, ScreenState, AnyOne
<1>2. /\ FormOK /\ paired \in BOOLEAN /\ (~crossed /\ form # NoForm => form.by = guest)
  BY DEF KioskInv, ScreenOK, KioskTypeOK
<1>3. ASSUME NEW c \in CallState, Sends(c), UNCHANGED form, CallOK(c), LiveCall(c),
             c.live /\ c.kind \in Flows => \A d \in calls : d.live => d.kind \notin Flows
      PROVE  KioskInv'
  <2>1. calls' = calls \cup {c}
        /\ UNCHANGED <<served, changes, cfg, paired, guest, queue, screen, form, crossed, accepted, missed, again>>
    BY <1>3 DEF Sends
  <2>2. FormOK' /\ LiveCall(c)'
    BY <1>2, <1>3, <2>1 DEF FormOK, LiveCall
  <2> QED
    BY <1>1, <1>2, <1>3, <2>1, <2>2, KioskSent
<1>4. CASE LooksUp
  <2> PICK i : i = guest
    OBVIOUS
  <2> PICK c : c = Asked("lookup", i)
    OBVIOUS
  <2>1. /\ c \in CallState /\ c.kind = "lookup" /\ c.by = guest /\ c.invite = guest /\ c.shown
        /\ c.crossed = crossed /\ c.live /\ c.answer = "none"
    BY <1>1, KioskAsked
  <2>2. Sends(c) /\ UNCHANGED form /\ screen.name = "invite"
    BY <1>4 DEF LooksUp, Asked
  <2>3. CallOK(c) /\ LiveCall(c) /\ c.kind \notin Flows
    BY <2>1, <2>2 DEF CallOK, LiveCall, Registers, Flows
  <2> QED
    BY <1>3, <2>1, <2>2, <2>3
<1>5. CASE Confirms
  <2> PICK k, i : k = screen.name /\ i = screen.invite
    OBVIOUS
  <2> PICK c : c = Asked(k, i)
    OBVIOUS
  <2>1. /\ Sends(c) /\ UNCHANGED form /\ screen.name \in {"arrive", "checkout"} /\ ~Busy
    BY <1>5 DEF Confirms, Asked
  <2>2. /\ c \in CallState /\ c.kind = screen.name /\ c.by = guest /\ c.invite = screen.invite /\ c.shown
        /\ c.crossed = crossed /\ c.live /\ c.answer = "none"
    <3>1. k \in {"checkin", "arrive", "checkout", "lookup"} /\ i \in AnyOne
      BY <1>1, <2>1
    <3> QED
      BY <1>1, <3>1, KioskAsked
  <2>3. \A d \in calls : d.live => d.kind \notin Flows
    <3>1. \A d \in calls : d.live => d.kind # "arrive"
      BY <2>1 DEF Busy
    <3> QED
      BY <2>1, <3>1, KioskFlows DEF Registers, Flows
  <2>4. ~crossed /\ screen.name = "arrive" => screen.invite = guest /\ guest \notin Told
    BY <2>3 DEF KioskInv, ScreenOK, Awaited, Registers, Flows
  <2>5. ~crossed => screen.invite \in {guest, NoOne}
    BY DEF KioskInv, ScreenOK
  <2>6. CallOK(c)
    BY <2>1, <2>2, <2>4, <2>5 DEF CallOK, Registers, Person
  <2>7. LiveCall(c)
    BY <2>1, <2>2 DEF LiveCall
  <2> QED
    BY <1>3, <2>1, <2>2, <2>3, <2>6, <2>7
<1>6. CASE Refreshes
  <2> PICK c : c = Load("refresh", NoOne, FALSE, 0)
    OBVIOUS
  <2>1. c \in CallState /\ ~c.live /\ CallOK(c)
    BY KioskRefresh
  <2>2. Sends(c) /\ UNCHANGED form
    BY <1>6 DEF Refreshes
  <2> QED
    BY <1>3, <2>1, <2>2 DEF LiveCall
<1>7. CASE Pairs
  <2> PICK c : c = Load("refresh", NoOne, FALSE, 0)
    OBVIOUS
  <2>1. c \in CallState /\ ~c.live /\ CallOK(c)
    BY KioskRefresh
  <2>2. /\ calls' = calls \cup {c} /\ ~paired /\ paired' = TRUE
        /\ form' = IF Mounted(TRUE, cfg, screen) THEN NewForm ELSE NoForm
        /\ UNCHANGED <<served, changes, cfg, guest, queue, screen, crossed, accepted, missed, again>>
    BY <1>7 DEF Pairs
  <2>3. LiveCall(c)'
    BY <2>1 DEF LiveCall
  <2>4. form = NoForm
    BY <2>2 DEF KioskInv, FormOK
  <2>5. \A d \in calls : d.live => d.kind \notin {"checkin", "config"}
    BY <2>4 DEF KioskInv, CallsOK, LiveCall
  <2>6. form' \in FormState /\ (form' # NoForm => form'.by = guest)
    BY <1>1, <2>2, KioskBlank, KioskRecords
  <2>7. FormOK'
    BY <1>1, <2>2, KioskBlank DEF FormOK, Mounted
  <2> QED
    BY <1>1, <2>1, <2>2, <2>3, <2>5, <2>6, <2>7, KioskSent
<1> QED
  BY <1>4, <1>5, <1>6, <1>7

\* A request is answered, given up or replaced by another.
LEMMA KioskReplaced ==
  ASSUME KioskInv, NEW c \in calls, NEW N \in SUBSET CallState, calls' = (calls \ {c}) \cup N,
         \A n \in N : CallOK(n)' /\ LiveCall(n)',
         \A n, m \in N : n = m,
         \A n \in N : n.live /\ n.kind \in Flows => c.live /\ c.kind \in Flows,
         \A d \in calls \ {c} : CallOK(d)' /\ LiveCall(d)',
         KioskTypeOK', FormOK', ScreenOK', VisitsOK'
  PROVE  KioskInv'
<1>1. CallsOK'
  BY DEF CallsOK
<1>2. ASSUME NEW d \in calls', NEW e \in calls', d.live, e.live, d.kind \in Flows, e.kind \in Flows
      PROVE  d = e
  <2>1. CASE d \in N /\ e \in N
    BY <2>1
  <2>2. CASE d \notin N /\ e \notin N
    BY <1>2, <2>2 DEF KioskInv, OneFlow
  <2>3. CASE d \in N /\ e \notin N
    <3>1. c.live /\ c.kind \in Flows /\ e \in calls /\ e # c
      BY <1>2, <2>3
    <3> QED
      BY <1>2, <3>1 DEF KioskInv, OneFlow
  <2>4. CASE d \notin N /\ e \in N
    <3>1. c.live /\ c.kind \in Flows /\ d \in calls /\ d # c
      BY <1>2, <2>4
    <3> QED
      BY <1>2, <3>1 DEF KioskInv, OneFlow
  <2> QED
    BY <2>1, <2>2, <2>3, <2>4
<1>3. OneFlow'
  BY <1>2 DEF OneFlow
<1> QED
  BY <1>1, <1>3 DEF KioskInv

LEMMA KioskPublishes ==
  ASSUME KioskInv, Publishes
  PROVE  KioskInv'
<1>1. /\ KioskTypeOK /\ served \in TabletTexts /\ served.notice > 0 /\ changes \in Nat
      /\ UNCHANGED <<cfg, paired, guest, queue, screen, form, calls, crossed, accepted, missed, again>>
  BY DEF KioskInv, KioskTypeOK, Publishes
<1>2. served' \in TabletTexts /\ served'.notice > 0 /\ changes' \in Nat
  BY <1>1 DEF Publishes, TabletTexts
<1>3. KioskTypeOK'
  BY <1>1, <1>2 DEF KioskTypeOK
<1>4. Told' = Told /\ Awaited(guest)' = Awaited(guest)
  BY <1>1 DEF Told, Awaited
<1>5. ASSUME NEW c \in calls' PROVE LiveCall(c)' /\ CallOK(c)'
  <2>1. c \in calls /\ c \in CallState /\ LiveCall(c) /\ CallOK(c)
    BY <1>1 DEF KioskInv, CallsOK, KioskTypeOK
  <2> QED
    BY <1>1, <1>4, <2>1, KioskCallKept DEF LiveCall
<1>6. OneFlow' /\ CallsOK' /\ FormOK' /\ VisitsOK'
  BY <1>1, <1>5 DEF OneFlow, CallsOK, FormOK, VisitsOK, KioskInv
<1>7. ScreenOK'
  BY <1>1, <1>4 DEF ScreenOK, KioskInv
<1> QED
  BY <1>3, <1>6, <1>7 DEF KioskInv

WithAnswer(c, a) == [c EXCEPT !.answer = a]
LEMMA KioskAnswered ==
  ASSUME NEW c \in CallState, NEW a \in {"none", "ok", "notice", "docs", "host", "incomplete"}
  PROVE  /\ WithAnswer(c, a) \in CallState /\ WithAnswer(c, a).answer = a
         /\ WithAnswer(c, a).kind = c.kind /\ WithAnswer(c, a).by = c.by /\ WithAnswer(c, a).invite = c.invite
         /\ WithAnswer(c, a).shown = c.shown /\ WithAnswer(c, a).crossed = c.crossed /\ WithAnswer(c, a).live = c.live
         /\ WithAnswer(c, a).step = c.step /\ WithAnswer(c, a).why = c.why
         /\ Person(WithAnswer(c, a)) = Person(c) /\ (Registers(WithAnswer(c, a)) <=> Registers(c))
<1>1. WithAnswer(c, a) \in CallState
  BY DEF WithAnswer, CallState
<1>2. /\ WithAnswer(c, a).answer = a
      /\ WithAnswer(c, a).kind = c.kind /\ WithAnswer(c, a).by = c.by /\ WithAnswer(c, a).invite = c.invite
      /\ WithAnswer(c, a).shown = c.shown /\ WithAnswer(c, a).crossed = c.crossed /\ WithAnswer(c, a).live = c.live
      /\ WithAnswer(c, a).step = c.step /\ WithAnswer(c, a).why = c.why
  BY DEF WithAnswer, CallState
<1> QED
  BY <1>1, <1>2 DEF Person, Registers

LEMMA KioskServes ==
  ASSUME KioskInv, NEW c \in calls, Serves(c)
  PROVE  KioskInv'
<1>1. /\ KioskTypeOK /\ c \in CallState /\ CallOK(c) /\ LiveCall(c) /\ Registers(c) /\ c.answer = "none"
      /\ UNCHANGED <<served, changes, cfg, paired, guest, queue, screen, form, crossed>>
  BY DEF KioskInv, KioskTypeOK, CallsOK, Serves
<1>2. PICK a \in Answers(c) :
        /\ calls' = (calls \ {c}) \cup {WithAnswer(c, a)}
        /\ IF a = "ok"
             THEN /\ accepted' = accepted \cup {Visit(c)}
                  /\ again' = again \cup ({Person(c)} \cap {v.person : v \in accepted})
                  /\ missed' = IF c.crossed THEN missed \cup {Person(c)} ELSE missed
             ELSE UNCHANGED <<accepted, again, missed>>
  BY DEF Serves, WithAnswer
<1>3. /\ a \in {"ok", "notice", "docs", "host", "incomplete"}
      /\ a \in {"notice", "docs", "host"} => c.kind = "checkin"
      /\ a = "incomplete" => c.kind = "arrive"
  BY <1>1, <1>2 DEF Answers, Registers
<1> DEFINE n == WithAnswer(c, a)
<1>4. /\ n \in CallState /\ n.answer = a
      /\ n.kind = c.kind /\ n.by = c.by /\ n.invite = c.invite /\ n.shown = c.shown /\ n.crossed = c.crossed
      /\ n.live = c.live /\ n.step = c.step /\ n.why = c.why /\ Person(n) = Person(c) /\ Registers(n)
  BY <1>1, <1>3, KioskAnswered
<1> HIDE DEF n
<1>5. missed \subseteq missed' /\ calls' = (calls \ {c}) \cup {n}
  BY <1>2 DEF n
<1>6. ASSUME NEW p \in Told', p \notin Told PROVE a = "ok" /\ p = Person(c) /\ c.live
  <2>1. a = "ok"
    BY <1>2, <1>6 DEF Told
  <2>2. Visit(c).person = Person(c)
    BY DEF Visit
  <2>3. p = Person(c) /\ p \notin missed
    BY <1>2, <1>5, <1>6, <2>1, <2>2 DEF Told
  <2> QED
    BY <1>1, <2>1, <2>3 DEF CallOK, CallState
<1>7. ASSUME NEW d \in calls \ {c} PROVE CallOK(d)' /\ LiveCall(d)'
  <2>1. d \in calls /\ d # c /\ d \in CallState /\ CallOK(d) /\ LiveCall(d)
    BY <1>1, <1>7 DEF KioskInv, CallsOK, KioskTypeOK
  <2>2. LiveCall(d)'
    BY <1>1, <2>1 DEF LiveCall
  <2>3. ASSUME Registers(d), ~d.crossed, d.answer = "none", Person(d) \in Told' PROVE FALSE
    <3>1. Person(d) \notin Told
      BY <2>1, <2>3 DEF CallOK
    <3>2. Person(d) = Person(c) /\ c.live
      BY <1>6, <2>3, <3>1
    <3>3. Person(d) \notin missed
      BY <1>5, <2>3 DEF Told
    <3>4. d.live
      BY <2>1, <2>3, <3>3 DEF CallOK
    <3>5. c.kind \in Flows /\ d.kind \in Flows
      BY <1>1, <2>3 DEF Registers, Flows
    <3> QED
      BY <2>1, <3>2, <3>4, <3>5 DEF KioskInv, OneFlow
  <2>4. CallOK(d)'
    BY <1>5, <2>1, <2>3 DEF CallOK
  <2> QED
    BY <2>2, <2>4
<1>8. CallOK(n)' /\ LiveCall(n)'
  <2>1. CallOK(n)'
    BY <1>1, <1>3, <1>4, <1>5 DEF CallOK
  <2>2. LiveCall(n)'
    BY <1>1, <1>4 DEF LiveCall
  <2> QED
    BY <2>1, <2>2
<1>9. KioskTypeOK'
  BY <1>1, <1>4, <1>5 DEF KioskTypeOK
<1>10. FormOK'
  BY <1>1 DEF FormOK, KioskInv
<1>11. guest \notin Told \/ Awaited(guest) => (guest \notin Told \/ Awaited(guest))'
  <2>1. Awaited(guest) => Awaited(guest)'
    <3>1. ASSUME NEW d \in calls, d.live, Registers(d), d.answer = "ok", Person(d) = guest PROVE Awaited(guest)'
      BY <1>1, <1>5, <3>1 DEF Awaited
    <3> QED
      BY <3>1 DEF Awaited
  <2>2. guest \notin Told /\ guest \in Told' => Awaited(guest)'
    <3>1. SUFFICES ASSUME guest \notin Told, guest \in Told' PROVE Awaited(guest)'
      OBVIOUS
    <3>2. a = "ok" /\ guest = Person(c) /\ c.live
      BY <1>6, <3>1
    <3> QED
      BY <1>1, <1>4, <1>5, <3>2 DEF Awaited
  <2> QED
    BY <1>1, <2>1, <2>2
<1>12. ScreenOK'
  BY <1>1, <1>11 DEF ScreenOK, KioskInv
<1>13. VisitsOK'
  <2>1. CASE a = "ok"
    <3>1. Visit(c).own /\ Visit(c).shown
      BY <1>1 DEF Visit, CallOK
    <3>2. \A v \in accepted' : v.own /\ v.shown
      BY <1>2, <2>1, <3>1 DEF VisitsOK, KioskInv
    <3>3. Person(c) \in {v.person : v \in accepted} => Person(c) \in missed'
      <4>1. CASE c.crossed
        BY <1>2, <2>1, <4>1
      <4>2. CASE ~c.crossed
        BY <1>1, <1>5, <4>2 DEF CallOK, Told
      <4> QED
        BY <4>1, <4>2
    <3>4. again' \subseteq missed'
      BY <1>2, <1>5, <2>1, <3>3 DEF VisitsOK, KioskInv
    <3> QED
      BY <3>2, <3>4 DEF VisitsOK
  <2>2. CASE a # "ok"
    BY <1>2, <2>2 DEF VisitsOK, KioskInv
  <2> QED
    BY <2>1, <2>2
<1>14. PICK N : N = {n}
  OBVIOUS
<1>15. /\ N \in SUBSET CallState /\ calls' = (calls \ {c}) \cup N
       /\ \A m \in N : CallOK(m)' /\ LiveCall(m)'
       /\ \A m, k \in N : m = k
       /\ \A m \in N : m.live /\ m.kind \in Flows => c.live /\ c.kind \in Flows
  BY <1>4, <1>5, <1>8, <1>14
<1> QED
  BY <1>7, <1>9, <1>10, <1>12, <1>13, <1>15, KioskReplaced

LEMMA KioskShown ==
  ASSUME KioskInv, NEW c \in calls, Done(c) \/ Goodbye(c) \/ Found(c)
  PROVE  KioskInv'
<1>1. /\ KioskTypeOK /\ c \in CallState /\ CallOK(c) /\ LiveCall(c) /\ NoOne \in AnyOne /\ guest \in AnyOne
      /\ c.by \in AnyOne /\ c.invite \in AnyOne
  BY DEF KioskInv, KioskTypeOK, CallsOK, CallState, AnyOne
<1>2. CASE Done(c)
  <2>1. Registers(c) /\ Person(c) \in AnyOne
    BY <1>1, <1>2 DEF Done, Person
  <2>2. PICK p \in AnyOne : p = Person(c)
    BY <2>1
  <2>3. PICK to : to = Show("done", NoOne, p)
    OBVIOUS
  <2>4. to \in ScreenState /\ to.name = "done" /\ to.invite = NoOne /\ to.result = Person(c)
    BY <1>1, <2>2, <2>3, KioskRecords, SMTT(30) DEF TabletScreens
  <2>5. c.live /\ ~c.crossed => Person(c) = guest
    BY <1>1, <2>1 DEF CallOK, LiveCall, Person, Registers
  <2>6. ShowsTo(c, to)
    BY <1>2, <2>2, <2>3 DEF Done
  <2> QED
    BY <2>4, <2>5, <2>6, KioskShows
<1>3. CASE Goodbye(c)
  <2>1. PICK to : to = Show("outdone", NoOne, NoOne)
    OBVIOUS
  <2>2. to \in ScreenState /\ to.name = "outdone" /\ to.invite = NoOne /\ to.result = NoOne
    BY <1>1, <2>1, KioskRecords DEF TabletScreens
  <2>3. ShowsTo(c, to)
    BY <1>3, <2>1 DEF Goodbye
  <2> QED
    BY <2>2, <2>3, KioskShows
<1>4. CASE Found(c)
  <2>1. PICK n \in {"checkin", "arrive"} : /\ ShowsTo(c, Show(n, c.invite, NoOne))
                                           /\ c.kind = "lookup" \/ (n = "checkin" /\ c.answer = "incomplete")
    BY <1>4 DEF Found
  <2>2. PICK to : to = Show(n, c.invite, NoOne)
    OBVIOUS
  <2>3. to \in ScreenState /\ to.name = n /\ to.invite = c.invite /\ to.result = NoOne
    BY <1>1, <2>1, <2>2, KioskRecords DEF TabletScreens
  <2>4. ASSUME c.live, ~c.crossed, ~crossed
        PROVE  c.invite = guest /\ guest \notin Told /\ screen.name # "checkin"
    <3>1. CASE c.kind = "lookup"
      <4>1. screen.name = "invite" /\ c.invite = guest
        BY <1>1, <2>4, <3>1 DEF LiveCall, CallOK
      <4>2. ~Awaited(guest)
        BY <4>1, KioskFlows
      <4> QED
        BY <2>4, <4>1, <4>2 DEF KioskInv, ScreenOK
    <3>2. CASE c.answer = "incomplete"
      <4>1. c.kind = "arrive"
        BY <1>1, <3>2 DEF CallOK
      <4>2. screen.name = "arrive" /\ c.invite = guest
        BY <1>1, <2>4, <4>1 DEF LiveCall, CallOK
      <4>3. ASSUME NEW d \in calls, d.live, Registers(d), d.answer = "ok" PROVE FALSE
        <5>1. d.kind \in Flows /\ c.kind \in Flows /\ c # d
          BY <3>2, <4>1, <4>3 DEF Registers, Flows
        <5> QED
          BY <2>4, <4>3, <5>1 DEF KioskInv, OneFlow
      <4>4. ~Awaited(guest)
        BY <4>3 DEF Awaited
      <4> QED
        BY <2>4, <4>2, <4>4 DEF KioskInv, ScreenOK
    <3> QED
      BY <2>1, <3>1, <3>2
  <2>5. ShowsTo(c, to)
    BY <2>1, <2>2
  <2> QED
    BY <2>3, <2>4, <2>5, KioskShows
<1> QED
  BY <1>2, <1>3, <1>4

\* What a form that waits for an answer knows.
LEMMA KioskWaits ==
  ASSUME KioskInv, NEW c \in calls, c.live, c.kind \in {"checkin", "config"}
  PROVE  /\ form # NoForm /\ form.busy /\ form \in FormState /\ TickedOK(form, cfg) /\ screen.name = "checkin" /\ paired
         /\ cfg # NoConfig /\ form.read # 0 /\ form.step \in Nat
         /\ \A d \in calls : d.live /\ d.kind \in Flows => d = c
<1>1. form # NoForm /\ form.busy /\ form \in FormState
  BY DEF KioskInv, KioskTypeOK, CallsOK, LiveCall
<1>2. TickedOK(form, cfg) /\ screen.name = "checkin" /\ paired /\ cfg # NoConfig
  BY <1>1 DEF KioskInv, FormOK
<1>3. form.read # 0 /\ form.step \in Nat
  BY <1>1, <1>2 DEF TickedOK, FormState
<1>4. c.kind \in Flows
  BY DEF Flows
<1> QED
  BY <1>1, <1>2, <1>3, <1>4 DEF KioskInv, OneFlow

LEMMA KioskReloads ==
  ASSUME KioskInv, NEW c \in calls, Reloads(c)
  PROVE  KioskInv'
<1>1. /\ KioskTypeOK /\ c \in CallState /\ CallOK(c) /\ LiveCall(c)
      /\ UNCHANGED <<served, changes, cfg, paired, guest, queue, screen, form, crossed, accepted, missed, again>>
      /\ c.answer \in {"notice", "docs", "host"}
  BY DEF KioskInv, KioskTypeOK, CallsOK, Reloads
<1>2. PICK back \in {1, 2, 3} : /\ calls' = (calls \ {c}) \cup {Load(c.answer, c.by, c.live, back)}
                                /\ back = 3 => c.answer = "docs"
  BY <1>1 DEF Reloads
<1>3. PICK n : n = Load(c.answer, c.by, c.live, back)
  OBVIOUS
<1>4. /\ n \in CallState /\ n.kind = "config" /\ n.by = c.by /\ n.live = c.live /\ n.step = back
      /\ n.why = c.answer /\ CallOK(n)
  <2>1. c.by \in AnyOne /\ c.live \in BOOLEAN /\ c.answer \in {"refresh", "notice", "docs", "host"} /\ back \in 0..3
    BY <1>1 DEF CallState
  <2> QED
    BY <1>3, <2>1, KioskLoad
<1>5. Told' = Told
  BY <1>1 DEF Told
<1>6. CallOK(n)'
  BY <1>1, <1>4, <1>5, KioskCallKept
<1>7. LiveCall(n)'
  BY <1>1, <1>2, <1>4 DEF LiveCall, CallOK
<1>8. ASSUME NEW d \in calls \ {c} PROVE CallOK(d)' /\ LiveCall(d)'
  <2>1. d \in calls /\ d \in CallState /\ CallOK(d) /\ LiveCall(d)
    BY <1>1 DEF KioskInv, CallsOK, KioskTypeOK
  <2> QED
    BY <1>1, <1>5, <2>1, KioskCallKept DEF LiveCall
<1>9. KioskTypeOK'
  BY <1>1, <1>2, <1>3, <1>4 DEF KioskTypeOK
<1>10. FormOK' /\ VisitsOK'
  BY <1>1 DEF FormOK, VisitsOK, KioskInv
<1>11. Awaited(guest) => Awaited(guest)'
  <2>1. ASSUME NEW d \in calls, d.live, Registers(d), d.answer = "ok", Person(d) = guest PROVE Awaited(guest)'
    BY <1>1, <1>2, <2>1 DEF Awaited
  <2> QED
    BY <2>1 DEF Awaited
<1>12. ScreenOK'
  BY <1>1, <1>5, <1>11 DEF ScreenOK, KioskInv
<1>14. PICK N : N = {n}
  OBVIOUS
<1>15. /\ N \in SUBSET CallState /\ calls' = (calls \ {c}) \cup N
       /\ \A m \in N : CallOK(m)' /\ LiveCall(m)'
       /\ \A m, k \in N : m = k
       /\ \A m \in N : m.live /\ m.kind \in Flows => c.live /\ c.kind \in Flows
  BY <1>1, <1>2, <1>3, <1>4, <1>6, <1>7, <1>14 DEF CallOK, Flows
<1> QED
  BY <1>8, <1>9, <1>10, <1>12, <1>15, KioskReplaced

LEMMA KioskFails ==
  ASSUME KioskInv, NEW c \in calls, Fails(c)
  PROVE  KioskInv'
<1>1. /\ KioskTypeOK /\ c \in CallState /\ CallOK(c) /\ LiveCall(c) /\ form \in FormState
      /\ UNCHANGED <<served, changes, cfg, paired, guest, queue, screen, crossed, accepted, again>>
      /\ c.kind # "config" /\ c.answer \in {"none", "ok"}
      /\ form' = IF c.kind = "checkin" /\ c.live THEN [form EXCEPT !.busy = FALSE] ELSE form
  BY DEF KioskInv, KioskTypeOK, CallsOK, Fails
<1>2. PICK N \in {{}, {LeftThere(c)}} :
        /\ calls' = (calls \ {c}) \cup N
        /\ missed \subseteq missed'
        /\ c.answer = "ok" => Person(c) \in missed'
        /\ N # {} => Person(c) \in missed'
  <2>1. CASE calls' = calls \ {c} /\ missed' = IF c.answer = "ok" THEN missed \cup {Person(c)} ELSE missed
    <3>1. /\ calls' = (calls \ {c}) \cup {} /\ missed \subseteq missed' /\ (c.answer = "ok" => Person(c) \in missed')
      BY <2>1
    <3> QED
      BY <3>1
  <2>2. CASE c.answer = "none" /\ calls' = (calls \ {c}) \cup Orphans({c}) /\ missed' = missed \cup {Person(c)}
    <3>1. Orphans({c}) = {LeftThere(c)}
      BY DEF Orphans, LeftThere
    <3> QED
      BY <2>2, <3>1
  <2> QED
    BY <2>1, <2>2 DEF Fails
<1>3. Told' \subseteq Told
  BY <1>1, <1>2, KioskTold
<1>4. /\ LeftThere(c) \in CallState /\ ~LeftThere(c).live
      /\ N # {} => CallOK(LeftThere(c))' /\ LiveCall(LeftThere(c))'
  BY <1>1, <1>2, <1>3, KioskGone, KioskCallGone
<1>5. /\ N \in SUBSET CallState
      /\ \A n \in N : CallOK(n)' /\ LiveCall(n)'
      /\ \A n, m \in N : n = m
      /\ \A n \in N : n.live /\ n.kind \in Flows => c.live /\ c.kind \in Flows
  BY <1>2, <1>4
<1>6. form' \in FormState
  BY <1>1 DEF FormState
<1>7. /\ form'.by = form.by /\ form'.step = form.step /\ form'.read = form.read
      /\ form'.swapped = form.swapped /\ form'.docsOk = form.docsOk /\ (form'.busy => form.busy)
  BY <1>1 DEF FormState
<1>8. form' # form => c.live /\ c.kind = "checkin" /\ form # NoForm
  BY <1>1 DEF LiveCall
<1>9. ASSUME NEW d \in calls \ {c} PROVE CallOK(d)' /\ LiveCall(d)'
  <2>1. d \in calls /\ d # c /\ d \in CallState /\ CallOK(d) /\ LiveCall(d)
    BY <1>1, <1>9 DEF KioskInv, CallsOK, KioskTypeOK
  <2>2. CallOK(d)'
    BY <1>2, <1>3, <2>1, KioskCallKept
  <2>3. d.live /\ d.kind \in {"checkin", "config"} => form' = form
    <3>1. SUFFICES ASSUME d.live, d.kind \in {"checkin", "config"}, c.live, c.kind = "checkin" PROVE FALSE
      BY <1>8
    <3>2. c.kind \in Flows /\ d.kind \in Flows
      BY <3>1 DEF Flows
    <3> QED
      BY <2>1, <3>1, <3>2 DEF KioskInv, OneFlow
  <2>4. LiveCall(d)'
    BY <1>1, <2>1, <2>3 DEF LiveCall
  <2> QED
    BY <2>2, <2>4
<1>10. calls' \subseteq CallState
  BY <1>1, <1>2, <1>5 DEF KioskTypeOK
<1>11. KioskTypeOK'
  BY <1>1, <1>6, <1>10 DEF KioskTypeOK
<1>12. form' # NoForm => form # NoForm
  BY <1>8
<1>13. FormOK'
  BY <1>1, <1>7, <1>12 DEF FormOK, TickedOK, KioskInv
<1>14. guest \notin Told \/ Awaited(guest) => (guest \notin Told \/ Awaited(guest))'
  <2>1. ASSUME NEW d \in calls, d.live, Registers(d), d.answer = "ok", Person(d) = guest
        PROVE  (guest \notin Told \/ Awaited(guest))'
    <3>1. CASE d = c
      <4>1. guest' \in missed'
        BY <1>1, <1>2, <2>1, <3>1
      <4> QED
        BY <4>1 DEF Told
    <3>2. CASE d # c
      <4>1. d \in calls' /\ Person(d) = guest'
        BY <1>1, <1>2, <2>1, <3>2
      <4> QED
        BY <2>1, <4>1 DEF Awaited
    <3> QED
      BY <3>1, <3>2
  <2>2. guest \notin Told => guest' \notin Told'
    BY <1>1, <1>3
  <2> QED
    BY <2>1, <2>2 DEF Awaited
<1>15. ScreenOK'
  BY <1>1, <1>7, <1>12, <1>14 DEF ScreenOK, KioskInv
<1>16. VisitsOK'
  BY <1>1, <1>2 DEF VisitsOK, KioskInv
<1> QED
  BY <1>2, <1>5, <1>9, <1>11, <1>13, <1>15, <1>16, KioskReplaced

LEMMA KioskAway ==
  ASSUME KioskInv, NEW c \in calls, Away(c)
  PROVE  KioskInv'
<1>1. /\ KioskTypeOK /\ calls \subseteq CallState
      /\ UNCHANGED <<served, changes, guest, queue, screen, crossed, accepted, again>>
      /\ cfg' = NoConfig /\ paired' \in {paired, FALSE} /\ form' = NoForm
      /\ calls' = Orphans(calls \ {c}) /\ missed' = missed \cup Waiting(calls)
  BY DEF KioskInv, KioskTypeOK, Away
<1>2. missed \subseteq missed' /\ Told' \subseteq Told
  BY <1>1, KioskTold
<1>3. PICK cs : cs = calls \ {c}
  OBVIOUS
<1>4. cs \in SUBSET CallState /\ (\A d \in cs : CallOK(d)) /\ Waiting(cs) \subseteq missed'
  BY <1>1, <1>3 DEF KioskInv, CallsOK, Waiting
<1>5. calls' \subseteq CallState /\ \A o \in calls' : ~o.live /\ CallOK(o)' /\ LiveCall(o)'
  BY <1>1, <1>2, <1>3, <1>4, KioskOrphans
<1>6. CallsOK' /\ OneFlow'
  BY <1>5 DEF CallsOK, OneFlow
<1>7. KioskTypeOK'
  BY <1>1, <1>5, KioskRecords DEF KioskTypeOK
<1>8. FormOK'
  BY <1>1 DEF FormOK
<1>9. guest \notin Told \/ Awaited(guest) => guest \notin Told'
  <2>1. ASSUME Awaited(guest) PROVE guest \in missed'
    BY <1>1, <2>1 DEF Awaited, Waiting
  <2>2. guest \in missed' => guest \notin Told'
    BY DEF Told
  <2> QED
    BY <1>2, <2>1, <2>2
<1>10. ScreenOK'
  BY <1>1, <1>9 DEF ScreenOK, KioskInv
<1>11. VisitsOK'
  BY <1>1 DEF VisitsOK, KioskInv
<1> QED
  BY <1>6, <1>7, <1>8, <1>10, <1>11 DEF KioskInv

\* What a form becomes when the tablet's configuration does.
LEMMA KioskSwapped ==
  ASSUME NEW f \in FormState, NEW new \in TabletTexts, NEW old \in TabletTexts, cfg = old, TickedOK(f, old),
         NEW why
  PROVE  LET g == Swapped(f, new, why)
         IN  /\ g \in FormState /\ g.by = f.by /\ g.busy = f.busy /\ g.step = f.step /\ g.read = f.read /\ g.docsOk = f.docsOk
             /\ why # "notice" => g.swapped \/ g.read \in {0, new.notice}
             /\ why = "refresh" => TickedOK(g, new)
<1> DEFINE g == Swapped(f, new, why)
<1>1. g \in FormState
  BY DEF Swapped, FormState
<1>2. /\ g.by = f.by /\ g.busy = f.busy /\ g.step = f.step /\ g.read = f.read /\ g.docsOk = f.docsOk
      /\ g.swapped = (f.swapped \/ (why # "notice" /\ f.read \notin {0, new.notice})
                                \/ (why = "refresh" /\ new.docs # cfg.docs))
  BY DEF Swapped, FormState
<1> HIDE DEF g
<1>3. why # "notice" => g.swapped \/ g.read \in {0, new.notice}
  BY <1>2
<1>4. why = "refresh" => TickedOK(g, new)
  BY <1>2, <1>3 DEF TickedOK
<1> QED
  BY <1>1, <1>2, <1>3, <1>4 DEF g

LEMMA KioskReset ==
  ASSUME NEW c \in CallState, NEW f \in FormState
  PROVE  LET g == Reset(c, f)
         IN  /\ g \in FormState /\ g.by = f.by /\ ~g.busy /\ g.step = c.step /\ g.swapped = f.swapped
             /\ g.read = IF c.why = "notice" THEN 0 ELSE f.read
<1>1. c.step \in Nat
  BY DEF CallState
<1>2. Reset(c, f) \in FormState
  BY <1>1 DEF Reset, FormState
<1> QED
  BY <1>1, <1>2 DEF Reset, FormState

LEMMA KioskLoaded ==
  ASSUME KioskInv, NEW c \in calls, Loaded(c)
  PROVE  KioskInv'
<1>1. /\ KioskTypeOK /\ c \in CallState /\ CallOK(c) /\ LiveCall(c) /\ form \in FormState /\ cfg \in TabletTexts
      /\ UNCHANGED <<served, changes, paired, guest, queue, screen, crossed, accepted, missed, again>>
      /\ c.kind = "config" /\ calls' = calls \ {c} /\ cfg' \in {served, cfg} /\ guest \in AnyOne
  BY DEF KioskInv, KioskTypeOK, CallsOK, Loaded
<1>2. PICK new \in TabletTexts : new = cfg'
  BY <1>1 DEF KioskTypeOK
<1>3. cfg # NoConfig => cfg' # NoConfig
  BY <1>1, KioskRecords DEF KioskTypeOK
<1>4. Told' = Told
  BY <1>1 DEF Told
\* The form after it.
<1>5. /\ form' \in FormState /\ (form' # NoForm => screen.name = "checkin" /\ paired /\ cfg' # NoConfig /\ TickedOK(form', new))
      /\ (~crossed /\ form' # NoForm => form'.by = guest)
      /\ (~c.live /\ form # NoForm => form' # NoForm \/ ~form.busy) /\ (~c.live /\ form # NoForm => form'.busy = form.busy)
  <2>1. CASE form = NoForm
    <3>1. form' = IF cfg = NoConfig /\ Mounted(paired, new, screen) THEN NewForm ELSE NoForm
      BY <1>2, <2>1 DEF Loaded
    <3> QED
      BY <1>1, <1>2, <2>1, <3>1, KioskBlank, KioskRecords DEF Mounted
  <2>2. CASE form # NoForm /\ ~c.live
    <3>1. PICK f : f = Swapped(form, new, "refresh")
      OBVIOUS
    <3>2. form' = f
      BY <1>2, <2>2, <3>1 DEF Loaded
    <3>3. screen.name = "checkin" /\ paired /\ cfg # NoConfig /\ TickedOK(form, cfg) /\ (~crossed => form.by = guest)
      BY <2>2 DEF KioskInv, FormOK, ScreenOK
    <3>4. /\ f \in FormState /\ f.by = form.by /\ f.busy = form.busy /\ TickedOK(f, new)
      BY <1>1, <3>1, <3>3, KioskSwapped
    <3>5. form.busy => f # NoForm
      BY <3>4, KioskRecords
    <3> QED
      BY <1>3, <2>2, <3>2, <3>3, <3>4, <3>5
  <2>3. CASE form # NoForm /\ c.live
    <3>1. PICK f : f = Swapped(form, new, c.why)
      OBVIOUS
    <3>2. form' = Reset(c, f)
      BY <1>2, <2>3, <3>1 DEF Loaded
    <3>3. /\ screen.name = "checkin" /\ paired /\ cfg # NoConfig /\ TickedOK(form, cfg) /\ (~crossed => form.by = guest)
          /\ form.read # 0
      BY <1>1, <2>3, KioskWaits DEF KioskInv, ScreenOK
    <3>4. c.step \in 0..3 /\ c.step > 0 /\ (c.step > 2 => c.why # "notice")
      BY <1>1, <2>3 DEF LiveCall, CallState
    <3>5. /\ f \in FormState /\ f.by = form.by /\ f.read = form.read
          /\ c.why # "notice" => f.swapped \/ f.read \in {0, new.notice}
      BY <1>1, <3>1, <3>3, <3>4, KioskSwapped
    <3>6. /\ form' \in FormState /\ form'.by = f.by /\ ~form'.busy /\ form'.step = c.step /\ form'.swapped = f.swapped
          /\ form'.read = IF c.why = "notice" THEN 0 ELSE f.read
      BY <1>1, <3>2, <3>5, KioskReset
    <3>7. TickedOK(form', new)
      BY <3>3, <3>4, <3>5, <3>6 DEF TickedOK
    <3> QED
      BY <1>3, <2>3, <3>3, <3>5, <3>6, <3>7
  <2> QED
    BY <2>1, <2>2, <2>3
<1>6. ASSUME NEW d \in calls \ {c} PROVE CallOK(d)' /\ LiveCall(d)'
  <2>1. d \in calls /\ d # c /\ d \in CallState /\ CallOK(d) /\ LiveCall(d)
    BY <1>1, <1>6 DEF KioskInv, CallsOK, KioskTypeOK
  <2>2. CallOK(d)'
    BY <1>1, <1>4, <2>1, KioskCallKept
  <2>3. d.live /\ d.kind \in {"checkin", "config"} => form' # NoForm /\ form'.busy
    <3>1. SUFFICES ASSUME d.live, d.kind \in {"checkin", "config"} PROVE form' # NoForm /\ form'.busy
      OBVIOUS
    <3>2. form # NoForm /\ form.busy /\ (c.live => c = d)
      <4>1. c.kind \in Flows
        BY <1>1 DEF Flows
      <4> QED
        BY <2>1, <3>1, <4>1, KioskWaits
    <3> QED
      BY <1>5, <2>1, <3>2
  <2>4. LiveCall(d)'
    BY <1>1, <2>1, <2>3 DEF LiveCall
  <2> QED
    BY <2>2, <2>4
<1>7. PICK N : N = {}
  OBVIOUS
<1>8. /\ N \in SUBSET CallState /\ calls' = (calls \ {c}) \cup N
      /\ \A m \in N : CallOK(m)' /\ LiveCall(m)'
      /\ \A m, k \in N : m = k
      /\ \A m \in N : m.live /\ m.kind \in Flows => c.live /\ c.kind \in Flows
  BY <1>1, <1>7
<1>9. KioskTypeOK'
  BY <1>1, <1>2, <1>5 DEF KioskTypeOK
<1>10. FormOK'
  BY <1>1, <1>2, <1>5 DEF FormOK
<1>11. Awaited(guest) => Awaited(guest)'
  <2>1. ASSUME NEW d \in calls, d.live, Registers(d), d.answer = "ok", Person(d) = guest PROVE Awaited(guest)'
    BY <1>1, <2>1 DEF Awaited, Registers
  <2> QED
    BY <2>1 DEF Awaited
<1>12. ScreenOK'
  BY <1>1, <1>4, <1>5, <1>11 DEF ScreenOK, KioskInv
<1>13. VisitsOK'
  BY <1>1 DEF VisitsOK, KioskInv
<1> QED
  BY <1>6, <1>8, <1>9, <1>10, <1>12, <1>13, KioskReplaced

LEMMA KioskSteps ==
  ASSUME KioskInv, KioskNext
  PROVE  KioskInv'
  BY KioskGoes, KioskFills, KioskSubmits, KioskAsks, KioskPublishes, KioskServes, KioskShown, KioskReloads,
     KioskFails, KioskLoaded, KioskAway DEF KioskNext

LEMMA KioskInits ==
  ASSUME KioskInit
  PROVE  KioskInv
<1>1. /\ served \in TabletTexts /\ served.notice > 0 /\ cfg = served
  BY DEF KioskInit, TabletTexts
<1>2. KioskTypeOK
  BY <1>1, KioskRecords DEF KioskInit, KioskTypeOK, AnyOne
<1>3. OneFlow /\ CallsOK /\ FormOK /\ VisitsOK
  BY DEF KioskInit, OneFlow, CallsOK, FormOK, VisitsOK
<1>4. ScreenOK
  BY KioskRecords DEF KioskInit, ScreenOK
<1> QED
  BY <1>2, <1>3, <1>4 DEF KioskInv

\* What the properties of the tablet say.
LEMMA KioskShowsIt ==
  ASSUME KioskInv
  PROVE  GuestsKeptApart /\ AcceptedWasShown /\ TwiceOnlyInSilence
  BY DEF KioskInv, ScreenOK, VisitsOK, GuestsKeptApart, AcceptedWasShown, TwiceOnlyInSilence

-----------------------------------------------------------------------------
(* The guest's page *)

TextsIn == [notice : Nat, docs : Nat]
Whys == {"open", "done", "notice", "docs"}
Outdated == {"notice", "docs"}

PageStates ==
  [shows : {"form", "done", "stored", "error"}, step : Nat, read : BOOLEAN, seen : Nat, docsOk : SUBSET Nat,
   signed : BOOLEAN, busy : BOOLEAN, replaced : BOOLEAN]
PostsOf == [texts : TextsIn, seen : Nat, docsOk : SUBSET Nat, replaced : BOOLEAN]

GuestPageTypeOK ==
  /\ inForce \in TextsIn /\ inForce.notice > 0
  /\ invitation \in TextsIn /\ (invitation # Nothing => invitation.notice > 0)
  /\ page \in PageStates /\ post \in PostsOf /\ registered \in PostsOf
  /\ answerTo \in {"none", "ok", "notice", "docs"} /\ loads \subseteq Whys

\* Past a text's step it was ticked as it is now, unless it was replaced under the tick.
TicksOK ==
  /\ page.read \/ page.step > 2 => page.replaced \/ page.seen = invitation.notice
  /\ page.step > 3 /\ invitation.docs # 0 => page.replaced \/ invitation.docs \in page.docsOk
  /\ invitation = Nothing => page.step = 1 /\ ~page.read

\* While a submission, or the load that its refusal asks for, is under way the form is busy,
\* but for a page that shows an error; and nothing is sent before the first load.
PageWaits ==
  /\ post # NoPost => page.busy /\ page.shows = "form"
  /\ Outdated \cap loads # {} => post = NoPost /\ (page.busy \/ page.shows = "error")
  /\ page.busy => page.shows = "form" /\ page.step > 2 /\ invitation # Nothing
  /\ page.shows = "error" => page.step = 1 /\ ~page.read
  /\ ~(Outdated \subseteq loads)
  /\ "open" \in loads => loads = {"open"} /\ post = NoPost /\ page = Blank("form") /\ invitation = Nothing

AsShown(p) == p.replaced \/ (p.seen = p.texts.notice /\ p.texts.docs \in p.docsOk \cup {0})

GuestPageInv == GuestPageTypeOK /\ TicksOK /\ PageWaits /\ AsShown(post) /\ AsShown(registered)

LEMMA GuestSteps ==
  ASSUME GuestPageTypeOK
  PROVE  /\ Len(PageSteps) = (IF invitation.docs = 0 THEN 3 ELSE 4)
         /\ page.step = 1 => PageKey = "details"
         /\ page.step = 2 => PageKey = "notice"
         /\ page.step = 3 /\ invitation.docs # 0 => PageKey = "docs"
         /\ PageKey = "notice" => page.step = 2
         /\ PageKey = "docs" => page.step = 3
         /\ PageKey = "sign" => page.step > 2
<1>1. page.step \in Nat
  BY DEF GuestPageTypeOK, PageStates
<1>2. CASE invitation.docs = 0
  <2>1. PageSteps = <<"details", "notice", "sign">>
    BY <1>2 DEF PageSteps
  <2>2. Len(PageSteps) = 3 /\ DOMAIN PageSteps = 1..3
        /\ PageSteps[1] = "details" /\ PageSteps[2] = "notice" /\ PageSteps[3] = "sign"
    BY <2>1
  <2>3. page.step \in 1..3 => page.step = 1 \/ page.step = 2 \/ page.step = 3
    BY <1>1
  <2> QED
    BY <1>1, <1>2, <2>2, <2>3 DEF PageKey
<1>3. CASE invitation.docs # 0
  <2>1. PageSteps = <<"details", "notice", "docs", "sign">>
    BY <1>3 DEF PageSteps
  <2>2. Len(PageSteps) = 4 /\ DOMAIN PageSteps = 1..4
        /\ PageSteps[1] = "details" /\ PageSteps[2] = "notice" /\ PageSteps[3] = "docs" /\ PageSteps[4] = "sign"
    BY <2>1
  <2>3. page.step \in 1..4 => page.step = 1 \/ page.step = 2 \/ page.step = 3 \/ page.step = 4
    BY <1>1
  <2> QED
    BY <1>1, <1>3, <2>2, <2>3 DEF PageKey
<1> QED
  BY <1>2, <1>3

LEMMA GuestBlanks ==
  /\ \A shows \in {"form", "done", "stored", "error"} : Blank(shows) \in PageStates
  /\ NoPost \in PostsOf /\ AsShown(NoPost) /\ Nothing \in TextsIn /\ Nothing.notice = 0
  BY DEF Blank, PageStates, NoPost, PostsOf, TextsIn, Nothing, AsShown

\* The form is filled in, or turned to another step; nothing else changes.
LEMMA GuestTouches ==
  ASSUME GuestPageInv, UNCHANGED <<inForce, invitation, post, answerTo, loads, registered>>,
         page' \in PageStates, page'.busy = page.busy, page'.shows = page.shows, invitation # Nothing, page.shows = "form",
         page.busy => page'.step = page.step, TicksOK'
  PROVE  GuestPageInv'
  BY DEF GuestPageInv, GuestPageTypeOK, PageWaits, AsShown, Blank

LEMMA GuestFills ==
  ASSUME GuestPageInv, TicksText \/ ChangesLanguage \/ SignsPage \/ Pages
  PROVE  GuestPageInv'
<1>1. /\ page \in PageStates /\ invitation \in TextsIn /\ GuestPageTypeOK /\ TicksOK
      /\ invitation # Nothing /\ page.shows = "form" /\ UNCHANGED <<inForce, invitation, post, answerTo, loads, registered>>
  BY DEF GuestPageInv, GuestPageTypeOK, TicksText, ChangesLanguage, SignsPage, Pages, Filling, OnForm, Touches
<1>2. CASE TicksText
  <2>1. CASE PageKey = "notice" /\ page' = [page EXCEPT !.read = ~@, !.replaced = FALSE,
                                                   !.seen = IF page.read THEN @ ELSE invitation.notice]
    <3>1. page' \in PageStates
      BY <1>1, <2>1 DEF PageStates, TextsIn
    <3>2. page.step = 2
      BY <1>1, <2>1, GuestSteps
    <3>3. page'.busy = page.busy /\ page'.shows = page.shows /\ page'.step = page.step /\ page'.step = 2 /\ (page'.read => page'.seen = invitation.notice)
      BY <1>1, <2>1, <3>2 DEF PageStates
    <3>4. TicksOK'
      BY <1>1, <3>3 DEF TicksOK
    <3> QED
      BY <1>1, <3>1, <3>3, <3>4, GuestTouches
  <2>2. CASE page' = [page EXCEPT !.docsOk = @ \cup {invitation.docs}]
    <3>1. page' \in PageStates
      BY <1>1, <2>2 DEF PageStates, TextsIn
    <3>2. page'.busy = page.busy /\ page'.shows = page.shows /\ (page.busy => page'.step = page.step) /\ TicksOK'
      BY <1>1, <2>2 DEF PageStates, TicksOK
    <3> QED
      BY <1>1, <3>1, <3>2, GuestTouches
  <2> QED
    BY <1>2, <2>1, <2>2 DEF TicksText, Touches
<1>3. CASE ChangesLanguage
  <2>1. page' = [page EXCEPT !.read = FALSE, !.docsOk = {}, !.replaced = @ \/ page.step > 2]
    BY <1>3 DEF ChangesLanguage, Touches
  <2>2. page' \in PageStates
    BY <1>1, <2>1 DEF PageStates
  <2>3. /\ page'.busy = page.busy /\ page'.shows = page.shows /\ page'.step = page.step /\ ~page'.read
        /\ page'.replaced = (page.replaced \/ page.step > 2)
    BY <1>1, <2>1 DEF PageStates
  <2>4. page.step > 3 => page.step > 2
    BY <1>1 DEF PageStates
  <2>5. TicksOK'
    BY <1>1, <2>3, <2>4 DEF TicksOK
  <2> QED
    BY <1>1, <2>2, <2>3, <2>5, GuestTouches
<1>4. CASE SignsPage
  <2>1. page' = [page EXCEPT !.signed = TRUE]
    BY <1>4 DEF SignsPage, Touches
  <2>2. page' \in PageStates
    BY <1>1, <2>1 DEF PageStates
  <2>3. page'.busy = page.busy /\ page'.shows = page.shows /\ (page.busy => page'.step = page.step) /\ TicksOK'
    BY <1>1, <2>1 DEF PageStates, TicksOK
  <2> QED
    BY <1>1, <2>2, <2>3, GuestTouches
<1>5. CASE Pages
  <2>0. ~page.busy
    BY <1>5 DEF Pages, Filling
  <2>1. CASE MayGoOn /\ page.step < Len(PageSteps) /\ page' = [page EXCEPT !.step = @ + 1]
    <3>1. page' \in PageStates
      BY <1>1, <2>1 DEF PageStates
    <3>2. page'.busy = page.busy /\ page'.shows = page.shows /\ page'.step = page.step + 1
      BY <1>1, <2>1 DEF PageStates
    <3>3. page.step = 2 => page.read
      BY <1>1, <2>1, GuestSteps DEF MayGoOn
    <3>4. page.step = 3 /\ invitation.docs # 0 => invitation.docs \in page.docsOk
      BY <1>1, <2>1, GuestSteps DEF MayGoOn
    <3>5. TicksOK'
      <4>1. page.step \in Nat /\ page'.replaced = page.replaced /\ page'.read = page.read /\ page'.seen = page.seen /\ page'.docsOk = page.docsOk
        BY <1>1, <2>1 DEF PageStates
      <4> QED
        BY <1>1, <3>2, <3>3, <3>4, <4>1 DEF TicksOK
    <3> QED
      BY <1>1, <2>0, <3>1, <3>2, <3>5, GuestTouches
  <2>2. CASE page.step > 1 /\ page' = [page EXCEPT !.step = @ - 1]
    <3>1. page' \in PageStates
      BY <1>1, <2>2 DEF PageStates
    <3>2. page'.busy = page.busy /\ page'.shows = page.shows /\ TicksOK'
      BY <1>1, <2>2 DEF PageStates, TicksOK
    <3> QED
      BY <1>1, <2>0, <3>1, <3>2, GuestTouches
  <2> QED
    BY <1>5, <2>1, <2>2 DEF Pages, Touches
<1> QED
  BY <1>2, <1>3, <1>4, <1>5

LEMMA GuestReopens ==
  ASSUME GuestPageInv, Reopens
  PROVE  GuestPageInv'
<1>1. page.shows \in {"done", "stored"} /\ page' = Blank("form") /\ UNCHANGED <<inForce, invitation, post, answerTo, loads, registered>>
  BY DEF Reopens, Touches
<1>2. GuestPageTypeOK'
  BY <1>1, GuestBlanks DEF GuestPageInv, GuestPageTypeOK
<1>3. TicksOK'
  BY <1>1 DEF TicksOK, Blank
<1>4. PageWaits'
  <2>1. post = NoPost /\ "open" \notin loads /\ Outdated \cap loads = {}
    BY <1>1 DEF GuestPageInv, PageWaits, Blank
  <2> QED
    BY <1>1, <2>1 DEF GuestPageInv, PageWaits, Blank
<1> QED
  BY <1>1, <1>2, <1>3, <1>4 DEF GuestPageInv, AsShown

LEMMA GuestPosts ==
  ASSUME GuestPageInv, Posts
  PROVE  GuestPageInv'
<1> DEFINE new == [page EXCEPT !.busy = TRUE]
           posted == [texts |-> invitation, seen |-> page.seen, docsOk |-> page.docsOk, replaced |-> page.replaced]
<1>1. /\ invitation # Nothing /\ page.shows = "form" /\ ~page.busy /\ MayGoOn /\ page.step >= Len(PageSteps)
      /\ page' = new /\ post' = posted /\ UNCHANGED <<inForce, invitation, answerTo, loads, registered>>
  BY DEF Posts, Filling, OnForm
<1>2. page \in PageStates /\ invitation \in TextsIn /\ GuestPageTypeOK /\ TicksOK /\ PageWaits
  BY DEF GuestPageInv, GuestPageTypeOK
<1>3. new \in PageStates /\ posted \in PostsOf
  BY <1>2 DEF PageStates, PostsOf
<1>4. AsShown(posted)
  <2>1. page.step \in Nat
    BY <1>2 DEF PageStates
  <2>2. page.step > 2 /\ (invitation.docs # 0 => page.step > 3)
    <3>1. Len(PageSteps) = (IF invitation.docs = 0 THEN 3 ELSE 4)
      BY <1>2, GuestSteps
    <3> QED
      BY <1>1, <2>1, <3>1
  <2> QED
    BY <1>2, <2>2 DEF TicksOK, AsShown
<1>5. TicksOK'
  BY <1>1, <1>2 DEF TicksOK, PageStates
<1>6. PageWaits'
  <2>1. Outdated \cap loads = {} /\ "open" \notin loads /\ ~(Outdated \subseteq loads)
    BY <1>1, <1>2 DEF PageWaits
  <2>2. page'.busy /\ page'.shows = "form" /\ page'.step = page.step
    BY <1>1, <1>2 DEF PageStates
  <2>3. page.step > 2
    <3>1. Len(PageSteps) > 2 /\ Len(PageSteps) \in Nat
      BY <1>2, GuestSteps, SMTT(30)
    <3> QED
      BY <1>1, <1>2, <3>1 DEF PageStates
  <2> HIDE DEF new, posted
  <2> QED
    BY <1>1, <2>1, <2>2, <2>3 DEF PageWaits
<1> QED
  BY <1>1, <1>2, <1>3, <1>4, <1>5, <1>6 DEF GuestPageInv, GuestPageTypeOK, AsShown

LEMMA GuestServer ==
  ASSUME GuestPageInv, PublishesText \/ Judges
  PROVE  GuestPageInv'
<1>1. UNCHANGED <<invitation, page, post, loads>>
  BY DEF PublishesText, Judges
<1>2. TicksOK' /\ PageWaits'
  BY <1>1 DEF GuestPageInv, TicksOK, PageWaits
<1>3. CASE PublishesText
  <2>1. inForce' \in TextsIn /\ inForce'.notice > 0
    BY <1>3 DEF PublishesText, GuestPageInv, GuestPageTypeOK, TextsIn
  <2> QED
    BY <1>1, <1>2, <1>3, <2>1 DEF PublishesText, GuestPageInv, GuestPageTypeOK, AsShown
<1>4. CASE Judges
  <2>1. registered' \in {post, registered} /\ answerTo' \in {"none", "ok", "notice", "docs"} /\ inForce' = inForce
    BY <1>4 DEF Judges
  <2> QED
    BY <1>1, <1>2, <2>1 DEF GuestPageInv, GuestPageTypeOK, AsShown
<1> QED
  BY <1>3, <1>4

LEMMA GuestHears ==
  ASSUME GuestPageInv, Hears
  PROVE  GuestPageInv'
<1>1. /\ post # NoPost /\ post' = NoPost /\ answerTo' = "none" /\ UNCHANGED <<inForce, invitation, registered>>
      /\ page.busy /\ page.shows = "form" /\ Outdated \cap loads = {} /\ "open" \notin loads
      /\ page \in PageStates /\ TicksOK /\ page.step > 2 /\ invitation # Nothing
  BY DEF Hears, GuestPageInv, PageWaits, GuestPageTypeOK
<1>2. /\ page' \in PageStates /\ loads' \subseteq Whys /\ TicksOK' /\ "open" \notin loads'
      /\ Outdated \cap loads' # {} => page'.busy \/ page'.shows = "error"
      /\ page'.shows # "error" /\ (page'.busy => page'.shows = "form" /\ page'.step > 2 /\ invitation # Nothing)
      /\ ~(Outdated \subseteq loads')
  <2>1. CASE page' = Blank("done") /\ loads' = loads \cup {"done"}
    BY <1>1, <2>1, GuestBlanks DEF GuestPageInv, GuestPageTypeOK, Blank, TicksOK, Outdated, Whys
  <2>2. CASE answerTo \in {"notice", "docs"} /\ loads' = loads \cup {answerTo} /\ UNCHANGED page
    BY <1>1, <2>2 DEF GuestPageInv, GuestPageTypeOK, TicksOK, Outdated, Whys
  <2>3. CASE page' = [page EXCEPT !.busy = FALSE] /\ UNCHANGED loads
    <3>1. page' \in PageStates
      BY <1>1, <2>3 DEF PageStates
    <3>2. /\ page'.step = page.step /\ page'.read = page.read /\ page'.replaced = page.replaced /\ page'.seen = page.seen
          /\ page'.docsOk = page.docsOk /\ page'.shows = page.shows /\ ~page'.busy
      BY <1>1, <2>3 DEF PageStates
    <3>3. TicksOK' /\ loads \subseteq Whys /\ ~(Outdated \subseteq loads)
      BY <1>1, <3>2 DEF TicksOK, GuestPageInv, GuestPageTypeOK, PageWaits
    <3> QED
      BY <1>1, <2>3, <3>1, <3>2, <3>3
  <2> QED
    BY <2>1, <2>2, <2>3 DEF Hears
<1>3. PageWaits'
  BY <1>1, <1>2 DEF PageWaits
<1> QED
  BY <1>1, <1>2, <1>3, GuestBlanks DEF GuestPageInv, GuestPageTypeOK, AsShown

LEMMA GuestLoads ==
  ASSUME GuestPageInv, NEW why \in loads, Loads(why)
  PROVE  GuestPageInv'
<1> DEFINE p == Replaced(why, page, inForce)
           known == why = "open" /\ registered # NoPost /\ page.shows = "form"
           anew == Again(why, p, invitation.docs)
<1>1. /\ loads' = loads \ {why} /\ invitation' = inForce /\ UNCHANGED <<inForce, post, answerTo, registered>>
      /\ page' = IF why \in {"notice", "docs"} /\ page.busy THEN anew ELSE IF known THEN [p EXCEPT !.shows = "stored"] ELSE p
  BY DEF Loads
<1>2. /\ page \in PageStates /\ invitation \in TextsIn /\ inForce \in TextsIn /\ inForce.notice > 0 /\ TicksOK /\ PageWaits /\ why \in Whys
      /\ inForce # Nothing /\ (invitation # Nothing => invitation.notice > 0)
  BY GuestBlanks DEF GuestPageInv, GuestPageTypeOK
<1>3. /\ p \in PageStates /\ p.step = page.step /\ p.read = page.read /\ p.seen = page.seen /\ p.docsOk = page.docsOk
      /\ p.busy = page.busy /\ p.shows = page.shows
      /\ p.replaced = (\/ page.replaced \/ (why # "notice" /\ page.seen \notin {0, inForce.notice})
                       \/ (why \notin {"notice", "docs"} /\ inForce.docs # invitation.docs))
  BY <1>2 DEF Replaced, PageStates
<1> HIDE DEF p
<1>4. CASE why \in {"notice", "docs"} /\ page.busy
  <2>1. page' = anew
    BY <1>1, <1>4
  <2>2. anew \in PageStates
    BY <1>3 DEF Again, PageStates
  <2>3. anew.step = (IF why = "docs" /\ invitation.docs # 0 THEN 3 ELSE 2) /\ ~anew.read /\ anew.seen = p.seen
        /\ anew.replaced = p.replaced /\ anew.shows = p.shows /\ ~anew.busy
    BY <1>3 DEF Again, PageStates
  <2> HIDE DEF anew
  <2>4. page.shows = "form" /\ post = NoPost /\ "open" \notin loads /\ Outdated \cap loads' = {}
    BY <1>1, <1>2, <1>4 DEF PageWaits, Outdated
  <2>5. TicksOK'
    <3>1. CASE why = "docs" /\ invitation.docs # 0
      <4>1. page.replaced \/ (page.seen = invitation.notice /\ invitation.notice > 0)
        BY <1>2, <1>4 DEF TicksOK, PageWaits
      <4>2. page'.replaced \/ page'.seen = inForce.notice
        BY <1>3, <2>1, <2>3, <3>1, <4>1
      <4>3. page'.step = 3
        BY <2>1, <2>3, <3>1
      <4> QED
        BY <1>1, <1>2, <4>2, <4>3 DEF TicksOK
    <3>2. CASE ~(why = "docs" /\ invitation.docs # 0)
      <4>1. page'.step = 2 /\ ~page'.read
        BY <2>1, <2>3, <3>2
      <4> QED
        BY <1>1, <1>2, <4>1 DEF TicksOK
    <3> QED
      BY <3>1, <3>2
  <2>6. PageWaits'
    BY <1>1, <1>3, <2>1, <2>3, <2>4 DEF PageWaits, Outdated
  <2> QED
    BY <1>1, <1>2, <2>1, <2>2, <2>5, <2>6 DEF GuestPageInv, GuestPageTypeOK, AsShown
<1>5. CASE ~(why \in {"notice", "docs"} /\ page.busy)
  <2>1. /\ page' \in PageStates /\ page'.step = page.step /\ page'.read = page.read /\ page'.seen = page.seen
        /\ page'.docsOk = page.docsOk /\ page'.busy = page.busy /\ page'.replaced = p.replaced
        /\ page'.shows = (IF known THEN "stored" ELSE page.shows)
    <3>1. CASE known
      BY <1>1, <1>3, <1>5, <3>1 DEF PageStates
    <3>2. CASE ~known
      BY <1>1, <1>3, <1>5, <3>2
    <3> QED
      BY <3>1, <3>2
  <2>2. why \in Outdated => page.shows = "error" /\ page.step = 1 /\ ~page.read
    BY <1>2, <1>5 DEF PageWaits, Outdated
  <2>3. TicksOK'
    <3>1. page.read \/ page.step > 2 => page.replaced \/ page.seen = invitation.notice
      BY <1>2 DEF TicksOK
    <3>2. CASE page.read \/ page.step > 2
      <4>1. invitation # Nothing /\ invitation.notice > 0 /\ why \notin Outdated /\ page.step \in Nat
        BY <1>2, <2>2, <3>2 DEF TicksOK, PageStates
      <4>2. page'.replaced \/ page'.seen = inForce.notice
        BY <1>3, <2>1, <3>1, <3>2, <4>1 DEF Outdated
      <4>3. page.step > 3 /\ inForce.docs # 0 => page'.replaced \/ inForce.docs \in page'.docsOk
        BY <1>2, <1>3, <2>1, <4>1 DEF TicksOK, Outdated
      <4> QED
        BY <1>1, <1>2, <2>1, <4>2, <4>3 DEF TicksOK
    <3>3. CASE ~(page.read \/ page.step > 2)
      <4>1. ~(page.step > 3)
        BY <1>2, <3>3 DEF PageStates
      <4> QED
        BY <1>1, <1>2, <2>1, <3>3, <4>1 DEF TicksOK
    <3> QED
      BY <3>2, <3>3
  <2>4. PageWaits'
    <3>1. why = "open" => loads' = {} /\ post = NoPost /\ ~page.busy
      BY <1>1, <1>2 DEF PageWaits, Blank
    <3>2. why # "open" => ~known /\ "open" \notin loads
      BY <1>2 DEF PageWaits
    <3> QED
      BY <1>1, <1>2, <2>1, <3>1, <3>2 DEF PageWaits, Outdated
  <2> QED
    BY <1>1, <1>2, <2>1, <2>3, <2>4 DEF GuestPageInv, GuestPageTypeOK, AsShown
<1> QED
  BY <1>4, <1>5

LEMMA GuestLoadFails ==
  ASSUME GuestPageInv, ReloadsPage \/ \E why \in loads : LoadFails(why)
  PROVE  GuestPageInv'
<1>1. /\ post' = NoPost /\ answerTo' = "none" /\ UNCHANGED <<inForce, registered>>
      /\ \/ (\E why \in loads : loads' = loads \ {why}) /\ page' = Blank("error") /\ invitation' = invitation
         \/ loads' = {"open"} /\ page' = Blank("form") /\ invitation' = Nothing
  BY DEF LoadFails, ReloadsPage
<1>2. page'.step = 1 /\ ~page'.read /\ ~page'.busy
  BY <1>1 DEF Blank
<1>3. TicksOK'
  BY <1>2 DEF TicksOK
<1>4. PageWaits'
  <2>1. ~page'.busy /\ post' = NoPost /\ page'.step = 1 /\ ~page'.read
    BY <1>1, <1>2
  <2>2. CASE (\E why \in loads : loads' = loads \ {why}) /\ page' = Blank("error") /\ invitation' = invitation
    <3>1. page'.shows = "error" /\ "open" \notin loads'
      BY <2>2 DEF GuestPageInv, PageWaits, Blank
    <3> QED
      BY <2>1, <2>2, <3>1 DEF GuestPageInv, PageWaits
  <2>3. CASE loads' = {"open"} /\ page' = Blank("form") /\ invitation' = Nothing
    BY <2>1, <2>3 DEF PageWaits, Blank, Outdated
  <2> QED
    BY <1>1, <2>2, <2>3
<1>5. GuestPageTypeOK'
  BY <1>1, GuestBlanks DEF GuestPageInv, GuestPageTypeOK, Whys
<1> QED
  BY <1>1, <1>3, <1>4, <1>5, GuestBlanks DEF GuestPageInv, AsShown

LEMMA GuestPageInits == GuestPageInit => GuestPageInv
  BY GuestBlanks DEF GuestPageInit, GuestPageInv, GuestPageTypeOK, TicksOK, PageWaits, Blank, Outdated, Whys, TextsIn

LEMMA GuestPageStep ==
  ASSUME GuestPageInv, [GuestPageNext]_guestPageVars
  PROVE  GuestPageInv'
<1>1. CASE UNCHANGED guestPageVars
  BY <1>1 DEF guestPageVars, GuestPageInv, GuestPageTypeOK, TicksOK, PageWaits, AsShown
<1>2. CASE GuestPageNext
  BY <1>2, GuestFills, GuestReopens, GuestPosts, GuestServer, GuestHears, GuestLoads, GuestLoadFails DEF GuestPageNext
<1> QED
  BY <1>1, <1>2

-----------------------------------------------------------------------------
(* The reader at a door *)

LastRead == [is : CardsAtDoor \cup {NoCard}, age : Nat]
ReaderScreens ==
  [nfc : BOOLEAN, busy : BOOLEAN, calls : SUBSET CardsAtDoor, verdict : CardsAtDoor \cup {NoCard, "unreadable"}, left : Nat,
   last : [ReadKinds -> LastRead]]

ReaderTypeOK ==
  /\ \E n \in Nat : screens \in [1..(n + 1) -> ReaderScreens]
  /\ onDoor \in BOOLEAN /\ sent \in [ReadKinds -> LastRead] /\ twice \in BOOLEAN

\* While no screen that is gone hears the taps, the one in front remembers what was sent last
\* for as long as that is not to be sent again.
SentOK ==
  onDoor /\ Ghosts = {} =>
    \A k \in ReadKinds : sent[k].is # NoCard /\ sent[k].age < Hold[k] => screens[FrontScreen].last[k] = sent[k]

ReaderInv == ReaderTypeOK /\ SentOK /\ ~twice

LEMMA ReadTimes ==
  /\ \A k \in ReadKinds : Hold[k] \in Nat /\ Hold[k] > 0 /\ Forgot[k] = [is |-> NoCard, age |-> 0]
  /\ Forgot \in [ReadKinds -> LastRead] /\ [is |-> NoCard, age |-> 0] \in LastRead
  /\ \A k \in ReadKinds : Forgot[k].is = NoCard /\ Forgot[k].age = 0 /\ Forgot[k] \in LastRead
  /\ ResultTime \in Nat
  /\ \A c \in CardsAtDoor : c # NoCard /\ [is |-> c, age |-> 0] \in LastRead
<1>1. \A k \in ReadKinds : k = "card" \/ k = "code"
  BY DEF ReadKinds
<1>2. Hold["card"] = CardTime /\ Hold["code"] = CodeTime
  BY DEF Hold
<1>3. \A k \in ReadKinds : Hold[k] \in Nat /\ Hold[k] > 0
  BY <1>1, <1>2, ReaderAssumption
<1>4. /\ [is |-> NoCard, age |-> 0] \in LastRead
      /\ \A c \in CardsAtDoor : c # NoCard /\ [is |-> c, age |-> 0] \in LastRead
  BY ReaderAssumption DEF LastRead, NoCard
<1>5. Forgot \in [ReadKinds -> LastRead] /\ \A k \in ReadKinds : Forgot[k] = [is |-> NoCard, age |-> 0]
  BY <1>4 DEF Forgot
<1>6. \A k \in ReadKinds : Forgot[k].is = NoCard /\ Forgot[k].age = 0 /\ Forgot[k] \in LastRead
  BY <1>4, <1>5
<1> QED
  BY <1>3, <1>4, <1>5, <1>6, ReaderAssumption

LEMMA NewScreen == Screen \in ReaderScreens /\ Screen.last = Forgot /\ Screen.nfc = FALSE
  BY ReadTimes DEF Screen, ReaderScreens

LEMMA InFrontOf ==
  ASSUME NEW all, NEW n \in Nat, all \in [1..(n + 1) -> ReaderScreens]
  PROVE  Cardinality(DOMAIN all) = n + 1 /\ n + 1 \in DOMAIN all /\ DOMAIN all = 1..(n + 1)
<1>1. DOMAIN all = 1..(n + 1)
  OBVIOUS
<1>2. Cardinality(1..(n + 1)) = n + 1
  BY FS_Interval
<1> QED
  BY <1>1, <1>2

LEMMA ReaderTyped ==
  ASSUME ReaderTypeOK
  PROVE  /\ FrontScreen \in DOMAIN screens /\ FrontScreen \in Nat
         /\ DOMAIN screens = 1..FrontScreen /\ screens \in [DOMAIN screens -> ReaderScreens]
         /\ \A s \in DOMAIN screens :
              /\ screens[s] \in ReaderScreens /\ screens[s].nfc \in BOOLEAN /\ screens[s].busy \in BOOLEAN
              /\ screens[s].last \in [ReadKinds -> LastRead]
              /\ \A k \in ReadKinds : screens[s].last[k] \in LastRead /\ screens[s].last[k].age \in Nat
         /\ \A k \in ReadKinds : sent[k] \in LastRead /\ sent[k].age \in Nat
<1>1. PICK n \in Nat : screens \in [1..(n + 1) -> ReaderScreens]
  BY DEF ReaderTypeOK
<1>2. FrontScreen = n + 1 /\ n + 1 \in DOMAIN screens /\ DOMAIN screens = 1..(n + 1)
  BY <1>1, InFrontOf DEF FrontScreen
<1>3. \A s \in DOMAIN screens :
              /\ screens[s] \in ReaderScreens /\ screens[s].nfc \in BOOLEAN /\ screens[s].busy \in BOOLEAN
              /\ screens[s].last \in [ReadKinds -> LastRead]
  BY <1>1, <1>2 DEF ReaderScreens
<1>4. \A r \in LastRead : r.age \in Nat
  BY DEF LastRead
<1>5. sent \in [ReadKinds -> LastRead]
  BY DEF ReaderTypeOK
<1> QED
  BY <1>1, <1>2, <1>3, <1>4, <1>5

LEMMA ReaderInits == ReaderInit => ReaderInv
<1> SUFFICES ASSUME ReaderInit PROVE ReaderInv
  OBVIOUS
<1>1. screens = [s \in 1..1 |-> Screen] /\ onDoor = TRUE /\ sent = Forgot /\ twice = FALSE
  BY DEF ReaderInit
<1>2. screens \in [1..(0 + 1) -> ReaderScreens]
  BY <1>1, NewScreen
<1>3. ReaderTypeOK
  BY <1>1, <1>2, ReadTimes DEF ReaderTypeOK
<1>4. SentOK
  BY <1>1, ReadTimes DEF SentOK
<1> QED
  BY <1>1, <1>3, <1>4 DEF ReaderInv

\* The screens stay the same ones, with the same card readers started.
LEMMA SameScreens ==
  ASSUME ReaderInv, screens' \in [DOMAIN screens -> ReaderScreens], \A s \in DOMAIN screens : screens'[s].nfc = screens[s].nfc,
         onDoor' = onDoor, sent' \in [ReadKinds -> LastRead]
  PROVE  /\ FrontScreen' = FrontScreen /\ Ghosts' = Ghosts
         /\ twice' \in BOOLEAN => ReaderTypeOK'
<1>1. DOMAIN screens' = DOMAIN screens
  OBVIOUS
<1>2. FrontScreen' = FrontScreen
  BY <1>1 DEF FrontScreen
<1>3. Ghosts' = Ghosts
  BY <1>1, <1>2 DEF Ghosts
<1>4. \E n \in Nat : screens' \in [1..(n + 1) -> ReaderScreens]
  <2>1. PICK n \in Nat : screens \in [1..(n + 1) -> ReaderScreens]
    BY DEF ReaderInv, ReaderTypeOK
  <2> QED
    BY <2>1
<1> QED
  BY <1>2, <1>3, <1>4 DEF ReaderInv, ReaderTypeOK

\* What one screen makes of what it reads.
LEMMA ScreenChecks ==
  ASSUME ReaderInv, NEW s \in DOMAIN screens, NEW k \in ReadKinds, NEW c \in CardsAtDoor
  PROVE  /\ Checked(s, k, c) \in ReaderScreens /\ Checked(s, k, c).nfc = screens[s].nfc
         /\ \A j \in ReadKinds \ {k} : Checked(s, k, c).last[j] = screens[s].last[j]
         /\ Checked(s, k, c).last[k] = IF StillThere(s, k, c) THEN screens[s].last[k] ELSE [is |-> c, age |-> 0]
<1> DEFINE was == screens[s]
           read == [is |-> c, age |-> 0]
           last == [was.last EXCEPT ![k] = read]
           r == [was EXCEPT !.last = last]
<1>1. was \in ReaderScreens /\ was.last \in [ReadKinds -> LastRead] /\ read \in LastRead
  BY ReaderTyped, ReadTimes DEF ReaderInv
<1> HIDE DEF was, read
<1>2. last \in [ReadKinds -> LastRead] /\ last[k] = read /\ \A j \in ReadKinds \ {k} : last[j] = was.last[j]
  BY <1>1
<1> HIDE DEF last
<1>3. r \in ReaderScreens /\ r.nfc = was.nfc /\ r.last = last /\ r.calls \in SUBSET CardsAtDoor
  BY <1>1, <1>2 DEF ReaderScreens
<1> HIDE DEF r
<1>4. Checked(s, k, c) = IF StillThere(s, k, c) THEN was
                         ELSE IF r.busy THEN r ELSE [r EXCEPT !.busy = TRUE, !.calls = @ \cup {c}]
  BY DEF Checked, r, last, read, was
<1>5. LET q == [r EXCEPT !.busy = TRUE, !.calls = @ \cup {c}] IN
        q \in ReaderScreens /\ q.nfc = was.nfc /\ q.last = last
  BY <1>3 DEF ReaderScreens
<1>6. CASE StillThere(s, k, c)
  BY <1>1, <1>4, <1>6 DEF was
<1>7. CASE ~StillThere(s, k, c)
  <2>1. Checked(s, k, c) \in ReaderScreens /\ Checked(s, k, c).nfc = was.nfc /\ Checked(s, k, c).last = last
    BY <1>3, <1>4, <1>5, <1>7
  <2> QED
    BY <1>2, <1>7, <2>1 DEF was, read
<1> QED
  BY <1>6, <1>7

LEMMA ReadsStep ==
  ASSUME ReaderInv, NEW hear \in SUBSET DOMAIN screens, NEW k \in ReadKinds, NEW c \in CardsAtDoor, Reads(hear, k, c),
         onDoor /\ Ghosts = {} => hear = {FrontScreen}, Ghosts = {} => onDoor
  PROVE  ReaderInv'
<1> DEFINE asks == {s \in hear : ~StillThere(s, k, c) /\ ~screens[s].busy}
           read == [is |-> c, age |-> 0]
<1>1. /\ screens' = [s \in DOMAIN screens |-> IF s \in hear THEN Checked(s, k, c) ELSE screens[s]]
      /\ twice' = (twice \/ (asks # {} /\ Ghosts = {} /\ sent[k].is = c /\ sent[k].age < Hold[k]))
      /\ sent' = IF asks # {} THEN [sent EXCEPT ![k] = read]
                 ELSE IF sent[k].is # c THEN [sent EXCEPT ![k] = Forgot[k]] ELSE sent
      /\ onDoor' = onDoor
  BY DEF Reads
<1>2. /\ sent \in [ReadKinds -> LastRead] /\ read \in LastRead /\ Forgot[k] \in LastRead /\ Forgot[k].is = NoCard
      /\ read.is = c /\ c # NoCard /\ SentOK /\ twice = FALSE
  BY ReadTimes DEF ReaderInv, ReaderTypeOK
<1>3. /\ sent' \in [ReadKinds -> LastRead] /\ \A j \in ReadKinds \ {k} : sent'[j] = sent[j]
      /\ sent'[k] = IF asks # {} THEN read ELSE IF sent[k].is # c THEN Forgot[k] ELSE sent[k]
  <2> HIDE DEF asks, read
  <2> QED
    BY <1>1, <1>2
<1>4. /\ screens' \in [DOMAIN screens -> ReaderScreens]
      /\ \A s \in DOMAIN screens : screens'[s].nfc = screens[s].nfc
  BY <1>1, ScreenChecks, ReaderTyped DEF ReaderInv
<1>5. FrontScreen' = FrontScreen /\ Ghosts' = Ghosts /\ (twice' \in BOOLEAN => ReaderTypeOK')
  BY <1>1, <1>3, <1>4, SameScreens
<1>6. CASE Ghosts # {}
  <2>1. twice' = FALSE
    BY <1>1, <1>2, <1>6
  <2> QED
    BY <1>5, <1>6, <2>1 DEF ReaderInv, SentOK
<1>7. CASE Ghosts = {}
  <2> DEFINE f == FrontScreen
  <2>1. hear = {f} /\ onDoor /\ f \in DOMAIN screens
    BY <1>7, ReaderTyped DEF ReaderInv
  <2>2. \A j \in ReadKinds : sent[j].is # NoCard /\ sent[j].age < Hold[j] => screens[f].last[j] = sent[j]
    BY <1>2, <1>7, <2>1 DEF SentOK
  <2>3. screens'[f] = Checked(f, k, c)
    BY <1>1, <2>1
  <2>4. /\ \A j \in ReadKinds \ {k} : screens'[f].last[j] = screens[f].last[j]
        /\ screens'[f].last[k] = IF StillThere(f, k, c) THEN screens[f].last[k] ELSE read
    BY <2>1, <2>3, ScreenChecks
  <2>5. sent[k].is = c /\ sent[k].age < Hold[k] => StillThere(f, k, c)
    BY <1>2, <2>2 DEF StillThere
  <2>6. asks # {} => f \in asks
    BY <2>1
  <2>7. twice' = FALSE
    BY <1>1, <1>2, <2>5, <2>6
  <2>8. \A j \in ReadKinds : sent'[j].is # NoCard /\ sent'[j].age < Hold[j] => screens'[f].last[j] = sent'[j]
    <3>1. \A j \in ReadKinds \ {k} : sent'[j].is # NoCard /\ sent'[j].age < Hold[j] => screens'[f].last[j] = sent'[j]
      BY <1>3, <2>2, <2>4
    <3>2. sent'[k].is # NoCard /\ sent'[k].age < Hold[k] => screens'[f].last[k] = sent'[k]
      <4>1. CASE asks # {}
        BY <1>3, <2>4, <2>6, <4>1
      <4>2. CASE asks = {}
        BY <1>2, <1>3, <2>2, <2>4, <2>5, <4>2
      <4> QED
        BY <4>1, <4>2
    <3> QED
      BY <3>1, <3>2
  <2> QED
    BY <1>5, <2>7, <2>8 DEF ReaderInv, SentOK
<1> QED
  BY <1>6, <1>7

LEMMA HeardStep ==
  ASSUME ReaderInv, NEW c \in CardsAtDoor, Taps(c) \/ ShowsCode(c)
  PROVE  ReaderInv'
<1>1. /\ "card" \in ReadKinds /\ "code" \in ReadKinds /\ FrontScreen \in DOMAIN screens
      /\ {FrontScreen} \in SUBSET DOMAIN screens
  BY ReaderTyped DEF ReadKinds, ReaderInv
<1>2. CASE onDoor /\ Reads({FrontScreen}, "card", c)
  BY <1>1, <1>2, ReadsStep
<1>3. CASE onDoor /\ Reads({FrontScreen}, "code", c)
  BY <1>1, <1>3, ReadsStep
<1>4. CASE LET hear == {s \in DOMAIN screens : screens[s].nfc} IN hear # {} /\ Reads(hear, "card", c)
  <2> DEFINE hear == {s \in DOMAIN screens : screens[s].nfc}
  <2>1. hear # {} /\ Reads(hear, "card", c) /\ hear \in SUBSET DOMAIN screens
    BY <1>4
  <2>2. Ghosts = {} => hear \subseteq {FrontScreen} /\ onDoor
    BY <2>1 DEF Ghosts
  <2> HIDE DEF hear
  <2>3. Ghosts = {} => hear = {FrontScreen}
    BY <2>1, <2>2
  <2> QED
    BY <1>1, <2>1, <2>2, <2>3, ReadsStep
<1> QED
  BY <1>2, <1>3, <1>4 DEF Taps, ShowsCode

\* One screen changes, and remembers what it read.
LEMMA OneScreen ==
  ASSUME ReaderInv, NEW s \in DOMAIN screens, NEW new \in ReaderScreens, screens' = [screens EXCEPT ![s] = new],
         new.last = screens[s].last, new.nfc = screens[s].nfc, UNCHANGED <<onDoor, sent, twice>>
  PROVE  ReaderInv'
<1>1. /\ screens' \in [DOMAIN screens -> ReaderScreens]
      /\ \A v \in DOMAIN screens : screens'[v].nfc = screens[v].nfc /\ screens'[v].last = screens[v].last
  BY ReaderTyped DEF ReaderInv
<1>2. FrontScreen' = FrontScreen /\ Ghosts' = Ghosts /\ ReaderTypeOK'
  BY <1>1, SameScreens DEF ReaderInv, ReaderTypeOK
<1>3. FrontScreen \in DOMAIN screens
  BY ReaderTyped DEF ReaderInv
<1> QED
  BY <1>1, <1>2, <1>3 DEF ReaderInv, SentOK

LEMMA VerdictsStep ==
  ASSUME ReaderInv, NEW s \in DOMAIN screens, Unreadable(s) \/ Verdict(s)
  PROVE  ReaderInv'
<1> DEFINE was == screens[s]
<1>1. was \in ReaderScreens /\ UNCHANGED <<onDoor, sent, twice>> /\ ResultTime \in Nat
  BY ReaderTyped, ReadTimes, ZenonT(40) DEF ReaderInv, Unreadable, Verdict
<1>2. CASE Unreadable(s)
  <2> DEFINE new == [was EXCEPT !.busy = TRUE, !.verdict = "unreadable", !.left = ResultTime]
  <2>1. screens' = [screens EXCEPT ![s] = new]
    BY <1>2 DEF Unreadable
  <2> HIDE DEF was
  <2>2. new \in ReaderScreens /\ new.last = was.last /\ new.nfc = was.nfc
    BY <1>1 DEF ReaderScreens
  <2> HIDE DEF new
  <2>3. new.last = screens[s].last /\ new.nfc = screens[s].nfc
    BY <2>2 DEF was
  <2> QED
    BY <1>1, <2>1, <2>2, <2>3, OneScreen
<1>3. CASE Verdict(s)
  <2>1. PICK c \in was.calls : screens' = [screens EXCEPT ![s].calls = @ \ {c}, ![s].verdict = c, ![s].left = ResultTime]
    BY <1>3 DEF Verdict
  <2> DEFINE new == [was EXCEPT !.calls = @ \ {c}, !.verdict = c, !.left = ResultTime]
  <2>2. screens' = [screens EXCEPT ![s] = new]
    BY <2>1
  <2>3. c \in CardsAtDoor /\ was.calls \ {c} \in SUBSET CardsAtDoor
    BY <1>1, <2>1 DEF ReaderScreens
  <2> HIDE DEF was
  <2>4. new \in ReaderScreens /\ new.last = was.last /\ new.nfc = was.nfc
    BY <1>1, <2>3 DEF ReaderScreens
  <2> HIDE DEF new
  <2>5. new.last = screens[s].last /\ new.nfc = screens[s].nfc
    BY <2>4 DEF was
  <2> QED
    BY <1>1, <2>2, <2>4, <2>5, OneScreen
<1> QED
  BY <1>2, <1>3, SMTT(30)

LEMMA StartsNfcStep == ASSUME ReaderInv, StartsNfc PROVE ReaderInv'
<1> DEFINE f == FrontScreen
           was == screens[f]
           new == [was EXCEPT !.nfc = TRUE]
<1>1. f \in DOMAIN screens /\ was \in ReaderScreens /\ screens \in [DOMAIN screens -> ReaderScreens]
  BY ReaderTyped DEF ReaderInv
<1>2. screens' = [screens EXCEPT ![f] = new] /\ onDoor /\ UNCHANGED <<onDoor, sent, twice>>
  BY DEF StartsNfc
<1>3. new \in ReaderScreens /\ new.last = was.last
  <2> HIDE DEF was
  <2> QED
    BY <1>1 DEF ReaderScreens
<1> HIDE DEF new
<1>4. /\ screens' \in [DOMAIN screens -> ReaderScreens] /\ DOMAIN screens' = DOMAIN screens
      /\ \A v \in DOMAIN screens \ {f} : screens'[v] = screens[v]
      /\ screens'[f].last = screens[f].last
  BY <1>1, <1>2, <1>3
<1>5. FrontScreen' = f
  BY <1>4 DEF FrontScreen
<1>6. Ghosts' = Ghosts
  <2> HIDE DEF f
  <2>1. FrontScreen = f
    BY DEF f
  <2> QED
    BY <1>2, <1>4, <1>5, <2>1 DEF Ghosts
<1>7. ReaderTypeOK'
  <2>1. PICK n \in Nat : screens \in [1..(n + 1) -> ReaderScreens]
    BY DEF ReaderInv, ReaderTypeOK
  <2>2. screens' \in [1..(n + 1) -> ReaderScreens]
    BY <1>4, <2>1
  <2> QED
    BY <1>2, <2>2 DEF ReaderInv, ReaderTypeOK
<1> QED
  BY <1>1, <1>2, <1>4, <1>5, <1>6, <1>7 DEF ReaderInv, SentOK

\* A second later, what was read and what was sent grow old alike.
LEMMA GrowsOld ==
  ASSUME NEW was \in [ReadKinds -> LastRead]
  PROVE  /\ Aged(was) \in [ReadKinds -> LastRead]
         /\ \A k \in ReadKinds : Aged(was)[k].is # NoCard /\ Aged(was)[k].age < Hold[k] =>
              was[k].is # NoCard /\ was[k].age < Hold[k]
<1> DEFINE aged(k) == IF was[k].age >= Hold[k] THEN Forgot[k]
                      ELSE [was[k] EXCEPT !.age = IF was[k].is = NoCard THEN @ ELSE @ + 1]
<1>1. Aged(was) = [k \in ReadKinds |-> aged(k)]
  BY DEF Aged
<1>2. ASSUME NEW k \in ReadKinds
      PROVE  aged(k) \in LastRead /\ (aged(k).is # NoCard => was[k].is # NoCard /\ was[k].age < Hold[k])
  <2>1. was[k] \in LastRead /\ was[k].age \in Nat /\ Hold[k] \in Nat /\ Forgot[k] \in LastRead /\ Forgot[k].is = NoCard
    BY ReadTimes DEF LastRead
  <2>2. CASE was[k].age >= Hold[k]
    BY <2>1, <2>2
  <2>3. CASE was[k].age < Hold[k]
    <3> DEFINE age == IF was[k].is = NoCard THEN was[k].age ELSE was[k].age + 1
    <3>1. age \in Nat
      BY <2>1
    <3>2. aged(k) = [was[k] EXCEPT !.age = age]
      BY <2>1, <2>3
    <3> HIDE DEF age, aged
    <3>3. aged(k) \in LastRead /\ aged(k).is = was[k].is
      BY <2>1, <3>1, <3>2 DEF LastRead
    <3> QED
      BY <2>3, <3>3
  <2> QED
    BY <2>1, <2>2, <2>3
<1> HIDE DEF aged
<1> QED
  BY <1>1, <1>2

LEMMA SecondStep == ASSUME ReaderInv, SecondPasses PROVE ReaderInv'
<1>1. screens' = [s \in DOMAIN screens |-> Later(s)] /\ sent' = Aged(sent) /\ UNCHANGED <<onDoor, twice>>
  BY DEF SecondPasses
<1>2. sent \in [ReadKinds -> LastRead] /\ FrontScreen \in DOMAIN screens /\ SentOK
  BY ReaderTyped DEF ReaderInv, ReaderTypeOK
<1>3. ASSUME NEW s \in DOMAIN screens
      PROVE  Later(s) \in ReaderScreens /\ Later(s).nfc = screens[s].nfc /\ Later(s).last = Aged(screens[s].last)
  <2> DEFINE was == screens[s]
             r == [was EXCEPT !.last = Aged(was.last)]
  <2>1. was \in ReaderScreens /\ was.last \in [ReadKinds -> LastRead]
    BY ReaderTyped DEF ReaderInv
  <2>2. Later(s) = IF r.left = 1 THEN [r EXCEPT !.left = 0, !.verdict = NoCard, !.busy = FALSE]
                   ELSE [r EXCEPT !.left = IF @ = 0 THEN 0 ELSE @ - 1]
    BY DEF Later
  <2> HIDE DEF was
  <2>3. Aged(was.last) \in [ReadKinds -> LastRead]
    BY <2>1, GrowsOld
  <2>4. r \in ReaderScreens /\ r.nfc = was.nfc /\ r.last = Aged(was.last) /\ r.left \in Nat
    BY <2>1, <2>3 DEF ReaderScreens
  <2> HIDE DEF r
  <2>5. LET q == [r EXCEPT !.left = 0, !.verdict = NoCard, !.busy = FALSE] IN
          q \in ReaderScreens /\ q.nfc = r.nfc /\ q.last = r.last
    BY <2>4 DEF ReaderScreens
  <2>6. \A n \in Nat : LET q == [r EXCEPT !.left = n] IN q \in ReaderScreens /\ q.nfc = r.nfc /\ q.last = r.last
    BY <2>4 DEF ReaderScreens
  <2>7. (IF r.left = 0 THEN 0 ELSE r.left - 1) \in Nat
    BY <2>4
  <2> QED
    BY <2>2, <2>4, <2>5, <2>6, <2>7 DEF was
<1>4. /\ screens' \in [DOMAIN screens -> ReaderScreens]
      /\ \A s \in DOMAIN screens : screens'[s].nfc = screens[s].nfc /\ screens'[s].last = Aged(screens[s].last)
  BY <1>1, <1>3
<1>5. sent' \in [ReadKinds -> LastRead]
  BY <1>1, <1>2, GrowsOld
<1>6. FrontScreen' = FrontScreen /\ Ghosts' = Ghosts /\ ReaderTypeOK'
  BY <1>1, <1>4, <1>5, SameScreens DEF ReaderInv, ReaderTypeOK
<1>7. SentOK'
  <2> SUFFICES ASSUME onDoor', Ghosts' = {}, NEW k \in ReadKinds, sent'[k].is # NoCard, sent'[k].age < Hold[k]
               PROVE  screens'[FrontScreen'].last[k] = sent'[k]
    BY DEF SentOK
  <2>1. sent[k].is # NoCard /\ sent[k].age < Hold[k]
    BY <1>1, <1>2, GrowsOld
  <2>2. screens[FrontScreen].last[k] = sent[k]
    BY <1>1, <1>2, <1>6, <2>1 DEF SentOK
  <2>3. Aged(screens[FrontScreen].last)[k] = Aged(sent)[k]
    BY <2>2 DEF Aged
  <2> QED
    BY <1>1, <1>2, <1>4, <1>6, <2>3
<1> QED
  BY <1>1, <1>6, <1>7 DEF ReaderInv

LEMMA ScreensBuilt ==
  ASSUME ReaderInv, Unpaired \/ PairsDoor \/ ReloadsReader
  PROVE  ReaderInv'
<1>1. PICK n \in Nat : screens \in [1..(n + 1) -> ReaderScreens]
  BY DEF ReaderInv, ReaderTypeOK
<1>2. FrontScreen = n + 1 /\ FrontScreen \in DOMAIN screens /\ onDoor \in BOOLEAN /\ twice = FALSE
      /\ sent \in [ReadKinds -> LastRead]
  BY <1>1, InFrontOf DEF FrontScreen, ReaderInv, ReaderTypeOK
<1>3. CASE Unpaired
  <2> DEFINE was == screens[FrontScreen]
             new == IF was.nfc THEN [was EXCEPT !.last["code"] = Forgot["code"]] ELSE Screen
  <2>1. screens' = [screens EXCEPT ![FrontScreen] = new] /\ onDoor' = FALSE /\ UNCHANGED <<sent, twice>>
    BY <1>3 DEF Unpaired
  <2>2. new \in ReaderScreens
    <3>1. was \in ReaderScreens /\ "code" \in ReadKinds /\ Forgot["code"] \in LastRead
      BY <1>1, <1>2, ReadTimes DEF ReadKinds
    <3> HIDE DEF was
    <3> DEFINE last == [was.last EXCEPT !["code"] = Forgot["code"]]
    <3>2. last \in [ReadKinds -> LastRead]
      BY <3>1 DEF ReaderScreens
    <3> HIDE DEF last
    <3>3. [was EXCEPT !.last = last] \in ReaderScreens
      BY <3>1, <3>2 DEF ReaderScreens
    <3> QED
      BY <3>3, NewScreen DEF last
  <2> HIDE DEF new
  <2>3. screens' \in [1..(n + 1) -> ReaderScreens]
    BY <1>1, <2>1, <2>2
  <2> QED
    BY <1>2, <2>1, <2>3 DEF ReaderInv, ReaderTypeOK, SentOK
<1>4. CASE PairsDoor \/ ReloadsReader
  <2>1. sent' = Forgot /\ twice' = twice /\ onDoor' \in BOOLEAN
    BY <1>2, <1>4 DEF PairsDoor, ReloadsReader
  <2>2. \E m \in Nat : screens' \in [1..(m + 1) -> ReaderScreens]
    <3>1. CASE PairsDoor
      <4>1. screens' = [s \in 1..((n + 1) + 1) |-> IF s \in DOMAIN screens THEN screens[s] ELSE Screen]
        BY <1>2, <3>1 DEF PairsDoor
      <4>2. screens' \in [1..((n + 1) + 1) -> ReaderScreens]
        BY <1>1, <4>1, NewScreen
      <4> QED
        BY <4>2
    <3>2. CASE ReloadsReader
      <4>1. screens' = [s \in 1..1 |-> Screen] /\ 0 + 1 = 1
        BY <3>2 DEF ReloadsReader
      <4>2. screens' \in [1..(0 + 1) -> ReaderScreens]
        BY <4>1, NewScreen
      <4> QED
        BY <4>2
    <3> QED
      BY <1>4, <3>1, <3>2
  <2>3. ReaderTypeOK'
    BY <1>2, <2>1, <2>2, ReadTimes DEF ReaderTypeOK
  <2>4. SentOK'
    BY <2>1, ReadTimes DEF SentOK
  <2> QED
    BY <1>2, <2>1, <2>3, <2>4 DEF ReaderInv
<1> QED
  BY <1>3, <1>4

LEMMA ReaderStep ==
  ASSUME ReaderInv, [ReaderNext]_readerVars
  PROVE  ReaderInv'
<1>1. CASE UNCHANGED readerVars
  BY <1>1 DEF readerVars, ReaderInv, ReaderTypeOK, SentOK, FrontScreen, Ghosts
<1> QED
  BY <1>1, HeardStep, VerdictsStep, StartsNfcStep, SecondStep, ScreensBuilt DEF ReaderNext

-----------------------------------------------------------------------------
(* The badge on the phone *)

PhoneOps == {"save", "remove", "enable", "disable", "sync", "brand"}
PhoneSteps ==
  {"forget", "store", "show", "revoke", "unregister", "clear", "register", "again", "keep", "read", "ask", "asked"}
PhoneTasks == [op : PhoneOps, at : PhoneSteps, badge : Nat, token : Nat]

PhoneTypeOK ==
  /\ server \in [inForce : Nat, issued : Nat, devices : SUBSET Nat] /\ keystore \in [badge : Nat, token : Nat]
  /\ app \in [badge : Nat, checked : BOOLEAN, starts : Nat] /\ running \subseteq PhoneTasks
  /\ told \in [removed : SUBSET Nat, unsaid : SUBSET Nat]

\* Every badge the phone speaks of was issued.
IssuedOK ==
  /\ {server.inForce, keystore.badge, app.badge} \subseteq 0..server.issued
  /\ told.removed \subseteq 1..server.issued
  /\ \A t \in running : t.badge <= server.issued

\* Past the server, a removal is of a badge that is dead or could not be said.
RemovalOK ==
  /\ \A t \in running : t.op = "remove" =>
       t.badge # 0 /\ (t.at # "revoke" /\ t.badge = server.inForce => t.badge \in told.unsaid)
  /\ server.inForce \in told.removed => server.inForce \in told.unsaid

PhoneInv == PhoneTypeOK /\ IssuedOK /\ RemovalOK

LEMMA PhoneInits == PhoneInit => PhoneInv
  BY DEF PhoneInit, PhoneInv, PhoneTypeOK, IssuedOK, RemovalOK

LEMMA PhoneTyped ==
  ASSUME PhoneInv
  PROVE  /\ server.inForce \in Nat /\ server.issued \in Nat /\ keystore.badge \in Nat /\ app.badge \in Nat
         /\ keystore.token \in Nat /\ app.checked \in BOOLEAN
         /\ server.inForce <= server.issued /\ keystore.badge <= server.issued /\ app.badge <= server.issued
         /\ \A t \in running : t \in PhoneTasks /\ t.badge \in Nat /\ t.badge <= server.issued
         /\ server \in [inForce : Nat, issued : Nat, devices : SUBSET Nat] /\ keystore \in [badge : Nat, token : Nat]
         /\ app \in [badge : Nat, checked : BOOLEAN, starts : Nat]
         /\ told \in [removed : SUBSET Nat, unsaid : SUBSET Nat]
  BY DEF PhoneInv, PhoneTypeOK, IssuedOK, PhoneTasks

\* The badge in force stays or is revoked, and no removal gets past the server with it.
LEMMA NothingDies ==
  ASSUME PhoneInv, PhoneTypeOK', server'.inForce \in {server.inForce, 0}, server'.issued = server.issued,
         {keystore'.badge, app'.badge} \subseteq 0..server.issued, told'.unsaid = told.unsaid,
         \/ told'.removed = told.removed
         \/ \E t \in running : t.op = "remove" /\ t.at = "show" /\ told'.removed = told.removed \cup {t.badge},
         \A d \in running' \ running : \/ d.op # "remove" /\ d.badge <= server.issued
                                       \/ d.op = "remove" /\ d.at = "revoke" /\ d.badge \in 1..server.issued
                                       \/ \E t \in running : /\ d.op = t.op /\ d.badge = t.badge
                                                             /\ t.at = "revoke" => d.badge # server'.inForce
  PROVE  PhoneInv'
<1> USE PhoneTyped
<1>1. IssuedOK'
  BY DEF IssuedOK, PhoneInv, RemovalOK
<1>2. RemovalOK'
  BY DEF IssuedOK, PhoneInv, RemovalOK
<1> QED
  BY <1>1, <1>2 DEF PhoneInv

LEMMA PhoneNames ==
  /\ "save" \in PhoneOps /\ "remove" \in PhoneOps /\ "enable" \in PhoneOps /\ "disable" \in PhoneOps
  /\ "sync" \in PhoneOps /\ "brand" \in PhoneOps
  /\ "forget" \in PhoneSteps /\ "store" \in PhoneSteps /\ "show" \in PhoneSteps /\ "revoke" \in PhoneSteps
  /\ "unregister" \in PhoneSteps /\ "clear" \in PhoneSteps /\ "register" \in PhoneSteps /\ "again" \in PhoneSteps
  /\ "keep" \in PhoneSteps /\ "read" \in PhoneSteps /\ "ask" \in PhoneSteps /\ "asked" \in PhoneSteps
  BY DEF PhoneOps, PhoneSteps

LEMMA PhoneTask ==
  ASSUME NEW op \in PhoneOps, NEW at \in PhoneSteps, NEW b \in Nat
  PROVE  /\ Task(op, at, b) \in PhoneTasks /\ Task(op, at, b).op = op /\ Task(op, at, b).at = at
         /\ Task(op, at, b).badge = b
  BY DEF Task, PhoneTasks

\* What a badge that comes to be shown asks, and what is then shown.
LEMMA BadgeAsks ==
  ASSUME NEW b \in Nat, NEW old \in [badge : Nat, checked : BOOLEAN, starts : Nat]
  PROVE  /\ \A d \in AsksServer(b, old) : d \in PhoneTasks /\ d.op \in {"sync", "brand"} /\ d.badge = b
         /\ Showing(b, old) \in [badge : Nat, checked : BOOLEAN, starts : Nat] /\ Showing(b, old).badge = b
<1>1. \A d \in AsksServer(b, old) : d = Task("sync", "read", b) \/ d = Task("brand", "asked", b)
  BY DEF AsksServer
<1>2. /\ Task("sync", "read", b) \in PhoneTasks /\ Task("sync", "read", b).op = "sync" /\ Task("sync", "read", b).badge = b
      /\ Task("brand", "asked", b) \in PhoneTasks /\ Task("brand", "asked", b).op = "brand"
      /\ Task("brand", "asked", b).badge = b
  BY PhoneNames, PhoneTask, SMTT(30)
<1>3. Showing(b, old) \in [badge : Nat, checked : BOOLEAN, starts : Nat] /\ Showing(b, old).badge = b
  BY DEF Showing
<1> QED
  BY <1>1, <1>2, <1>3

\* One task goes on to its next step, or ends; the badge in force, shown and stored stay.
LEMMA TaskGoesOn ==
  ASSUME PhoneInv, NEW t \in running, UNCHANGED <<app, told>>,
         server' \in [inForce : Nat, issued : Nat, devices : SUBSET Nat], server'.inForce = server.inForce,
         server'.issued = server.issued,
         keystore' \in [badge : Nat, token : Nat], keystore'.badge \in 0..server.issued,
         NEW next, next \in PhoneTasks, next.op = t.op, next.badge = t.badge, t.op = "remove" => t.at # "revoke",
         running' \in {(running \ {t}) \cup {next}, running \ {t}}
  PROVE  PhoneInv'
<1>1. PhoneTypeOK'
  BY DEF PhoneInv, PhoneTypeOK
<1>2. \A d \in running' \ running : /\ d.op = t.op /\ d.badge = t.badge
                                    /\ d.badge <= server.issued
  BY PhoneTyped
<1>3. \A d \in running' \ running : \/ d.op # "remove" /\ d.badge <= server.issued
                                    \/ d.op = "remove" /\ d.at = "revoke" /\ d.badge \in 1..server.issued
                                    \/ \E s \in running : /\ d.op = s.op /\ d.badge = s.badge
                                                          /\ s.at = "revoke" => d.badge # server'.inForce
  BY <1>2
<1>4. {keystore'.badge, app'.badge} \subseteq 0..server.issued
  BY PhoneTyped
<1> QED
  BY <1>1, <1>3, <1>4, NothingDies

LEMMA ShowsStep ==
  ASSUME PhoneInv, NEW t \in running, NEW b \in 0..server.issued, ShowsBadge(t, b), UNCHANGED <<server, keystore>>,
         \/ told' = told
         \/ t.op = "remove" /\ t.at = "show" /\ told' = [told EXCEPT !.removed = @ \cup {t.badge}]
  PROVE  PhoneInv'
<1>1. /\ app \in [badge : Nat, checked : BOOLEAN, starts : Nat] /\ b \in Nat /\ server.issued \in Nat /\ t.badge \in Nat
      /\ told \in [removed : SUBSET Nat, unsaid : SUBSET Nat]
  BY PhoneTyped
<1>2. app' = Showing(b, app) /\ running' = (running \ {t}) \cup AsksServer(b, app)
  BY DEF ShowsBadge
<1>3. /\ \A d \in AsksServer(b, app) : d \in PhoneTasks /\ d.op \in {"sync", "brand"} /\ d.badge = b
      /\ app' \in [badge : Nat, checked : BOOLEAN, starts : Nat] /\ app'.badge = b
  BY <1>1, <1>2, BadgeAsks
<1>4. /\ told' \in [removed : SUBSET Nat, unsaid : SUBSET Nat] /\ told'.unsaid = told.unsaid
      /\ \/ told'.removed = told.removed
         \/ t.op = "remove" /\ t.at = "show" /\ told'.removed = told.removed \cup {t.badge}
  BY <1>1
<1>5. PhoneTypeOK'
  BY <1>2, <1>3, <1>4 DEF PhoneInv, PhoneTypeOK
<1>6. \A d \in running' \ running : d.op # "remove" /\ d.badge <= server.issued
  BY <1>2, <1>3
<1>7. {keystore'.badge, app'.badge} \subseteq 0..server.issued
  BY <1>1, <1>3, PhoneTyped
<1> QED
  BY <1>4, <1>5, <1>6, <1>7, NothingDies

LEMMA ActivatesHereStep == ASSUME PhoneInv, ActivatesHere PROVE PhoneInv'
<1> DEFINE d == Task("save", "forget", server.issued + 1)
<1>1. /\ server' = [server EXCEPT !.issued = @ + 1, !.inForce = server.issued + 1, !.devices = {}]
      /\ running' = running \/ running' = running \cup {d}
      /\ UNCHANGED <<keystore, app, told>>
  BY DEF ActivatesHere, PhoneStarts
<1>2. server.issued \in Nat /\ server \in [inForce : Nat, issued : Nat, devices : SUBSET Nat]
  BY PhoneTyped
<1>3. d \in PhoneTasks /\ d.op = "save" /\ d.badge = server.issued + 1
  <2>1. PICK n \in Nat : n = server.issued + 1
    BY <1>2
  <2>2. Task("save", "forget", n) \in PhoneTasks /\ Task("save", "forget", n).op = "save" /\ Task("save", "forget", n).badge = n
    BY PhoneNames, PhoneTask
  <2> QED
    BY <2>1, <2>2
<1> HIDE DEF d
<1>4. /\ server' \in [inForce : Nat, issued : Nat, devices : SUBSET Nat] /\ server'.inForce = server.issued + 1
      /\ server'.issued = server.issued + 1
  <2> DEFINE n == server.issued + 1
  <2>1. n \in Nat /\ server' = [server EXCEPT !.issued = n, !.inForce = n, !.devices = {}]
    BY <1>1, <1>2
  <2> HIDE DEF n
  <2>2. /\ server' \in [inForce : Nat, issued : Nat, devices : SUBSET Nat] /\ server'.inForce = n /\ server'.issued = n
    BY <1>2, <2>1
  <2> QED
    BY <2>2 DEF n
<1>5. PhoneTypeOK'
  BY <1>1, <1>3, <1>4 DEF PhoneInv, PhoneTypeOK
<1>6. IssuedOK'
  BY <1>1, <1>2, <1>3, <1>4, PhoneTyped DEF PhoneInv, IssuedOK
<1>7. RemovalOK'
  BY <1>1, <1>2, <1>3, <1>4, PhoneTyped DEF PhoneInv, IssuedOK, RemovalOK
<1> QED
  BY <1>5, <1>6, <1>7 DEF PhoneInv

LEMMA StartsStep == ASSUME PhoneInv, StartsRemoval \/ Switches PROVE PhoneInv'
<1>1. /\ UNCHANGED <<server, keystore, app, told>> /\ app.badge # 0
      /\ \/ running' = running \cup {Task("remove", "revoke", app.badge)}
         \/ \E token \in PushTokens : running' = running \cup {[Task("enable", "register", app.badge) EXCEPT !.token = token]}
         \/ running' = running \cup {Task("disable", "unregister", app.badge)}
  BY DEF StartsRemoval, Switches, PhoneStarts
<1>2. app.badge \in Nat /\ app.badge <= server.issued /\ server.issued \in Nat
  BY PhoneTyped
<1>3. \A token \in PushTokens : LET d == [Task("enable", "register", app.badge) EXCEPT !.token = token] IN
        d \in PhoneTasks /\ d.op = "enable" /\ d.badge = app.badge
  <2> SUFFICES ASSUME NEW token \in PushTokens
               PROVE  LET d == [Task("enable", "register", app.badge) EXCEPT !.token = token] IN
                        d \in PhoneTasks /\ d.op = "enable" /\ d.badge = app.badge
    OBVIOUS
  <2>1. PICK e : e = Task("enable", "register", app.badge)
    OBVIOUS
  <2>2. e \in PhoneTasks /\ e.op = "enable" /\ e.badge = app.badge
    BY <1>2, <2>1, PhoneNames, PhoneTask, SMTT(30)
  <2>3. token \in Nat
    BY DEF PushTokens
  <2>4. [e EXCEPT !.token = token] \in PhoneTasks
    BY <2>2, <2>3 DEF PhoneTasks
  <2>5. [e EXCEPT !.token = token].op = "enable" /\ [e EXCEPT !.token = token].badge = app.badge
    BY <2>2, <2>3 DEF PhoneTasks
  <2> QED
    BY <2>1, <2>4, <2>5
<1>4. /\ Task("remove", "revoke", app.badge) \in PhoneTasks /\ Task("remove", "revoke", app.badge).op = "remove"
      /\ Task("remove", "revoke", app.badge).at = "revoke" /\ Task("remove", "revoke", app.badge).badge = app.badge
      /\ Task("disable", "unregister", app.badge) \in PhoneTasks
      /\ Task("disable", "unregister", app.badge).op = "disable"
      /\ Task("disable", "unregister", app.badge).badge = app.badge
  BY <1>2, PhoneNames, PhoneTask, SMTT(30)
<1>5. \A d \in running' \ running : /\ d \in PhoneTasks /\ d.badge = app.badge
                                    /\ d.op # "remove" \/ d.at = "revoke"
  BY <1>1, <1>3, <1>4, ZenonT(40)
<1>6. PhoneTypeOK'
  BY <1>1, <1>5 DEF PhoneInv, PhoneTypeOK
<1>7. {keystore'.badge, app'.badge} \subseteq 0..server.issued
  BY <1>1, PhoneTyped
<1> QED
  BY <1>1, <1>2, <1>5, <1>6, <1>7, NothingDies

LEMMA ReopensStep == ASSUME PhoneInv, Reopened PROVE PhoneInv'
<1> DEFINE old == [app EXCEPT !.checked = FALSE]
           b == keystore.badge
<1>1. /\ app' = [Showing(b, old) EXCEPT !.starts = @ + 1] /\ running' = AsksServer(b, old) /\ UNCHANGED <<server, keystore, told>>
  BY DEF Reopened
<1>2. old \in [badge : Nat, checked : BOOLEAN, starts : Nat] /\ b \in Nat /\ b <= server.issued /\ server.issued \in Nat
  BY PhoneTyped
<1> HIDE DEF old, b
<1>3. /\ \A d \in running' : d \in PhoneTasks /\ d.op \in {"sync", "brand"} /\ d.badge = b
      /\ Showing(b, old) \in [badge : Nat, checked : BOOLEAN, starts : Nat] /\ Showing(b, old).badge = b
  BY <1>1, <1>2, BadgeAsks
<1>4. app' \in [badge : Nat, checked : BOOLEAN, starts : Nat] /\ app'.badge = b
  BY <1>1, <1>3
<1>5. PhoneTypeOK'
  BY <1>1, <1>3, <1>4 DEF PhoneInv, PhoneTypeOK
<1>6. {keystore'.badge, app'.badge} \subseteq 0..server.issued
  BY <1>1, <1>2, <1>4 DEF b
<1> QED
  BY <1>1, <1>2, <1>3, <1>5, <1>6, NothingDies

LEMMA RevokedStep == ASSUME PhoneInv, RevokedElsewhere PROVE PhoneInv'
<1>1. server' = [server EXCEPT !.inForce = 0, !.devices = {}] /\ UNCHANGED <<keystore, app, running, told>>
  BY DEF RevokedElsewhere
<1>2. /\ server' \in [inForce : Nat, issued : Nat, devices : SUBSET Nat] /\ server'.inForce = 0
      /\ server'.issued = server.issued
  BY <1>1, PhoneTyped
<1>3. PhoneTypeOK' /\ {keystore'.badge, app'.badge} \subseteq 0..server.issued
  BY <1>1, <1>2, PhoneTyped DEF PhoneInv, PhoneTypeOK
<1> QED
  BY <1>1, <1>2, <1>3, NothingDies

\* What the phone stores, asks and shows on the way.
LEMMA KeystoreTyped ==
  ASSUME PhoneInv
  PROVE  /\ \A b \in Nat : LET k == [keystore EXCEPT !.badge = b] IN k \in [badge : Nat, token : Nat] /\ k.badge = b
         /\ \A n \in Nat : LET k == [keystore EXCEPT !.token = n] IN
              k \in [badge : Nat, token : Nat] /\ k.badge = keystore.badge
  BY PhoneTyped

LEMMA TaskAt ==
  ASSUME NEW t \in PhoneTasks
  PROVE  /\ \A at \in PhoneSteps :
              LET d == [t EXCEPT !.at = at] IN d \in PhoneTasks /\ d.op = t.op /\ d.at = at /\ d.badge = t.badge
         /\ \A at \in PhoneSteps, n \in Nat :
              LET d == [t EXCEPT !.at = at, !.token = n] IN d \in PhoneTasks /\ d.op = t.op /\ d.at = at /\ d.badge = t.badge
  BY DEF PhoneTasks

LEMMA SaveStep == ASSUME PhoneInv, NEW t \in running, Save(t) PROVE PhoneInv'
<1>1. /\ t \in PhoneTasks /\ t.op = "save" /\ UNCHANGED <<server, told>> /\ t.badge \in Nat /\ t.badge <= server.issued
      /\ keystore \in [badge : Nat, token : Nat] /\ keystore.badge \in 0..server.issued /\ server.issued \in Nat
      /\ server \in [inForce : Nat, issued : Nat, devices : SUBSET Nat]
  BY PhoneTyped DEF Save
<1>2. CASE Goes(t, [t EXCEPT !.at = "store"]) /\ keystore' = [keystore EXCEPT !.token = 0] /\ UNCHANGED app
  <2> DEFINE next == [t EXCEPT !.at = "store"]
  <2>1. next \in PhoneTasks /\ next.op = t.op /\ next.badge = t.badge
    BY <1>1, PhoneNames, TaskAt
  <2>2. running' = (running \ {t}) \cup {next}
    BY <1>2 DEF Goes
  <2> HIDE DEF next
  <2>3. keystore' \in [badge : Nat, token : Nat] /\ keystore'.badge = keystore.badge
    BY <1>2, KeystoreTyped
  <2> QED
    BY <1>1, <1>2, <2>1, <2>2, <2>3, TaskGoesOn
<1>3. CASE Goes(t, [t EXCEPT !.at = "show"]) /\ keystore' = [keystore EXCEPT !.badge = t.badge] /\ UNCHANGED app
  <2> DEFINE next == [t EXCEPT !.at = "show"]
  <2>1. next \in PhoneTasks /\ next.op = t.op /\ next.badge = t.badge
    BY <1>1, PhoneNames, TaskAt
  <2>2. running' = (running \ {t}) \cup {next}
    BY <1>3 DEF Goes
  <2> HIDE DEF next
  <2>3. keystore' \in [badge : Nat, token : Nat] /\ keystore'.badge = t.badge /\ t.badge \in 0..server.issued
    BY <1>1, <1>3, KeystoreTyped
  <2> QED
    BY <1>1, <1>3, <2>1, <2>2, <2>3, TaskGoesOn
<1>4. CASE ShowsBadge(t, t.badge) /\ UNCHANGED keystore
  <2>1. t.badge \in 0..server.issued
    BY <1>1
  <2> QED
    BY <1>1, <1>4, <2>1, ShowsStep
<1> QED
  BY <1>2, <1>3, <1>4 DEF Save

LEMMA BrandStep == ASSUME PhoneInv, NEW t \in running, Brand(t) PROVE PhoneInv'
<1>1. /\ t \in PhoneTasks /\ t.op = "brand" /\ UNCHANGED <<server, told>> /\ t.badge \in Nat /\ t.badge <= server.issued
      /\ keystore \in [badge : Nat, token : Nat] /\ keystore.badge \in 0..server.issued /\ server.issued \in Nat
      /\ server \in [inForce : Nat, issued : Nat, devices : SUBSET Nat]
  BY PhoneTyped DEF Brand
<1>2. CASE PhoneEnds(t) /\ UNCHANGED <<keystore, app>>
  BY <1>1, <1>2, TaskGoesOn DEF PhoneEnds
<1>3. CASE Goes(t, [t EXCEPT !.at = "show"]) /\ keystore' = [keystore EXCEPT !.badge = t.badge] /\ UNCHANGED app
  <2> DEFINE next == [t EXCEPT !.at = "show"]
  <2>1. next \in PhoneTasks /\ next.op = t.op /\ next.badge = t.badge
    BY <1>1, PhoneNames, TaskAt
  <2>2. running' = (running \ {t}) \cup {next}
    BY <1>3 DEF Goes
  <2> HIDE DEF next
  <2>3. keystore' \in [badge : Nat, token : Nat] /\ keystore'.badge = t.badge /\ t.badge \in 0..server.issued
    BY <1>1, <1>3, KeystoreTyped
  <2> QED
    BY <1>1, <1>3, <2>1, <2>2, <2>3, TaskGoesOn
<1>4. CASE ShowsBadge(t, t.badge) /\ UNCHANGED keystore
  <2>1. t.badge \in 0..server.issued
    BY <1>1
  <2> QED
    BY <1>1, <1>4, <2>1, ShowsStep
<1> QED
  BY <1>2, <1>3, <1>4 DEF Brand

LEMMA RemovalStep == ASSUME PhoneInv, NEW t \in running, Removal(t) PROVE PhoneInv'
<1>1. /\ t \in PhoneTasks /\ t.op = "remove" /\ t.badge \in Nat /\ t.badge <= server.issued /\ t.badge # 0
      /\ keystore \in [badge : Nat, token : Nat] /\ keystore.badge \in 0..server.issued /\ server.issued \in Nat
      /\ server \in [inForce : Nat, issued : Nat, devices : SUBSET Nat] /\ app.badge \in 0..server.issued
      /\ told \in [removed : SUBSET Nat, unsaid : SUBSET Nat]
  BY PhoneTyped DEF Removal, PhoneInv, RemovalOK
<1> DEFINE next == [t EXCEPT !.at = "unregister"]
<1>2. next \in PhoneTasks /\ next.op = "remove" /\ next.badge = t.badge
  BY <1>1, PhoneNames, TaskAt
<1>3. CASE t.at = "revoke" /\ Refused(t) /\ UNCHANGED <<server, told, keystore, app>>
  <2>1. running' = running \ {t}
    BY <1>3 DEF Refused, PhoneEnds
  <2>2. PhoneTypeOK'
    BY <1>3, <2>1 DEF PhoneInv, PhoneTypeOK
  <2> QED
    BY <1>1, <1>3, <2>1, <2>2, NothingDies
<1>4. CASE t.at = "revoke" /\ Goes(t, next) /\ Revokes(t.badge) /\ UNCHANGED <<told, keystore, app>>
  <2>1. running' = (running \ {t}) \cup {next}
    BY <1>4 DEF Goes
  <2> HIDE DEF next
  <2>2. /\ server' \in [inForce : Nat, issued : Nat, devices : SUBSET Nat] /\ server'.issued = server.issued
        /\ server'.inForce \in {server.inForce, 0} /\ server'.inForce # t.badge
    BY <1>1, <1>4 DEF Revokes
  <2>3. PhoneTypeOK' /\ {keystore'.badge, app'.badge} \subseteq 0..server.issued
    BY <1>1, <1>2, <1>4, <2>1, <2>2 DEF PhoneInv, PhoneTypeOK
  <2>4. \A d \in running' \ running : d.op = t.op /\ d.badge = t.badge /\ d.badge # server'.inForce
    BY <1>1, <1>2, <2>1, <2>2
  <2> QED
    BY <1>4, <2>2, <2>3, <2>4, NothingDies
<1>5. CASE /\ t.at = "revoke" /\ Goes(t, next) /\ told' = [told EXCEPT !.unsaid = @ \cup {t.badge}]
           /\ UNCHANGED <<server, keystore, app>>
  <2>1. running' = (running \ {t}) \cup {next}
    BY <1>5 DEF Goes
  <2> HIDE DEF next
  <2>2. /\ told' \in [removed : SUBSET Nat, unsaid : SUBSET Nat] /\ told'.removed = told.removed
        /\ told'.unsaid = told.unsaid \cup {t.badge}
    BY <1>1, <1>5
  <2>3. PhoneTypeOK'
    BY <1>2, <1>5, <2>1, <2>2 DEF PhoneInv, PhoneTypeOK
  <2>4. IssuedOK'
    BY <1>1, <1>2, <1>5, <2>1, <2>2 DEF PhoneInv, IssuedOK
  <2>5. RemovalOK'
    BY <1>1, <1>2, <1>5, <2>1, <2>2 DEF PhoneInv, RemovalOK
  <2> QED
    BY <2>3, <2>4, <2>5 DEF PhoneInv
<1>6. CASE /\ t.at = "clear" /\ Goes(t, [t EXCEPT !.at = "show"]) /\ keystore' = [keystore EXCEPT !.badge = 0]
           /\ UNCHANGED <<server, app, told>>
  <2> DEFINE after == [t EXCEPT !.at = "show"]
  <2>1. after \in PhoneTasks /\ after.op = t.op /\ after.badge = t.badge
    BY <1>1, PhoneNames, TaskAt
  <2>2. running' = (running \ {t}) \cup {after}
    BY <1>6 DEF Goes
  <2> HIDE DEF after
  <2>3. keystore' \in [badge : Nat, token : Nat] /\ keystore'.badge = 0 /\ 0 \in 0..server.issued
    BY <1>1, <1>6, KeystoreTyped
  <2> QED
    BY <1>1, <1>6, <2>1, <2>2, <2>3, TaskGoesOn
<1>7. CASE /\ t.at = "show" /\ ShowsBadge(t, 0) /\ told' = [told EXCEPT !.removed = @ \cup {t.badge}]
           /\ UNCHANGED <<server, keystore>>
  <2>1. 0 \in 0..server.issued
    BY <1>1
  <2> QED
    BY <1>1, <1>7, <2>1, ShowsStep
<1> QED
  BY <1>3, <1>4, <1>5, <1>6, <1>7 DEF Removal

LEMMA DevicesChange ==
  ASSUME PhoneInv, NEW badge, NEW token \in Nat, Unregisters(badge, token) \/ server' = [server EXCEPT !.devices = @ \cup {token}]
  PROVE  /\ server' \in [inForce : Nat, issued : Nat, devices : SUBSET Nat] /\ server'.inForce = server.inForce
         /\ server'.issued = server.issued
<1>1. server \in [inForce : Nat, issued : Nat, devices : SUBSET Nat]
  BY PhoneTyped
<1>2. server' \in {server, [server EXCEPT !.devices = @ \ {token}], [server EXCEPT !.devices = @ \cup {token}]}
  BY DEF Unregisters
<1> QED
  BY <1>1, <1>2

LEMMA NoticesStep ==
  ASSUME PhoneInv, NEW t \in running, TurnsOff(t) \/ RegistersPhone(t) \/ Keeps(t) \/ Sync(t)
  PROVE  PhoneInv'
<1>1. /\ t \in PhoneTasks /\ UNCHANGED <<app, told>> /\ t.at # "revoke" /\ t.token \in Nat /\ keystore.token \in Nat
      /\ keystore \in [badge : Nat, token : Nat] /\ keystore.badge \in 0..server.issued /\ server.issued \in Nat
      /\ server \in [inForce : Nat, issued : Nat, devices : SUBSET Nat]
  <2>1. UNCHANGED <<app, told>>
    BY ZenonT(40) DEF TurnsOff, RegistersPhone, Keeps, Sync
  <2>2. t.at \in {"unregister", "forget", "clear", "register", "again", "keep", "read", "ask"}
    BY DEF TurnsOff, RegistersPhone, Keeps, Sync
  <2>3. t \in PhoneTasks
    BY PhoneTyped
  <2>4. t.token \in Nat
    BY <2>3 DEF PhoneTasks
  <2> QED
    BY <2>1, <2>2, <2>3, <2>4, PhoneTyped, SMTT(30)
<1>2. /\ server' \in [inForce : Nat, issued : Nat, devices : SUBSET Nat] /\ server'.inForce = server.inForce
      /\ server'.issued = server.issued
  <2>1. CASE TurnsOff(t)
    <3>1. server' = server \/ Unregisters(t.badge, keystore.token)
      BY <2>1 DEF TurnsOff
    <3> QED
      BY <1>1, <3>1, DevicesChange
  <2>2. CASE RegistersPhone(t)
    <3>1. server' = server \/ server' = [server EXCEPT !.devices = @ \cup {t.token}]
      BY <2>2 DEF RegistersPhone
    <3> QED
      BY <1>1, <3>1, DevicesChange
  <2>3. CASE Keeps(t)
    BY <1>1, <2>3 DEF Keeps
  <2>4. CASE Sync(t)
    <3>1. server' = server \/ Unregisters(t.badge, t.token)
      BY <2>4 DEF Sync
    <3> QED
      BY <1>1, <3>1, DevicesChange, SMTT(30)
  <2> QED
    BY <2>1, <2>2, <2>3, <2>4
<1>3. keystore' \in [badge : Nat, token : Nat] /\ keystore'.badge \in 0..server.issued
  <2>1. keystore' = keystore \/ \E n \in Nat : keystore' = [keystore EXCEPT !.token = n]
    BY <1>1 DEF TurnsOff, RegistersPhone, Keeps, Sync
  <2> QED
    BY <1>1, <2>1, KeystoreTyped, SMTT(30)
<1>4. \E next \in PhoneTasks : /\ next.op = t.op /\ next.badge = t.badge
                               /\ running' \in {(running \ {t}) \cup {next}, running \ {t}}
  <2>1. CASE running' = running \ {t}
    BY <1>1, <2>1
  <2>2. CASE \E at \in {"clear", "forget", "keep"} : running' = (running \ {t}) \cup {[t EXCEPT !.at = at]}
    <3>1. PICK at \in {"clear", "forget", "keep"} : running' = (running \ {t}) \cup {[t EXCEPT !.at = at]}
      BY <2>2
    <3> DEFINE next == [t EXCEPT !.at = at]
    <3>2. next \in PhoneTasks /\ next.op = t.op /\ next.badge = t.badge
      <4>1. at \in PhoneSteps
        BY DEF PhoneSteps
      <4> QED
        BY <1>1, <4>1, TaskAt
    <3>3. running' = (running \ {t}) \cup {next}
      BY <3>1
    <3> HIDE DEF next
    <3> QED
      BY <3>2, <3>3
  <2>3. CASE \E at \in {"ask", "unregister", "again", "register"}, n \in Nat :
               running' = (running \ {t}) \cup {[t EXCEPT !.at = at, !.token = n]}
    <3>1. PICK at \in {"ask", "unregister", "again", "register"}, n \in Nat :
            running' = (running \ {t}) \cup {[t EXCEPT !.at = at, !.token = n]}
      BY <2>3
    <3> DEFINE next == [t EXCEPT !.at = at, !.token = n]
    <3>2. next \in PhoneTasks /\ next.op = t.op /\ next.badge = t.badge
      <4>1. at \in PhoneSteps
        BY DEF PhoneSteps
      <4>2. next \in PhoneTasks
        BY <1>1, <4>1 DEF PhoneTasks
      <4> QED
        BY <1>1, <4>2 DEF PhoneTasks
    <3>3. running' = (running \ {t}) \cup {next}
      BY <3>1
    <3> HIDE DEF next
    <3> QED
      BY <3>2, <3>3
  <2>4. CASE TurnsOff(t)
    BY <2>1, <2>2, <2>4 DEF TurnsOff, Goes, PhoneEnds
  <2>5. CASE RegistersPhone(t)
    BY <2>1, <2>2, <2>5 DEF RegistersPhone, Goes, PhoneEnds
  <2>6. CASE Keeps(t)
    BY <2>1, <2>6, SMTT(30) DEF Keeps, PhoneEnds
  <2>7. CASE Sync(t)
    <3>1. CASE PhoneEnds(t)
      BY <2>1, <3>1 DEF PhoneEnds
    <3>2. CASE \E at \in {"ask", "unregister"} : Goes(t, [t EXCEPT !.at = at, !.token = keystore.token])
      BY <1>1, <2>3, <3>2 DEF Goes
    <3>3. ASSUME NEW token \in PushTokens,
                 Goes(t, [t EXCEPT !.at = IF t.token = token THEN "again" ELSE "register", !.token = token])
          PROVE  \E at \in {"ask", "unregister", "again", "register"}, n \in Nat :
                   running' = (running \ {t}) \cup {[t EXCEPT !.at = at, !.token = n]}
      <4>1. token \in Nat
        BY DEF PushTokens
      <4> QED
        BY <3>3, <4>1 DEF Goes
    <3> QED
      BY <2>3, <2>7, <3>1, <3>2, <3>3, ZenonT(40) DEF Sync
  <2> QED
    BY <2>4, <2>5, <2>6, <2>7
<1>5. PICK next \in PhoneTasks : /\ next.op = t.op /\ next.badge = t.badge
                                 /\ running' \in {(running \ {t}) \cup {next}, running \ {t}}
  BY <1>4
<1> QED
  BY <1>1, <1>2, <1>3, <1>5, TaskGoesOn

LEMMA PhoneStep ==
  ASSUME PhoneInv, [PhoneNext]_phoneVars
  PROVE  PhoneInv'
<1>1. CASE UNCHANGED phoneVars
  BY <1>1 DEF phoneVars, PhoneInv, PhoneTypeOK, IssuedOK, RemovalOK
<1> QED
  BY <1>1, ActivatesHereStep, StartsStep, ReopensStep, RevokedStep, SaveStep, BrandStep, RemovalStep, NoticesStep
  DEF PhoneNext

LEMMA RemovedIsDeadHolds == PhoneInv => RemovedIsDead
  BY DEF PhoneInv, RemovalOK, RemovedIsDead

-----------------------------------------------------------------------------
(* "My badge" in the browser *)

BadgeShown == [badge : Nat, view : {"badge", "settings", "apps"}, said : {"none", "ok", "stale", "offline"}, profile : Nat]
FirstRuns == [shows : {"email", "code"}, waits : {"none", "code", "provider", "badge"}, verifier : BOOLEAN]

BadgePageTypeOK ==
  /\ badgeServer \in [inForce : Nat, issued : Nat] /\ stored \in Nat /\ codeStep \in Nat
  /\ myBadge \in BadgeShown /\ setup \in FirstRuns /\ checks \subseteq [badge : Nat, answer : {"none", "ok", "stale"}]

\* The code on the screen is of the badge shown and of a step that has begun; the first run is
\* of a page without a badge.
CodeOK ==
  /\ drawn = NoCode \/ (drawn.badge # 0 /\ drawn.badge = myBadge.badge /\ drawn.step \in Nat /\ drawn.step <= codeStep)
  /\ setup.waits # "none" => myBadge.badge = 0

BadgePageInv == BadgePageTypeOK /\ CodeOK

CodeForward ==
  /\ drawn'.badge \in {0, myBadge'.badge}
  /\ drawn'.badge = drawn.badge => drawn'.step >= drawn.step

LEMMA BadgePageInits == BadgePageInit => BadgePageInv
  BY DEF BadgePageInit, BadgePageInv, BadgePageTypeOK, CodeOK, With, FirstRun, BadgeShown, FirstRuns

LEMMA BadgeTyped ==
  /\ NoCode.badge = 0 /\ NoCode.step = 0 /\ FirstRun \in FirstRuns /\ FirstRun.waits = "none"
  /\ \A b \in Nat : With(b) \in BadgeShown /\ With(b).badge = b
  /\ \A b \in BOOLEAN : [FirstRun EXCEPT !.verifier = b] \in FirstRuns /\ [FirstRun EXCEPT !.verifier = b].waits = "none"
  /\ [FirstRun EXCEPT !.waits = "badge"] \in FirstRuns
  BY DEF NoCode, With, FirstRun, BadgeShown, FirstRuns

LEMMA Question ==
  ASSUME BadgePageInv, NEW b \in Nat
  PROVE  Asking(b) \subseteq [badge : Nat, answer : {"none", "ok", "stale"}]
  BY DEF Asking, BadgePageInv, BadgePageTypeOK

\* The page stays, and so does the code, or it is taken away.
LEMMA CodeStays ==
  ASSUME BadgePageInv, BadgePageTypeOK', codeStep' \in {codeStep, codeStep + 1},
         \/ drawn' = drawn /\ myBadge'.badge = myBadge.badge
         \/ drawn' = NoCode
         \/ drawn' = Current /\ OnBadge /\ myBadge'.badge = myBadge.badge /\ codeStep' = codeStep,
         setup'.waits # "none" => myBadge'.badge = 0
  PROVE  BadgePageInv' /\ CodeForward
<1>1. /\ codeStep \in Nat /\ codeStep' \in Nat /\ NoCode.badge = 0 /\ NoCode.step = 0
      /\ Current.badge = myBadge.badge /\ Current.step = codeStep
  BY BadgeTyped DEF BadgePageInv, BadgePageTypeOK, Current
<1>2. CASE drawn' = drawn /\ myBadge'.badge = myBadge.badge
  <2>1. CodeOK'
    BY <1>1, <1>2 DEF BadgePageInv, CodeOK
  <2>2. drawn.step \in Nat /\ drawn.badge \in {0, myBadge.badge}
    BY <1>1 DEF BadgePageInv, CodeOK
  <2> QED
    BY <1>2, <2>1, <2>2 DEF CodeForward, BadgePageInv
<1>3. CASE drawn' = NoCode
  <2>1. drawn.badge = 0 => drawn.step = 0
    BY <1>1 DEF BadgePageInv, CodeOK
  <2> QED
    BY <1>1, <1>3, <2>1 DEF CodeForward, BadgePageInv, CodeOK
<1>4. CASE drawn' = Current /\ OnBadge /\ myBadge'.badge = myBadge.badge /\ codeStep' = codeStep
  BY <1>1, <1>4 DEF CodeForward, BadgePageInv, CodeOK, OnBadge
<1> QED
  BY <1>2, <1>3, <1>4

LEMMA PageLoads ==
  ASSUME BadgePageInv, ComesBack \/ ReloadsBadge
  PROVE  BadgePageInv' /\ CodeForward
<1>1. /\ myBadge' = With(stored) /\ drawn' = NoCode /\ UNCHANGED <<stored, badgeServer, codeStep>>
      /\ checks' = IF stored = 0 THEN {} ELSE {[badge |-> stored, answer |-> "none"]}
  BY DEF ComesBack, ReloadsBadge, LoadsPage, serverSide
<1>2. stored \in Nat /\ setup.verifier \in BOOLEAN
  BY DEF BadgePageInv, BadgePageTypeOK, FirstRuns
<1>3. /\ setup' \in FirstRuns
      /\ setup'.waits # "none" => stored = 0
  <2>1. CASE ComesBack
    BY <2>1, BadgeTyped DEF ComesBack
  <2>2. CASE ReloadsBadge
    BY <1>2, <2>2, BadgeTyped DEF ReloadsBadge
  <2> QED
    BY <2>1, <2>2
<1>4. myBadge' \in BadgeShown /\ myBadge'.badge = stored
  BY <1>1, <1>2, BadgeTyped
<1>5. BadgePageTypeOK'
  BY <1>1, <1>2, <1>3, <1>4 DEF BadgePageInv, BadgePageTypeOK
<1> QED
  BY <1>1, <1>3, <1>4, <1>5, CodeStays

LEMMA FirstRunGoesOn ==
  ASSUME BadgePageInv, Asks \/ SetupAnswered
  PROVE  BadgePageInv' /\ CodeForward
<1>1. setup \in FirstRuns /\ myBadge \in BadgeShown /\ BadgePageTypeOK /\ CodeOK /\ badgeServer.issued + 1 \in Nat
  BY DEF BadgePageInv, BadgePageTypeOK
<1>2. CASE Asks
  <2>1. /\ myBadge.badge = 0 /\ UNCHANGED <<stored, myBadge, checks, badgeServer, codeStep, drawn>>
        /\ \/ setup' \in {[setup EXCEPT !.waits = "code"], [setup EXCEPT !.waits = "provider", !.verifier = TRUE]}
           \/ setup' \in {[setup EXCEPT !.waits = "badge"], [setup EXCEPT !.shows = "email"]}
    BY <1>2 DEF Asks, serverSide, screenSide
  <2>2. setup' \in FirstRuns
    BY <1>1, <2>1 DEF FirstRuns
  <2>3. BadgePageTypeOK'
    BY <1>1, <2>1, <2>2 DEF BadgePageTypeOK
  <2> QED
    BY <2>1, <2>3, CodeStays
<1>3. CASE SetupAnswered
  <2>1. myBadge.badge = 0 /\ drawn = NoCode /\ UNCHANGED <<codeStep, drawn>>
    BY <1>1, <1>3, BadgeTyped DEF SetupAnswered, CodeOK, screenSide
  <2>2. CASE /\ setup' \in {[setup EXCEPT !.shows = "code", !.waits = "none"], [setup EXCEPT !.waits = "none"]}
             /\ UNCHANGED <<badgeServer, stored, myBadge, checks>>
    <3>1. setup' \in FirstRuns
      BY <1>1, <2>2 DEF FirstRuns
    <3>2. BadgePageTypeOK'
      BY <1>1, <2>1, <2>2, <3>1 DEF BadgePageTypeOK
    <3> QED
      BY <2>1, <2>2, <3>2, CodeStays
  <2>3. CASE /\ badgeServer' = [inForce |-> badgeServer.issued + 1, issued |-> badgeServer.issued + 1]
             /\ Activated(badgeServer.issued + 1)
    <3> DEFINE b == badgeServer.issued + 1
    <3>1. /\ stored' = b /\ myBadge' = With(b) /\ setup' = [FirstRun EXCEPT !.verifier = setup.verifier]
          /\ checks' = Asking(b) /\ b \in Nat /\ setup.verifier \in BOOLEAN
      BY <1>1, <2>3 DEF Activated, FirstRuns
    <3> HIDE DEF b
    <3>2. setup' \in FirstRuns /\ setup'.waits = "none" /\ myBadge' \in BadgeShown
      BY <3>1, BadgeTyped
    <3>3. badgeServer' \in [inForce : Nat, issued : Nat]
      BY <2>3, <3>1 DEF b
    <3>4. BadgePageTypeOK'
      BY <1>1, <2>1, <3>1, <3>2, <3>3, Question DEF BadgePageTypeOK
    <3> QED
      BY <2>1, <3>2, <3>4, CodeStays
  <2> QED
    BY <1>3, <2>2, <2>3 DEF SetupAnswered
<1> QED
  BY <1>2, <1>3

LEMMA BadgePageSteps ==
  ASSUME BadgePageInv, BadgePageNext
  PROVE  BadgePageInv' /\ CodeForward
<1>1. /\ setup \in FirstRuns /\ myBadge \in BadgeShown /\ BadgePageTypeOK /\ CodeOK /\ codeStep \in Nat /\ myBadge.badge \in Nat
      /\ badgeServer \in [inForce : Nat, issued : Nat] /\ badgeServer.issued + 1 \in Nat /\ stored \in Nat
  BY DEF BadgePageInv, BadgePageTypeOK, BadgeShown
<1>2. CASE CodePasses
  <2>1. codeStep' = codeStep + 1 /\ UNCHANGED <<badgeServer, stored, myBadge, setup, checks, drawn>>
    BY <1>2 DEF CodePasses, screenSide
  <2> QED
    BY <1>1, <2>1, CodeStays DEF BadgePageTypeOK, CodeOK
<1>3. CASE Draws
  <2>1. UNCHANGED <<badgeServer, stored, myBadge, setup, checks, drawn, codeStep>>
    BY <1>3 DEF Draws, serverSide
  <2> QED
    BY <1>1, <2>1, CodeStays DEF BadgePageTypeOK, CodeOK
<1>4. ASSUME NEW code \in drawing, Drawn(code)
      PROVE  BadgePageInv' /\ CodeForward
  <2>1. /\ UNCHANGED <<badgeServer, stored, myBadge, setup, checks, codeStep>>
        /\ drawn' = drawn \/ (drawn' = Current /\ OnBadge)
    BY <1>4 DEF Drawn, Alive, serverSide
  <2> QED
    BY <1>1, <2>1, CodeStays DEF BadgePageTypeOK, CodeOK
<1>5. CASE InFront
  <2>1. UNCHANGED <<badgeServer, stored, myBadge, setup, drawn, codeStep>> /\ checks' = Asking(myBadge.badge)
    BY <1>5 DEF InFront, serverSide, screenSide
  <2>2. BadgePageTypeOK'
    BY <1>1, <2>1, Question DEF BadgePageTypeOK
  <2> QED
    BY <1>1, <2>1, <2>2, CodeStays DEF CodeOK
<1>6. ASSUME NEW c \in checks, Checks(c)
      PROVE  BadgePageInv' /\ CodeForward
  <2>1. /\ UNCHANGED <<badgeServer, stored, myBadge, setup, drawn, codeStep>>
        /\ checks' = (checks \ {c}) \cup {[c EXCEPT !.answer = IF badgeServer.inForce = c.badge THEN "ok" ELSE "stale"]}
    BY <1>6 DEF Checks, serverSide, screenSide
  <2>2. BadgePageTypeOK'
    BY <1>1, <2>1 DEF BadgePageTypeOK
  <2> QED
    BY <1>1, <2>1, <2>2, CodeStays DEF CodeOK
<1>7. ASSUME NEW c \in checks, Said(c)
      PROVE  BadgePageInv' /\ CodeForward
  <2>1. /\ UNCHANGED <<badgeServer, stored, setup, drawn, codeStep>> /\ checks' \subseteq checks
        /\ myBadge' = IF c.answer = "ok" THEN [myBadge EXCEPT !.said = "ok", !.profile = c.badge]
                      ELSE IF c.answer = "stale" THEN [myBadge EXCEPT !.said = "stale", !.profile = 0]
                      ELSE [myBadge EXCEPT !.said = "offline"]
    BY <1>7 DEF Said, serverSide, screenSide
  <2>2. c.badge \in Nat
    BY <1>1 DEF BadgePageTypeOK
  <2>3. myBadge' \in BadgeShown /\ myBadge'.badge = myBadge.badge
    BY <1>1, <2>1, <2>2 DEF BadgeShown
  <2>4. BadgePageTypeOK'
    BY <1>1, <2>1, <2>3 DEF BadgePageTypeOK
  <2> QED
    BY <1>1, <2>1, <2>3, <2>4, CodeStays DEF CodeOK
<1>8. CASE Turns
  <2>1. /\ UNCHANGED <<badgeServer, stored, setup, checks, codeStep>> /\ drawn' = NoCode
        /\ \E view \in {"badge", "settings", "apps"} : myBadge' = [myBadge EXCEPT !.view = view]
    BY <1>8 DEF Turns, serverSide
  <2>2. myBadge' \in BadgeShown /\ myBadge'.badge = myBadge.badge
    BY <1>1, <2>1 DEF BadgeShown
  <2>3. BadgePageTypeOK'
    BY <1>1, <2>1, <2>2 DEF BadgePageTypeOK
  <2> QED
    BY <1>1, <2>1, <2>2, <2>3, CodeStays DEF CodeOK
<1>9. CASE Reactivates \/ Removes \/ Removed \/ OtherPage
  <2>1. /\ UNCHANGED <<setup, codeStep, checks>>
        /\ \/ drawn' = drawn /\ myBadge' = myBadge
           \/ drawn' = NoCode /\ myBadge' = With(0)
    BY <1>9 DEF Reactivates, Removes, Removed, OtherPage, Forgets, screenSide
  <2>2. stored' \in {stored, 0, badgeServer.issued + 1}
    BY <1>9 DEF Reactivates, Removes, Removed, OtherPage, Forgets, screenSide
  <2>3. badgeServer' \in {badgeServer, [badgeServer EXCEPT !.inForce = 0],
                          [inForce |-> badgeServer.issued + 1, issued |-> badgeServer.issued + 1]}
    BY <1>9 DEF Reactivates, Removes, Removed, OtherPage, Revoke
  <2>4. badgeServer' \in [inForce : Nat, issued : Nat]
    BY <1>1, <2>3
  <2>5. myBadge' \in BadgeShown /\ (setup'.waits # "none" => myBadge'.badge = 0)
    BY <1>1, <2>1, BadgeTyped DEF CodeOK
  <2>6. BadgePageTypeOK'
    BY <1>1, <2>1, <2>2, <2>4, <2>5 DEF BadgePageTypeOK
  <2> QED
    BY <2>1, <2>5, <2>6, CodeStays
<1> QED
  BY <1>2, <1>3, <1>4, <1>5, <1>6, <1>7, <1>8, <1>9, PageLoads, FirstRunGoesOn DEF BadgePageNext

LEMMA BadgePageStep ==
  ASSUME BadgePageInv, [BadgePageNext]_badgePageVars
  PROVE  BadgePageInv'
<1>1. CASE UNCHANGED badgePageVars
  BY <1>1 DEF badgePageVars, BadgePageInv, BadgePageTypeOK, CodeOK
<1> QED
  BY <1>1, BadgePageSteps

-----------------------------------------------------------------------------
(* Inviting from "My badge" *)

Saws == {"none", "ok", "refused", "unknown", "pending", "used", "cancelled"}
InviteRow == [status : {"pending", "used", "cancelled"}, form : Nat]
DeskStates ==
  [view : {"list", "new", "detail"}, form : Nat, id : Nat, of : Nat, status : Saws, code : Nat, busy : BOOLEAN,
   rows : Nat]
TaskStates ==
  [op : {"list", "create", "load", "code", "cancel"}, about : Nat, at : {"asked", "answered"}, saw : Saws,
   rows : Nat, live : BOOLEAN, ends : BOOLEAN]
OfOne == {"load", "code", "cancel"}

InvitingTypeOK ==
  /\ invites \in Seq(InviteRow) /\ desk \in DeskStates /\ tasks \subseteq TaskStates /\ overtaken \in BOOLEAN

\* What is asked about and shown was made.
MadeOK ==
  /\ desk.rows <= Len(invites)
  /\ desk.status = "pending" => desk.of \in DOMAIN invites
  /\ \A t \in tasks :
       /\ t.rows <= Len(invites)
       /\ t.op \in OfOne => t.about \in DOMAIN invites
       /\ t.op = "create" /\ t.at = "answered" /\ t.saw # "refused" => t.rows < Len(invites)

\* A request whose shows is in front is of that shows.
OfScreen ==
  \A t \in tasks : t.live =>
    /\ t.op = "list" => desk.view = "list"
    /\ t.op = "create" => desk.view = "new"
    /\ t.op \in OfOne => desk.view = "detail"

\* A form asks once at a time, and again only if its invitation was not heard of.
FormsOK ==
  /\ \A i \in DOMAIN invites : invites[i].form <= desk.form
  /\ \A t \in tasks : t.op = "create" =>
       /\ t.about <= desk.form
       /\ desk.view = "new" /\ t.about = desk.form => desk.busy
       /\ t.live => t.about = desk.form
       /\ t.at = "asked" => t.about \in unheard \/ \A i \in DOMAIN invites : invites[i].form # t.about
  /\ \A t, d \in tasks : t.op = "create" /\ d.op = "create" /\ t.about = d.about => t = d
  /\ desk.view = "new" /\ ~desk.busy =>
       desk.form \in unheard \/ \A i \in DOMAIN invites : invites[i].form # desk.form
  /\ \A i, j \in DOMAIN invites : i # j /\ invites[i].form = invites[j].form => invites[i].form \in unheard

\* One request at a time is about the invitation shown, until that is overtaken.
ShownOK ==
  ~overtaken =>
    /\ desk.status = "pending" => desk.of = desk.id
    /\ desk.code # 0 => desk.code = desk.id /\ desk.of = desk.id /\ desk.status = "pending"
    /\ \A t \in tasks : t.live /\ t.op \in OfOne =>
         t.about = desk.id /\ (t.op = "code" => desk.of = desk.id /\ desk.status = "pending")
    /\ \A t, d \in tasks : t.live /\ d.live /\ {t.op, d.op} \subseteq OfOne => t = d

InvitingInv == InvitingTypeOK /\ MadeOK /\ OfScreen /\ FormsOK /\ ShownOK

LEMMA TaskOfTyped ==
  \A op \in {"list", "create", "load", "code", "cancel"}, about \in Nat :
    LET t == TaskOf(op, about) IN
    /\ t \in TaskStates /\ t.op = op /\ t.about = about /\ t.at = "asked" /\ t.saw = "none" /\ t.rows = 0 /\ t.live = TRUE
    /\ t.ends = (op \in {"create", "cancel"})
  BY DEF TaskOf, TaskStates, Saws

LEMMA InvitingInits == InvitingInit => InvitingInv
<1> SUFFICES ASSUME InvitingInit PROVE InvitingInv
  OBVIOUS
<1> DEFINE t == TaskOf("list", 0)
<1>1. t \in TaskStates /\ t.op = "list" /\ t.about = 0 /\ t.at = "asked" /\ t.saw = "none" /\ t.rows = 0 /\ t.live = TRUE
  BY TaskOfTyped
<1> HIDE DEF t
<1>2. /\ invites = <<>> /\ tasks = {t} /\ unheard = {} /\ overtaken = FALSE
      /\ desk = [view |-> "list", form |-> 0, id |-> 0, of |-> 0, status |-> "unknown", code |-> 0, busy |-> FALSE,
                 rows |-> 0]
  BY DEF InvitingInit, t
<1>3. Len(invites) = 0 /\ DOMAIN invites = {} /\ invites \in Seq(InviteRow)
  BY <1>2
<1>4. desk \in DeskStates /\ desk.view = "list" /\ desk.rows = 0 /\ desk.status = "unknown" /\ desk.code = 0
  BY <1>2 DEF DeskStates, Saws
<1>5. InvitingTypeOK
  BY <1>1, <1>2, <1>3, <1>4 DEF InvitingTypeOK
<1>6. MadeOK /\ OfScreen /\ FormsOK /\ ShownOK
  BY <1>1, <1>2, <1>3, <1>4 DEF MadeOK, OfScreen, FormsOK, ShownOK, OfOne
<1> QED
  BY <1>5, <1>6 DEF InvitingInv

LEMMA InvitesTyped ==
  ASSUME InvitingInv
  PROVE  /\ invites \in Seq(InviteRow) /\ Len(invites) \in Nat /\ DOMAIN invites = 1..Len(invites)
         /\ desk \in DeskStates /\ desk.rows \in Nat /\ desk.form \in Nat /\ desk.id \in Nat /\ desk.of \in Nat
         /\ \A i \in DOMAIN invites : invites[i].form \in Nat /\ invites[i].status \in {"pending", "used", "cancelled"}
         /\ \A t \in tasks : t \in TaskStates /\ t.about \in Nat /\ t.rows \in Nat
         /\ MadeOK /\ OfScreen /\ FormsOK /\ ShownOK /\ overtaken \in BOOLEAN
<1>1. invites \in Seq(InviteRow) /\ desk \in DeskStates /\ tasks \subseteq TaskStates
      /\ MadeOK /\ OfScreen /\ FormsOK /\ ShownOK /\ overtaken \in BOOLEAN
  BY DEF InvitingInv, InvitingTypeOK
<1>2. Len(invites) \in Nat /\ DOMAIN invites = 1..Len(invites)
  BY <1>1
<1>3. \A i \in DOMAIN invites : invites[i] \in InviteRow
  BY <1>1
<1> QED
  BY <1>1, <1>2, <1>3 DEF InviteRow, DeskStates, TaskStates

LEMMA TaskLeft ==
  ASSUME NEW t \in TaskStates
  PROVE  LET d == [t EXCEPT !.live = FALSE] IN
         /\ d \in TaskStates /\ d.live = FALSE /\ d.op = t.op /\ d.about = t.about /\ d.at = t.at /\ d.saw = t.saw
         /\ d.rows = t.rows
  BY DEF TaskStates

LEMMA ScreenComes ==
  ASSUME InvitingInv, NEW shows \in DeskStates, NEW rest, rest \subseteq tasks, Comes(shows, rest),
         UNCHANGED <<invites, unheard>>, shows.rows = desk.rows, shows.status = "unknown", shows.code = 0, shows.of = 0,
         shows.busy = FALSE, desk.form <= shows.form, shows.view = "new" => desk.form < shows.form,
         shows.view = "detail" => shows.id \in DOMAIN invites
  PROVE  InvitingInv'
<1> DEFINE more == CASE shows.view = "list"   -> {TaskOf("list", 0)}
                     [] shows.view = "detail" -> {TaskOf("load", shows.id)}
                     [] OTHER                  -> {}
<1>1. desk' = shows /\ tasks' = Unmounted(rest) \cup more /\ overtaken' = FALSE
  BY DEF Comes
<1>2. \A d \in more :
        /\ d \in TaskStates /\ d.at = "asked" /\ d.rows = 0
        /\ \/ d.op = "list" /\ shows.view = "list"
           \/ d.op = "load" /\ d.about = shows.id /\ shows.view = "detail"
  <2>1. shows.id \in Nat
    BY DEF DeskStates
  <2> QED
    BY <2>1, TaskOfTyped
<1>3. \A d, e \in more : d = e
  OBVIOUS
<1> HIDE DEF more
<1>4. \A d \in Unmounted(rest) : \E t \in tasks :
        /\ d \in TaskStates /\ d.live = FALSE /\ d = [t EXCEPT !.live = FALSE] /\ d.op = t.op /\ d.about = t.about
        /\ d.at = t.at /\ d.saw = t.saw /\ d.rows = t.rows
  <2> TAKE d \in Unmounted(rest)
  <2>1. PICK t \in tasks : d = [t EXCEPT !.live = FALSE]
    BY DEF Unmounted
  <2>2. t \in TaskStates
    BY InvitesTyped
  <2> QED
    BY <2>1, <2>2, TaskLeft
<1>5. \A d \in tasks' : \/ d \in more
                        \/ d \in Unmounted(rest)
  BY <1>1
<1>6. /\ shows.form \in Nat /\ desk.form \in Nat /\ Len(invites) \in Nat /\ DOMAIN invites = 1..Len(invites)
      /\ \A i \in DOMAIN invites : invites[i].form \in Nat
      /\ \A t \in tasks : t.about \in Nat /\ t.rows \in Nat
  BY InvitesTyped DEF DeskStates
<1>7. InvitingTypeOK'
  BY <1>1, <1>2, <1>4, <1>5, InvitesTyped DEF InvitingTypeOK
<1>8. MadeOK'
  BY <1>1, <1>2, <1>4, <1>5, <1>6, InvitesTyped DEF MadeOK, OfOne
<1>9. OfScreen'
  BY <1>1, <1>2, <1>4, <1>5 DEF OfScreen, OfOne
<1>10. FormsOK'
  <2>1. \A i \in DOMAIN invites' : invites'[i].form <= desk'.form
    BY <1>1, <1>6, InvitesTyped DEF FormsOK
  <2>2. \A d \in tasks' : d.op = "create" =>
          /\ d.about <= desk'.form
          /\ desk'.view = "new" /\ d.about = desk'.form => desk'.busy
          /\ d.live => d.about = desk'.form
          /\ d.at = "asked" => d.about \in unheard' \/ \A i \in DOMAIN invites' : invites'[i].form # d.about
    <3> TAKE d \in tasks'
    <3> HAVE d.op = "create"
    <3>1. PICK t \in tasks : d.live = FALSE /\ t.op = "create" /\ d.about = t.about /\ d.at = t.at
      BY <1>2, <1>4, <1>5
    <3>2. t.about <= desk.form /\ t.about \in Nat
      BY <3>1, InvitesTyped DEF FormsOK
    <3> QED
      BY <1>1, <1>6, <3>1, <3>2, InvitesTyped DEF FormsOK
  <2>3. \A d, e \in tasks' : d.op = "create" /\ e.op = "create" /\ d.about = e.about => d = e
    <3> TAKE d, e \in tasks'
    <3> HAVE d.op = "create" /\ e.op = "create" /\ d.about = e.about
    <3>1. PICK t \in tasks : d = [t EXCEPT !.live = FALSE] /\ t.op = "create" /\ d.about = t.about
      BY <1>2, <1>4, <1>5
    <3>2. PICK s \in tasks : e = [s EXCEPT !.live = FALSE] /\ s.op = "create" /\ e.about = s.about
      BY <1>2, <1>4, <1>5
    <3>3. t = s
      BY <3>1, <3>2, InvitesTyped DEF FormsOK
    <3> QED
      BY <3>1, <3>2, <3>3
  <2>4. desk'.view = "new" => \A i \in DOMAIN invites' : invites'[i].form # desk'.form
    BY <1>1, <1>6, InvitesTyped DEF FormsOK
  <2> QED
    BY <1>1, <2>1, <2>2, <2>3, <2>4, InvitesTyped DEF FormsOK
<1>11. ShownOK'
  <2>1. \A d \in tasks' : d.live /\ d.op \in OfOne => d \in more /\ d.op = "load" /\ d.about = desk'.id
    BY <1>1, <1>2, <1>4, <1>5 DEF OfOne
  <2> QED
    BY <1>1, <1>3, <2>1 DEF ShownOK
<1> QED
  BY <1>7, <1>8, <1>9, <1>10, <1>11 DEF InvitingInv

LEMMA ScreensTurn ==
  ASSUME InvitingInv, \/ BacksOut \/ OpensForm
                      \/ \E i \in 1..LastInvite : OpensInvite(i)
  PROVE  InvitingInv'
<1>1. /\ desk.rows \in Nat /\ desk.form \in Nat /\ desk.rows <= Len(invites) /\ Len(invites) \in Nat
      /\ DOMAIN invites = 1..Len(invites)
  BY InvitesTyped DEF MadeOK
<1>2. \A view \in {"list", "new", "detail"}, f \in Nat, id \in Nat :
        LET shows == Shown(view, f, id) IN
        /\ shows \in DeskStates /\ shows.view = view /\ shows.form = f /\ shows.id = id /\ shows.of = 0
        /\ shows.status = "unknown" /\ shows.code = 0 /\ shows.busy = FALSE /\ shows.rows = desk.rows
  BY <1>1 DEF Shown, DeskStates, Saws
<1>3. CASE BacksOut
  <2> DEFINE shows == Shown("list", desk.form, 0)
  <2>1. Comes(shows, tasks) /\ UNCHANGED <<invites, unheard>>
    BY <1>3 DEF BacksOut
  <2>2. /\ shows \in DeskStates /\ shows.view = "list" /\ shows.form = desk.form /\ shows.of = 0
        /\ shows.status = "unknown" /\ shows.code = 0 /\ shows.busy = FALSE /\ shows.rows = desk.rows
    BY <1>1, <1>2
  <2> HIDE DEF shows
  <2>4. /\ desk.form <= shows.form /\ (shows.view = "new" => desk.form < shows.form) /\ tasks \subseteq tasks
        /\ (shows.view = "detail" => shows.id \in DOMAIN invites)
    BY <1>1, <2>2
  <2> QED
    BY <2>1, <2>2, <2>4, ScreenComes
<1>4. CASE OpensForm
  <2> DEFINE shows == Shown("new", desk.form + 1, 0)
  <2>1. Comes(shows, tasks) /\ UNCHANGED <<invites, unheard>>
    BY <1>4 DEF OpensForm
  <2>2. /\ shows \in DeskStates /\ shows.view = "new" /\ shows.form = desk.form + 1 /\ shows.of = 0
        /\ shows.status = "unknown" /\ shows.code = 0 /\ shows.busy = FALSE /\ shows.rows = desk.rows
    BY <1>1, <1>2, SMTT(30)
  <2> HIDE DEF shows
  <2>4. /\ desk.form <= shows.form /\ (shows.view = "new" => desk.form < shows.form) /\ tasks \subseteq tasks
        /\ (shows.view = "detail" => shows.id \in DOMAIN invites)
    BY <1>1, <2>2
  <2> QED
    BY <2>1, <2>2, <2>4, ScreenComes
<1>5. ASSUME NEW i \in 1..LastInvite, OpensInvite(i)
      PROVE  InvitingInv'
  <2> DEFINE shows == Shown("detail", desk.form, i)
  <2>1. Comes(shows, tasks) /\ UNCHANGED <<invites, unheard>> /\ i \in 1..desk.rows
    BY <1>5 DEF OpensInvite
  <2>2. i \in Nat /\ i \in DOMAIN invites
    BY <1>1, <2>1
  <2>3. /\ shows \in DeskStates /\ shows.view = "detail" /\ shows.form = desk.form /\ shows.of = 0 /\ shows.id = i
        /\ shows.status = "unknown" /\ shows.code = 0 /\ shows.busy = FALSE /\ shows.rows = desk.rows
    BY <1>1, <1>2, <2>2, SMTT(30)
  <2> HIDE DEF shows
  <2>4. /\ desk.form <= shows.form /\ (shows.view = "new" => desk.form < shows.form) /\ tasks \subseteq tasks
        /\ (shows.view = "detail" => shows.id \in DOMAIN invites)
    BY <1>1, <2>2, <2>3
  <2> QED
    BY <2>1, <2>3, <2>4, ScreenComes
<1> QED
  BY <1>3, <1>4, <1>5

\* A shows that stays asks for something.
LEMMA ScreenAsks ==
  ASSUME InvitingInv, ListAgain \/ Creates \/ CancelsInvite
  PROVE  InvitingInv'
<1> USE InvitesTyped
<1>1. CASE ListAgain
  <2> DEFINE d == TaskOf("list", 0)
  <2>1. d \in TaskStates /\ d.op = "list" /\ d.about = 0 /\ d.at = "asked" /\ d.rows = 0
    BY TaskOfTyped
  <2>2. desk.view = "list" /\ tasks' = tasks \cup {d} /\ UNCHANGED <<invites, desk, unheard, overtaken>>
    BY <1>1 DEF ListAgain
  <2> HIDE DEF d
  <2>3. InvitingTypeOK' /\ MadeOK' /\ OfScreen'
    BY <2>1, <2>2 DEF InvitingInv, InvitingTypeOK, MadeOK, OfScreen, OfOne
  <2>4. FormsOK'
    BY <2>1, <2>2 DEF FormsOK
  <2>5. ShownOK'
    BY <2>1, <2>2 DEF ShownOK, OfOne
  <2> QED
    BY <2>3, <2>4, <2>5 DEF InvitingInv
<1>2. CASE Creates
  <2> DEFINE d == TaskOf("create", desk.form)
  <2>1. d \in TaskStates /\ d.op = "create" /\ d.about = desk.form /\ d.at = "asked" /\ d.rows = 0 /\ d.live = TRUE
    BY TaskOfTyped
  <2>2. /\ desk.view = "new" /\ ~desk.busy /\ desk' = [desk EXCEPT !.busy = TRUE] /\ tasks' = tasks \cup {d}
        /\ UNCHANGED <<invites, unheard, overtaken>>
    BY <1>2 DEF Creates, Complete
  <2> HIDE DEF d
  <2>3. /\ desk' \in DeskStates /\ desk'.view = "new" /\ desk'.form = desk.form /\ desk'.id = desk.id /\ desk'.of = desk.of
        /\ desk'.status = desk.status /\ desk'.code = desk.code /\ desk'.busy /\ desk'.rows = desk.rows
    BY <2>2 DEF DeskStates
  <2>4. InvitingTypeOK' /\ MadeOK' /\ OfScreen'
    BY <2>1, <2>2, <2>3 DEF InvitingInv, InvitingTypeOK, MadeOK, OfScreen, OfOne
  <2>5. FormsOK'
    BY <2>1, <2>2, <2>3 DEF FormsOK
  <2>6. ShownOK'
    BY <2>1, <2>2, <2>3 DEF ShownOK, OfOne
  <2> QED
    BY <2>4, <2>5, <2>6 DEF InvitingInv
<1>3. CASE CancelsInvite
  <2> DEFINE d == TaskOf("cancel", desk.of)
  <2>1. d \in TaskStates /\ d.op = "cancel" /\ d.about = desk.of /\ d.at = "asked" /\ d.rows = 0 /\ d.live = TRUE
    BY TaskOfTyped
  <2>2. /\ desk.view = "detail" /\ desk.status = "pending" /\ desk' = [desk EXCEPT !.busy = TRUE]
        /\ tasks' = tasks \cup {d} /\ overtaken' = (overtaken \/ \E t \in tasks : t.live) /\ UNCHANGED <<invites, unheard>>
    BY <1>3 DEF CancelsInvite
  <2> HIDE DEF d
  <2>3. /\ desk' \in DeskStates /\ desk'.view = "detail" /\ desk'.form = desk.form /\ desk'.id = desk.id
        /\ desk'.of = desk.of /\ desk'.status = desk.status /\ desk'.code = desk.code /\ desk'.busy /\ desk'.rows = desk.rows
    BY <2>2 DEF DeskStates
  <2>4. InvitingTypeOK' /\ MadeOK' /\ OfScreen'
    BY <2>1, <2>2, <2>3 DEF InvitingInv, InvitingTypeOK, MadeOK, OfScreen, OfOne
  <2>5. FormsOK'
    BY <2>1, <2>2, <2>3 DEF FormsOK
  <2>6. ShownOK'
    BY <2>1, <2>2, <2>3, ZenonT(40) DEF ShownOK, OfOne
  <2> QED
    BY <2>4, <2>5, <2>6 DEF InvitingInv
<1> QED
  BY <1>1, <1>2, <1>3

\* The server answers a request; a new invitation is of the form that asks for it.
LEMMA InviteAnswered ==
  ASSUME InvitingInv, NEW t \in tasks, t.at = "asked", NEW saw \in Saws, Answer(t, saw),
         UNCHANGED <<desk, unheard, overtaken>>, invites' \in Seq(InviteRow), Len(invites) <= Len(invites'),
         \A i \in DOMAIN invites : invites'[i].form = invites[i].form,
         \A i \in DOMAIN invites' \ DOMAIN invites :
           i = Len(invites) + 1 /\ t.op = "create" /\ saw = "ok" /\ invites'[i].form = t.about,
         t.op = "create" /\ saw # "refused" => Len(invites) < Len(invites')
  PROVE  InvitingInv'
<1> DEFINE d == [t EXCEPT !.at = "answered", !.saw = saw, !.rows = Len(invites)]
<1>1. tasks' = (tasks \ {t}) \cup {d}
  BY DEF Answer
<1>2. /\ t \in TaskStates /\ Len(invites) \in Nat /\ DOMAIN invites = 1..Len(invites) /\ t.about \in Nat
      /\ Len(invites') \in Nat /\ DOMAIN invites' = 1..Len(invites') /\ desk.form \in Nat /\ desk.of \in Nat
      /\ \A i \in DOMAIN invites : invites[i].form \in Nat
  BY InvitesTyped
<1>3. d \in TaskStates /\ d.op = t.op /\ d.about = t.about /\ d.at = "answered" /\ d.saw = saw /\ d.rows = Len(invites)
      /\ d.live = t.live
  BY <1>2 DEF TaskStates
<1> HIDE DEF d
<1>4. InvitingTypeOK'
  BY <1>1, <1>3 DEF InvitingInv, InvitingTypeOK
<1>5. MadeOK'
  BY <1>1, <1>2, <1>3, InvitesTyped, SMTT(30) DEF MadeOK, OfOne
<1>6. OfScreen'
  BY <1>1, <1>3, InvitesTyped DEF OfScreen, OfOne
<1>7. FormsOK'
  <2>1. t.op = "create" => t.about <= desk.form
                           /\ (t.about \in unheard \/ \A i \in DOMAIN invites : invites[i].form # t.about)
    BY InvitesTyped DEF FormsOK
  <2>2. \A i \in DOMAIN invites' : invites'[i].form <= desk'.form
    BY <1>2, <2>1, InvitesTyped DEF FormsOK
  <2>3. \A c, e \in tasks' : c.op = "create" /\ e.op = "create" /\ c.about = e.about => c = e
    BY <1>1, <1>3, InvitesTyped DEF FormsOK
  <2>4. \A e \in tasks : e # t /\ e.op = "create" /\ t.op = "create" => e.about # t.about
    BY InvitesTyped DEF FormsOK
  <2>5. \A e \in tasks' : e.op = "create" =>
       /\ e.about <= desk'.form
       /\ desk'.view = "new" /\ e.about = desk'.form => desk'.busy
       /\ e.live => e.about = desk'.form
       /\ e.at = "asked" => e.about \in unheard' \/ \A i \in DOMAIN invites' : invites'[i].form # e.about
    <3> TAKE e \in tasks'
    <3> HAVE e.op = "create"
    <3>1. CASE e = d
      <4>1. /\ t.op = "create" /\ e.about = t.about /\ e.live = t.live /\ e.at = "answered" /\ desk' = desk
        BY <1>3, <3>1
      <4>2. /\ t.about <= desk.form /\ (desk.view = "new" /\ t.about = desk.form => desk.busy)
            /\ (t.live => t.about = desk.form)
        BY <4>1, InvitesTyped DEF FormsOK
      <4> QED
        BY <4>1, <4>2
    <3>2. CASE e \in tasks /\ e # t
      <4>1. \A i \in DOMAIN invites' \ DOMAIN invites : invites'[i].form # e.about
        BY <2>4, <3>2
      <4> QED
        BY <3>2, <4>1, InvitesTyped DEF FormsOK
    <3> QED
      BY <1>1, <3>1, <3>2
  <2>6. desk'.view = "new" /\ ~desk'.busy =>
          desk'.form \in unheard' \/ \A i \in DOMAIN invites' : invites'[i].form # desk'.form
    BY InvitesTyped DEF FormsOK
  <2>7. \A i, j \in DOMAIN invites' : i # j /\ invites'[i].form = invites'[j].form => invites'[i].form \in unheard'
    <3>1. \A i, j \in DOMAIN invites : i # j /\ invites[i].form = invites[j].form => invites[i].form \in unheard
      BY InvitesTyped DEF FormsOK
    <3> TAKE i, j \in DOMAIN invites'
    <3> HAVE i # j /\ invites'[i].form = invites'[j].form
    <3>2. CASE i \in DOMAIN invites /\ j \in DOMAIN invites
      BY <3>1, <3>2
    <3>3. CASE i \in DOMAIN invites' \ DOMAIN invites
      BY <2>1, <3>3
    <3>4. CASE j \in DOMAIN invites' \ DOMAIN invites
      BY <2>1, <3>4
    <3> QED
      BY <3>2, <3>3, <3>4
  <2> QED
    BY <2>2, <2>3, <2>5, <2>6, <2>7 DEF FormsOK
<1>8. ShownOK'
  BY <1>1, <1>3, InvitesTyped DEF ShownOK, OfOne
<1> QED
  BY <1>4, <1>5, <1>6, <1>7, <1>8 DEF InvitingInv

LEMMA ServesStep ==
  ASSUME InvitingInv, NEW t \in tasks, ServesInvite(t)
  PROVE  InvitingInv'
<1>1. /\ t.at = "asked" /\ UNCHANGED <<desk, unheard, overtaken>> /\ t.about \in Nat
      /\ invites \in Seq(InviteRow) /\ Len(invites) \in Nat /\ DOMAIN invites = 1..Len(invites)
      /\ \A i \in DOMAIN invites : invites[i].form \in Nat /\ invites[i].status \in {"pending", "used", "cancelled"}
      /\ t.op \in OfOne => t.about \in DOMAIN invites
  BY InvitesTyped DEF ServesInvite, MadeOK
<1>2. ASSUME NEW saw \in Saws, Answer(t, saw), UNCHANGED invites, t.op = "create" => saw = "refused"
      PROVE  InvitingInv'
  <2>1. /\ invites' \in Seq(InviteRow) /\ Len(invites) <= Len(invites')
        /\ \A i \in DOMAIN invites : invites'[i].form = invites[i].form
        /\ \A i \in DOMAIN invites' \ DOMAIN invites :
             i = Len(invites) + 1 /\ t.op = "create" /\ saw = "ok" /\ invites'[i].form = t.about
        /\ t.op = "create" /\ saw # "refused" => Len(invites) < Len(invites')
    BY <1>1, <1>2
  <2> QED
    BY <1>1, <1>2, <2>1, InviteAnswered
<1>3. CASE t.op = "create" /\ invites' = Made(t.about) /\ Answer(t, "ok")
  <2> DEFINE row == [status |-> "pending", form |-> t.about]
  <2>1. row \in InviteRow /\ row.form = t.about
    BY <1>1 DEF InviteRow
  <2>2. invites' = Append(invites, row)
    BY <1>3 DEF Made
  <2> HIDE DEF row
  <2>3. /\ invites' \in Seq(InviteRow) /\ Len(invites') = Len(invites) + 1 /\ DOMAIN invites' = 1..(Len(invites) + 1)
        /\ invites'[Len(invites) + 1] = row /\ \A i \in 1..Len(invites) : invites'[i] = invites[i]
    BY <1>1, <2>1, <2>2
  <2>4. /\ Len(invites) <= Len(invites') /\ "ok" \in Saws
        /\ \A i \in DOMAIN invites : invites'[i].form = invites[i].form
        /\ \A i \in DOMAIN invites' \ DOMAIN invites : i = Len(invites) + 1 /\ invites'[i].form = t.about
        /\ Len(invites) < Len(invites')
    BY <1>1, <2>1, <2>3 DEF Saws
  <2> QED
    BY <1>1, <1>3, <2>3, <2>4, InviteAnswered
<1>4. CASE t.op = "cancel" /\ Answer(t, "ok") /\ invites' = [invites EXCEPT ![t.about].status = "cancelled"]
  <2>1. t.about \in DOMAIN invites /\ t.op # "create" /\ "ok" \in Saws
    BY <1>1, <1>4 DEF OfOne, Saws
  <2>2. invites[t.about] \in InviteRow
    BY <1>1, <2>1
  <2> DEFINE row == [invites[t.about] EXCEPT !.status = "cancelled"]
  <2>4. row \in InviteRow /\ row.form = invites[t.about].form
    BY <2>2 DEF InviteRow
  <2>5. invites' = [invites EXCEPT ![t.about] = row]
    BY <1>4
  <2> HIDE DEF row
  <2>6. /\ invites' \in Seq(InviteRow) /\ Len(invites') = Len(invites) /\ DOMAIN invites' = DOMAIN invites
        /\ \A i \in DOMAIN invites : invites'[i] = IF i = t.about THEN row ELSE invites[i]
    BY <1>1, <2>1, <2>4, <2>5
  <2>7. /\ \A i \in DOMAIN invites : invites'[i].form = invites[i].form
        /\ DOMAIN invites' \ DOMAIN invites = {}
        /\ Len(invites) <= Len(invites')
    BY <1>1, <2>4, <2>6
  <2> QED
    BY <1>1, <1>4, <2>1, <2>6, <2>7, InviteAnswered
<1>5. CASE t.op = "load" /\ Answer(t, invites[t.about].status) /\ UNCHANGED invites
  <2>1. invites[t.about].status \in Saws /\ t.op # "create"
    BY <1>1, <1>5 DEF OfOne, Saws
  <2> QED
    BY <1>2, <1>5, <2>1
<1>6. CASE t.op \in {"list", "code"} /\ Answer(t, "ok") /\ UNCHANGED invites
  BY <1>2, <1>6 DEF Saws
<1>7. CASE Answer(t, "refused") /\ UNCHANGED invites
  BY <1>2, <1>7 DEF Saws
<1> QED
  BY <1>3, <1>4, <1>5, <1>6, <1>7 DEF ServesInvite

LEMMA ElsewhereStep ==
  ASSUME InvitingInv, NEW i \in 1..LastInvite, ChangesElsewhere(i)
  PROVE  InvitingInv'
<1>1. /\ i \in DOMAIN invites /\ UNCHANGED <<desk, tasks, unheard, overtaken>>
      /\ invites \in Seq(InviteRow) /\ Len(invites) \in Nat /\ DOMAIN invites = 1..Len(invites)
  BY InvitesTyped DEF ChangesElsewhere
<1>2. PICK status \in {"used", "cancelled"} : invites' = [invites EXCEPT ![i].status = status]
  BY DEF ChangesElsewhere
<1> DEFINE row == [invites[i] EXCEPT !.status = status]
<1>3. row \in InviteRow /\ row.form = invites[i].form
  <2>1. invites[i] \in InviteRow
    BY <1>1
  <2> QED
    BY <2>1 DEF InviteRow
<1>4. invites' = [invites EXCEPT ![i] = row]
  BY <1>2
<1> HIDE DEF row
<1>5. /\ invites' \in Seq(InviteRow) /\ Len(invites') = Len(invites) /\ DOMAIN invites' = DOMAIN invites
      /\ \A j \in DOMAIN invites : invites'[j] = IF j = i THEN row ELSE invites[j]
  BY <1>1, <1>3, <1>4
<1>6. \A j \in DOMAIN invites : invites'[j].form = invites[j].form
  BY <1>3, <1>5
<1>7. InvitingTypeOK' /\ MadeOK' /\ OfScreen'
  BY <1>1, <1>5, InvitesTyped DEF InvitingInv, InvitingTypeOK, MadeOK, OfScreen
<1>8. FormsOK'
  <2>1. FormsOK /\ DOMAIN invites' = DOMAIN invites /\ \A j \in DOMAIN invites' : invites'[j].form = invites[j].form
    BY <1>5, <1>6, InvitesTyped
  <2>2. \A j \in DOMAIN invites' : invites'[j].form <= desk'.form
    BY <1>1, <2>1 DEF FormsOK
  <2>3. \A n : (\A j \in DOMAIN invites : invites[j].form # n) => \A j \in DOMAIN invites' : invites'[j].form # n
    BY <2>1
  <2>4. \A t \in tasks' : t.op = "create" =>
       /\ t.about <= desk'.form
       /\ desk'.view = "new" /\ t.about = desk'.form => desk'.busy
       /\ t.live => t.about = desk'.form
       /\ t.at = "asked" => t.about \in unheard' \/ \A j \in DOMAIN invites' : invites'[j].form # t.about
    <3> TAKE t \in tasks'
    <3> HAVE t.op = "create"
    <3> QED
      BY <1>1, <2>1, <2>3 DEF FormsOK
  <2>5. desk'.view = "new" /\ ~desk'.busy =>
          desk'.form \in unheard' \/ \A j \in DOMAIN invites' : invites'[j].form # desk'.form
    BY <1>1, <2>1, <2>3 DEF FormsOK
  <2>6. \A t, d \in tasks' : t.op = "create" /\ d.op = "create" /\ t.about = d.about => t = d
    BY <1>1, <2>1 DEF FormsOK
  <2>7. \A j, k \in DOMAIN invites' : j # k /\ invites'[j].form = invites'[k].form => invites'[j].form \in unheard'
    BY <1>1, <2>1 DEF FormsOK
  <2> QED
    BY <2>2, <2>4, <2>5, <2>6, <2>7 DEF FormsOK
<1>9. ShownOK'
  BY <1>1, InvitesTyped DEF ShownOK
<1> QED
  BY <1>7, <1>8, <1>9 DEF InvitingInv

\* A request ends, and changes only what the shows shows: the rows, the code, whether it waits.
LEMMA InviteEnds ==
  ASSUME InvitingInv, NEW t \in tasks, tasks' = tasks \ {t}, UNCHANGED <<invites, overtaken>>, unheard \subseteq unheard',
         desk' \in DeskStates, desk'.view = desk.view, desk'.form = desk.form, desk'.id = desk.id, desk'.of = desk.of,
         desk'.status = desk.status, desk'.rows \in {desk.rows, t.rows},
         \/ desk'.code = desk.code
         \/ t.live /\ t.op = "code" /\ desk'.code = t.about,
         \/ desk'.busy = desk.busy
         \/ desk.view # "new"
         \/ t.op = "create" /\ t.live /\ t.about \in unheard'
  PROVE  InvitingInv'
<1> USE InvitesTyped
<1>1. InvitingTypeOK' /\ MadeOK' /\ OfScreen'
  BY DEF InvitingInv, InvitingTypeOK, MadeOK, OfScreen
<1>2. FormsOK'
  BY SMTT(30) DEF FormsOK
<1>3. ShownOK'
  BY DEF ShownOK, OfOne
<1> QED
  BY <1>1, <1>2, <1>3 DEF InvitingInv

LEMMA EndsStep ==
  ASSUME InvitingInv, NEW t \in tasks, ListComes(t) \/ CodeComes(t) \/ NothingComes(t)
  PROVE  InvitingInv'
<1>1. /\ tasks' = tasks \ {t} /\ UNCHANGED <<invites, overtaken>> /\ unheard \subseteq unheard' /\ t \in TaskStates
      /\ desk \in DeskStates /\ OfScreen
  BY InvitesTyped DEF ListComes, CodeComes, NothingComes
<1>2. CASE ListComes(t)
  <2>1. desk' = On(t, [desk EXCEPT !.rows = t.rows])
    BY <1>2 DEF ListComes
  <2>2. /\ desk' \in DeskStates /\ desk'.view = desk.view /\ desk'.form = desk.form /\ desk'.id = desk.id /\ desk'.of = desk.of
        /\ desk'.status = desk.status /\ desk'.rows \in {desk.rows, t.rows} /\ desk'.code = desk.code /\ desk'.busy = desk.busy
    BY <1>1, <2>1 DEF On, DeskStates, TaskStates
  <2> QED
    BY <1>1, <2>2, InviteEnds
<1>3. CASE CodeComes(t)
  <2>1. desk' = On(t, [desk EXCEPT !.code = t.about, !.busy = @ /\ ~t.ends]) /\ t.op = "code"
    BY <1>3 DEF CodeComes, Ok
  <2>2. /\ desk' \in DeskStates /\ desk'.view = desk.view /\ desk'.form = desk.form /\ desk'.id = desk.id /\ desk'.of = desk.of
        /\ desk'.status = desk.status /\ desk'.rows = desk.rows
        /\ desk'.code = (IF t.live THEN t.about ELSE desk.code)
        /\ ~t.live => desk'.busy = desk.busy
    BY <1>1, <2>1 DEF On, DeskStates, TaskStates
  <2>3. t.live => desk.view = "detail"
    BY <1>1, <2>1 DEF OfScreen, OfOne
  <2> QED
    BY <1>1, <2>1, <2>2, <2>3, InviteEnds
<1>4. CASE NothingComes(t)
  <2>1. /\ desk' = On(t, [desk EXCEPT !.busy = @ /\ ~t.ends]) /\ (t.op = "create" => t.about \in unheard')
    BY <1>4 DEF NothingComes
  <2>2. /\ desk' \in DeskStates /\ desk'.view = desk.view /\ desk'.form = desk.form /\ desk'.id = desk.id /\ desk'.of = desk.of
        /\ desk'.status = desk.status /\ desk'.rows = desk.rows /\ desk'.code = desk.code
        /\ ~t.live \/ ~t.ends => desk'.busy = desk.busy
    BY <1>1, <2>1 DEF On, DeskStates, TaskStates
  <2>3. t.live => desk.view # "new" \/ t.op = "create"
    BY <1>1 DEF OfScreen, OfOne, TaskStates
  <2> QED
    BY <1>1, <2>1, <2>2, <2>3, InviteEnds
<1> QED
  BY <1>2, <1>3, <1>4

\* Wherever the person is, a new invitation comes in front.
LEMMA CreatedStep ==
  ASSUME InvitingInv, NEW t \in tasks, CreatedComes(t)
  PROVE  InvitingInv'
<1> DEFINE id == t.rows + 1
<1>1. /\ t.op = "create" /\ t.at = "answered" /\ t.saw # "refused" /\ UNCHANGED <<invites, unheard>> /\ t.rows \in Nat
      /\ Len(invites) \in Nat /\ DOMAIN invites = 1..Len(invites) /\ t.rows < Len(invites)
      /\ desk \in DeskStates /\ desk.form \in Nat /\ desk.rows \in Nat
  BY InvitesTyped DEF CreatedComes, Ok, MadeOK
<1>2. id \in Nat /\ id \in DOMAIN invites
  BY <1>1
<1> HIDE DEF id
<1>3. CASE desk.view # "detail" /\ Comes(Shown("detail", desk.form, id), tasks \ {t})
  <2> DEFINE shows == Shown("detail", desk.form, id)
             rest == tasks \ {t}
  <2>1. /\ shows \in DeskStates /\ shows.view = "detail" /\ shows.form = desk.form /\ shows.of = 0 /\ shows.id = id
        /\ shows.status = "unknown" /\ shows.code = 0 /\ shows.busy = FALSE /\ shows.rows = desk.rows
    BY <1>1, <1>2 DEF Shown, DeskStates, Saws
  <2>2. Comes(shows, rest) /\ rest \subseteq tasks
    BY <1>3
  <2> HIDE DEF shows, rest
  <2>3. desk.form <= shows.form /\ (shows.view = "new" => desk.form < shows.form)
    BY <1>1, <2>1
  <2> QED
    BY <1>1, <1>2, <2>1, <2>2, <2>3, ScreenComes
<1>4. CASE /\ desk.view = "detail" /\ desk' = [desk EXCEPT !.id = id]
           /\ tasks' = (tasks \ {t}) \cup {TaskOf("load", id)}
           /\ overtaken' = TRUE
  <2> DEFINE d == TaskOf("load", id)
  <2>1. d \in TaskStates /\ d.op = "load" /\ d.about = id /\ d.at = "asked" /\ d.rows = 0
    BY <1>2, TaskOfTyped
  <2>2. tasks' = (tasks \ {t}) \cup {d}
    BY <1>4
  <2> HIDE DEF d
  <2>3. /\ desk' \in DeskStates /\ desk'.view = "detail" /\ desk'.form = desk.form /\ desk'.of = desk.of
        /\ desk'.status = desk.status /\ desk'.rows = desk.rows
    BY <1>1, <1>2, <1>4 DEF DeskStates
  <2>4. InvitingTypeOK' /\ MadeOK' /\ OfScreen'
    BY <1>1, <1>2, <1>4, <2>1, <2>2, <2>3, InvitesTyped DEF InvitingInv, InvitingTypeOK, MadeOK, OfScreen, OfOne
  <2>5. FormsOK'
    BY <1>1, <1>4, <2>1, <2>2, <2>3, InvitesTyped DEF FormsOK
  <2>6. ShownOK'
    BY <1>4 DEF ShownOK
  <2> QED
    BY <2>4, <2>5, <2>6 DEF InvitingInv
<1> QED
  BY <1>3, <1>4 DEF CreatedComes, id

\* An invitation is loaded, or was cancelled and is loaded again: the request goes on.
LEMMA GoesOnStep ==
  ASSUME InvitingInv, NEW t \in tasks, LoadComes(t) \/ CancelledComes(t)
  PROVE  InvitingInv'
<1>1. /\ t \in TaskStates /\ t.op \in OfOne /\ t.about \in DOMAIN invites /\ t.about \in Nat /\ t.saw \in Saws
      /\ desk \in DeskStates /\ UNCHANGED <<invites, unheard, overtaken>>
      /\ (t.live => desk.view = "detail") /\ Len(invites) \in Nat /\ t.rows <= Len(invites)
  BY InvitesTyped DEF LoadComes, CancelledComes, Ok, OfOne, MadeOK, OfScreen, TaskStates
<1>2. ASSUME NEW d \in TaskStates, tasks' = (tasks \ {t}) \cup {d} \/ tasks' = tasks \ {t}, d.op \in {"load", "code"},
             d.about = t.about, d.at = "asked", d.rows = t.rows, d.live = t.live,
             desk' \in DeskStates, desk'.view = desk.view, desk'.form = desk.form, desk'.rows = desk.rows,
             desk'.status = "pending" => desk'.of \in DOMAIN invites, t.live \/ desk' = desk
      PROVE  InvitingTypeOK' /\ MadeOK' /\ OfScreen' /\ FormsOK'
  <2>1. \A e \in tasks' : e = d \/ e \in tasks
    BY <1>2
  <2>2. InvitingTypeOK' /\ MadeOK' /\ OfScreen'
    BY <1>1, <1>2, <2>1, InvitesTyped DEF InvitingInv, InvitingTypeOK, MadeOK, OfScreen, OfOne
  <2>3. desk'.view = "new" => desk'.busy = desk.busy
    BY <1>1, <1>2
  <2>4. FormsOK'
    BY <1>1, <1>2, <2>1, <2>3, InvitesTyped, SMTT(30) DEF FormsOK
  <2> QED
    BY <2>2, <2>4
<1>3. CASE CancelledComes(t)
  <2> DEFINE d == [t EXCEPT !.op = "load", !.at = "asked", !.saw = "none"]
  <2>1. tasks' = (tasks \ {t}) \cup {d} /\ desk' = desk
    BY <1>3 DEF CancelledComes
  <2>2. d \in TaskStates /\ d.op = "load" /\ d.about = t.about /\ d.at = "asked" /\ d.rows = t.rows /\ d.live = t.live
    BY <1>1 DEF TaskStates, Saws
  <2> HIDE DEF d
  <2>3. InvitingTypeOK' /\ MadeOK' /\ OfScreen' /\ FormsOK'
    BY <1>1, <1>2, <2>1, <2>2, InvitesTyped DEF MadeOK
  <2>4. ShownOK'
    BY <1>1, <2>1, <2>2, InvitesTyped DEF ShownOK, OfOne
  <2> QED
    BY <2>3, <2>4 DEF InvitingInv
<1>4. CASE LoadComes(t)
  <2> DEFINE d == [t EXCEPT !.op = "code", !.at = "asked", !.saw = "none"]
  <2>1. /\ desk' = On(t, [WithRow(t) EXCEPT !.busy = @ /\ (t.saw = "pending" \/ ~t.ends)]) /\ t.op = "load"
        /\ tasks' = (tasks \ {t}) \cup IF t.saw = "pending" THEN {d} ELSE {}
    BY <1>4 DEF LoadComes, Ok
  <2>2. d \in TaskStates /\ d.op = "code" /\ d.about = t.about /\ d.at = "asked" /\ d.rows = t.rows /\ d.live = t.live
    BY <1>1 DEF TaskStates, Saws
  <2> HIDE DEF d
  <2>3. IF t.saw = "pending" THEN tasks' = (tasks \ {t}) \cup {d} ELSE tasks' = tasks \ {t}
    BY <2>1
  <2>4. ~t.live => desk' = desk
    BY <2>1 DEF On
  <2>5. t.live => /\ desk' \in DeskStates /\ desk'.view = desk.view /\ desk'.form = desk.form /\ desk'.id = desk.id
                  /\ desk'.of = t.about /\ desk'.status = t.saw /\ desk'.rows = desk.rows
                  /\ desk'.code = (IF t.saw = "pending" THEN desk.code ELSE 0)
    BY <1>1, <2>1 DEF On, WithRow, DeskStates
  <2>6. desk'.status = "pending" => desk'.of \in DOMAIN invites
    BY <1>1, <2>4, <2>5, InvitesTyped DEF MadeOK
  <2>7. InvitingTypeOK' /\ MadeOK' /\ OfScreen' /\ FormsOK'
    BY <1>1, <1>2, <2>2, <2>3, <2>4, <2>5, <2>6
  <2>8. ShownOK'
    BY <1>1, <2>1, <2>2, <2>3, <2>4, <2>5, InvitesTyped, SMTT(30) DEF ShownOK, OfOne
  <2> QED
    BY <2>7, <2>8 DEF InvitingInv
<1> QED
  BY <1>3, <1>4

LEMMA InvitingStep ==
  ASSUME InvitingInv, [InvitingNext]_invitingVars
  PROVE  InvitingInv'
<1>1. CASE UNCHANGED invitingVars
  BY <1>1 DEF invitingVars, InvitingInv, InvitingTypeOK, MadeOK, OfScreen, FormsOK, ShownOK
<1>2. CASE BacksOut \/ OpensForm \/ \E i \in 1..LastInvite : OpensInvite(i)
  BY <1>2, ScreensTurn
<1>3. CASE ListAgain \/ Creates \/ CancelsInvite
  BY <1>3, ScreenAsks
<1>4. CASE \E i \in 1..LastInvite : ChangesElsewhere(i)
  BY <1>4, ElsewhereStep
<1>5. ASSUME NEW t \in tasks, \/ ServesInvite(t) \/ ListComes(t) \/ CreatedComes(t) \/ LoadComes(t)
                              \/ CodeComes(t) \/ CancelledComes(t) \/ NothingComes(t)
      PROVE  InvitingInv'
  BY <1>5, ServesStep, EndsStep, CreatedStep, GoesOnStep
<1> QED
  BY <1>1, <1>2, <1>3, <1>4, <1>5 DEF InvitingNext

LEMMA InvitedOnceHolds == InvitingInv => InvitedOnce
  BY InvitesTyped DEF InvitingInv, FormsOK, ShownOK, InvitedOnce

-----------------------------------------------------------------------------
(* The pages of the console *)

Typed == Nat \cup {Elsewhere}
RowsOf == [form : Nat, details : Typed, apps : Typed]
Panels == [n : Nat, id : Nat, details : Typed, apps : Typed]
SaveJobs ==
  [op : {"save"}, at : {"asked", "answered"}, live : BOOLEAN, n : Nat, new : BOOLEAN, id : Nat, details : Typed,
   apps : Typed, prev : Typed, step : {"details", "apps"}, fresh : BOOLEAN]
LoadJobs == [op : {"load"}, at : {"asked", "answered"}, live : BOOLEAN, rows : Seq(RowsOf)]
SaidOf == [id : Nat, details : Typed, apps : Typed, fresh : BOOLEAN]

ConsoleTypeOK ==
  /\ place \in ConsolePages \cup {NoPage} /\ rows \in Seq(RowsOf) /\ list \in Seq(RowsOf)
  /\ panel \in Panels /\ opened \in Nat /\ jobs \subseteq SaveJobs \cup LoadJobs /\ said \in SaidOf

\* What a list may hold: rows the server has, and no apps where the page knows none.
ListOK(rs) == Len(rs) <= Len(rows) /\ (~place.apps => \A r \in DOMAIN rs : rs[r].apps = 0)

\* A form makes one row.
RowsOK ==
  /\ \A r \in DOMAIN rows : rows[r].form <= opened
  /\ \A r, s \in DOMAIN rows : r # s /\ rows[r].form = rows[s].form => rows[r].form \in repeated
  /\ place = NoPage => rows = <<>> /\ list = <<>> /\ jobs = {} /\ opened = 0
  /\ place.follows => opened <= 1 /\ Len(rows) > 0
MadeBy(n) == \E r \in DOMAIN rows : rows[r].form = n

\* An open form belongs to a row, or to none and was not answered yet.
MakesRow(j) == j.op = "save" /\ j.new
PanelOK ==
  /\ panel.n <= opened /\ panel.id <= Len(rows) /\ (~place.apps => panel.apps = 0)
  /\ panel # NoPanel => panel.n > 0 /\ place # NoPage
  /\ panel # NoPanel /\ panel.id = 0 =>
       /\ place.adds
       /\ panel.n \notin repeated /\ (\A j \in jobs : MakesRow(j) => j.n # panel.n) => ~MadeBy(panel.n)

\* What the server holds of a save nobody else wrote after.
Holds(j) ==
  /\ j.id # 0 /\ j.step = "details" => rows[j.id].apps = j.prev
  /\ j.id # 0 /\ (j.at = "answered" \/ j.step = "apps") => rows[j.id].details = j.details
  /\ j.step = "apps" /\ j.at = "answered" => rows[j.id].apps = j.apps
  /\ j.id = 0 => j.prev = 0
SaveOK(j) ==
  /\ j.id <= Len(rows) /\ j.n > 0 /\ j.n <= opened
  /\ j.id = 0 <=> (j.new /\ j.at = "asked" /\ j.step = "details")
  /\ j.fresh => Holds(j)
  /\ ~place.apps => j.apps = 0
  /\ j.new => place.adds
  /\ j.id = 0 /\ j.n \notin repeated => ~MadeBy(j.n)
  /\ panel.n = j.n /\ panel.id = 0 => j.live /\ j.new
LoadOK(j) == ListOK(j.rows) /\ (j.at = "answered" /\ place.follows => Len(j.rows) > 0)
JobsOK ==
  /\ \A j \in jobs : (j.op = "save" => SaveOK(j)) /\ (j.op = "load" => LoadOK(j))
  /\ \A j, k \in jobs : MakesRow(j) /\ MakesRow(k) /\ j.n = k.n /\ j.n \notin repeated => j = k

SaidOK == said.fresh => /\ said.id \in DOMAIN rows
                        /\ rows[said.id].details = said.details /\ rows[said.id].apps = said.apps

\* The requests N in the place of the request j.
SoundJobs(N) == \A k \in N : (k.op = "save" => SaveOK(k)) /\ (k.op = "load" => LoadOK(k))
Follow(j, N) == (\A k \in N : MakesRow(k) => MakesRow(j) /\ k.n = j.n) /\ (\A k, m \in N : k = m)

ConsoleInv == ConsoleTypeOK /\ ListOK(rows) /\ ListOK(list) /\ RowsOK /\ PanelOK /\ JobsOK /\ SaidOK

-----------------------------------------------------------------------------
LEMMA ConsoleTraits ==
  /\ ~NoPage.adds /\ ~NoPage.edits /\ ~NoPage.follows /\ ~NoPage.apps
  /\ \A p \in ConsolePages : p.waits \in {"nothing", "page", "form"} /\ (p.follows => ~p.adds) /\ (p.edits \/ p.adds)
  /\ NoPage \notin ConsolePages
<1>1. ~NoPage.adds /\ ~NoPage.edits /\ ~NoPage.follows /\ ~NoPage.apps
  BY DEF NoPage, Page
<1>2. ASSUME NEW w \in {"nothing", "page", "form"}, NEW T, "follows" \in T => "adds" \notin T, "edits" \in T \/ "adds" \in T
      PROVE  /\ Page(w, T).waits \in {"nothing", "page", "form"} /\ (Page(w, T).follows => ~Page(w, T).adds)
             /\ Page(w, T).edits \/ Page(w, T).adds
  BY <1>2 DEF Page
<1>3. \A p \in ConsolePages : p.waits \in {"nothing", "page", "form"} /\ (p.follows => ~p.adds) /\ (p.edits \/ p.adds)
  BY <1>2 DEF ConsolePages, EmployeesPage, UsersPage, HostsPage, DoorsPage, SitesPage, ProjectsPage, WebhooksPage,
              InvitationsPage, OrganisationPage
<1> QED
  BY <1>1, <1>3

LEMMA ConsoleRecords ==
  /\ LoadJob \in LoadJobs /\ LoadJob.op = "load" /\ LoadJob.at = "asked" /\ LoadJob.rows = <<>>
  /\ NoPanel \in Panels /\ NoPanel.n = 0 /\ NoPanel.id = 0 /\ NoPanel.apps = 0
  /\ NothingYet \in SaidOf /\ ~NothingYet.fresh
  /\ <<>> \in Seq(RowsOf) /\ Len(<<>>) = 0 /\ DOMAIN <<>> = {}
<1>1. <<>> \in Seq(RowsOf) /\ Len(<<>>) = 0 /\ DOMAIN <<>> = {}
  OBVIOUS
<1>2. LoadJob \in LoadJobs /\ LoadJob.op = "load" /\ LoadJob.at = "asked" /\ LoadJob.rows = <<>>
  BY <1>1 DEF LoadJob, LoadJobs
<1>3. NoPanel \in Panels /\ NoPanel.n = 0 /\ NoPanel.id = 0 /\ NoPanel.apps = 0
  BY DEF NoPanel, Panels, Typed
<1>4. NothingYet \in SaidOf /\ ~NothingYet.fresh
  BY DEF NothingYet, SaidOf, Typed
<1> QED
  BY <1>1, <1>2, <1>3, <1>4

\* A request to save is one record, a request for the rows another.
LEMMA ConsoleJobs ==
  ASSUME ConsoleTypeOK, NEW j \in jobs
  PROVE  /\ j.op = "save" => j \in SaveJobs
         /\ j.op = "load" => j \in LoadJobs
         /\ j.op \in {"save", "load"}
         /\ j \in SaveJobs => j.op = "save"
         /\ j \in LoadJobs => j.op = "load"
<1>1. j \in SaveJobs \/ j \in LoadJobs
  BY DEF ConsoleTypeOK
<1>2. j \in SaveJobs => j.op = "save"
  BY DEF SaveJobs
<1>3. j \in LoadJobs => j.op = "load"
  BY DEF LoadJobs
<1> QED
  BY <1>1, <1>2, <1>3

\* The same save, perhaps of a page that was left, or of a row that was written by others.
Like(j, k) ==
  /\ k.op = j.op /\ k.at = j.at /\ k.n = j.n /\ k.new = j.new /\ k.id = j.id
  /\ k.details = j.details /\ k.apps = j.apps /\ k.prev = j.prev /\ k.step = j.step /\ (k.fresh => j.fresh)

LEMMA ConsoleSaveKept ==
  ASSUME NEW j, NEW k, j.op = "save", SaveOK(j), Like(j, k), j.id \in Nat, j.n \in Nat, opened \in Nat, opened' \in Nat,
         rows \in Seq(RowsOf), rows' \in Seq(RowsOf),
         opened <= opened', repeated \subseteq repeated', Len(rows) <= Len(rows'), place' = place,
         k.fresh /\ k.id \in DOMAIN rows => rows'[k.id].details = rows[k.id].details /\ rows'[k.id].apps = rows[k.id].apps,
         k.id = 0 /\ k.n \notin repeated' /\ MadeBy(k.n)' => MadeBy(k.n),
         panel'.n = k.n /\ panel'.id = 0 => panel.n = k.n /\ panel.id = 0 /\ k.live = j.live
  PROVE  SaveOK(k)'
<1>1. Len(rows) \in Nat /\ Len(rows') \in Nat /\ DOMAIN rows = 1..Len(rows) /\ k.id = j.id
  BY DEF Like
<1>2. k.id <= Len(rows') /\ k.n > 0 /\ k.n <= opened'
  BY <1>1 DEF SaveOK, Like
<1>3. k.id # 0 => k.id \in DOMAIN rows
  BY <1>1 DEF SaveOK
<1>4. k.fresh => Holds(k)'
  BY <1>3 DEF SaveOK, Like, Holds
<1> QED
  BY <1>1, <1>2, <1>4 DEF SaveOK, Like

LEMMA ConsoleLoadKept ==
  ASSUME NEW j, NEW k, LoadOK(j), k.rows = j.rows, k.at = j.at, place' = place, Len(rows) <= Len(rows'),
         j.rows \in Seq(RowsOf), rows \in Seq(RowsOf), rows' \in Seq(RowsOf)
  PROVE  LoadOK(k)'
<1>1. Len(j.rows) \in Nat /\ Len(rows) \in Nat /\ Len(rows') \in Nat
  OBVIOUS
<1> QED
  BY <1>1 DEF LoadOK, ListOK

LEMMA ConsoleRows ==
  ASSUME NEW rs \in Seq(RowsOf)
  PROVE  /\ Len(rs) \in Nat /\ DOMAIN rs = 1..Len(rs)
         /\ \A r \in DOMAIN rs : /\ rs[r] \in RowsOf /\ rs[r].form \in Nat
                                /\ rs[r].details \in Typed /\ rs[r].apps \in Typed
<1>1. Len(rs) \in Nat /\ DOMAIN rs = 1..Len(rs)
  OBVIOUS
<1>2. \A r \in DOMAIN rs : rs[r] \in RowsOf
  BY <1>1
<1> QED
  BY <1>1, <1>2 DEF RowsOf

LEMMA ConsoleShows ==
  ASSUME ConsoleInv, UNCHANGED <<place, rows, list, jobs, said, repeated>>, panel' \in Panels,
         opened' \in Nat, opened <= opened', place.follows => opened' <= 1, place = NoPage => opened' = opened, PanelOK',
         \A j \in jobs : j.op = "save" /\ panel'.n = j.n /\ panel'.id = 0 => panel.n = j.n /\ panel.id = 0
  PROVE  ConsoleInv'
<1>1. ConsoleTypeOK /\ rows \in Seq(RowsOf) /\ list \in Seq(RowsOf) /\ opened \in Nat /\ jobs \subseteq SaveJobs \cup LoadJobs
  BY DEF ConsoleInv, ConsoleTypeOK
<1>2. ConsoleTypeOK'
  BY <1>1 DEF ConsoleTypeOK
<1>3. ASSUME NEW j \in jobs' PROVE (j.op = "save" => SaveOK(j)') /\ (j.op = "load" => LoadOK(j)')
  <2>1. j \in jobs /\ (j.op = "save" => SaveOK(j)) /\ (j.op = "load" => LoadOK(j)) /\ Like(j, j)
    BY DEF ConsoleInv, JobsOK, Like
  <2>2. ASSUME j.op = "save" PROVE SaveOK(j)'
    <3>1. j.id \in Nat /\ j.n \in Nat
      BY <1>1, <2>1, <2>2, ConsoleJobs DEF SaveJobs
    <3>2. /\ Len(rows) <= Len(rows') /\ (MadeBy(j.n)' => MadeBy(j.n)) /\ repeated \subseteq repeated' /\ place' = place
          /\ rows' \in Seq(RowsOf) /\ rows' = rows
      BY <1>1 DEF MadeBy
    <3> QED
      BY <1>1, <2>1, <2>2, <3>1, <3>2, ConsoleSaveKept
  <2>3. ASSUME j.op = "load" PROVE LoadOK(j)'
    BY <2>1, <2>3 DEF LoadOK, ListOK
  <2> QED
    BY <2>2, <2>3
<1>4. JobsOK'
  BY <1>3 DEF JobsOK, ConsoleInv
<1>5. (ListOK(rows) /\ ListOK(list))'
  BY DEF ListOK, ConsoleInv
<1>6. \A r \in DOMAIN rows : rows[r].form \in Nat
  BY <1>1, ConsoleRows
<1>7. \A r \in DOMAIN rows' : rows'[r].form <= opened'
  BY <1>1, <1>6 DEF RowsOK, ConsoleInv
<1>8. RowsOK'
  BY <1>7 DEF RowsOK, ConsoleInv
<1>9. SaidOK'
  BY DEF SaidOK, ConsoleInv
<1> QED
  BY <1>2, <1>4, <1>5, <1>8, <1>9 DEF ConsoleInv

LEMMA ConsoleForms ==
  ASSUME ConsoleInv, OpensNew \/ (\E r \in DOMAIN rows : Edits(r)) \/ Types \/ Cancels
  PROVE  ConsoleInv'
<1>1. /\ ConsoleTypeOK /\ place \in ConsolePages \cup {NoPage} /\ rows \in Seq(RowsOf) /\ list \in Seq(RowsOf)
      /\ panel \in Panels /\ opened \in Nat /\ PanelOK
      /\ UNCHANGED <<place, rows, list, jobs, said, repeated>>
  BY DEF ConsoleInv, ConsoleTypeOK, OpensNew, Edits, Types, Cancels, TheyShow
<1>2. /\ panel.n \in Nat /\ panel.id \in Nat /\ panel.details \in Typed /\ panel.apps \in Typed
      /\ Len(rows) \in Nat /\ Len(list) \in Nat /\ DOMAIN rows = 1..Len(rows) /\ DOMAIN list = 1..Len(list)
  BY <1>1 DEF Panels
<1>3. \A j \in jobs : j.op = "save" => j.n \in Nat /\ j.n > 0 /\ j.n <= opened
  BY <1>1, ConsoleJobs DEF ConsoleInv, JobsOK, SaveOK, SaveJobs
<1>4. \A r \in DOMAIN rows : rows[r].form \in Nat /\ rows[r].form <= opened
  BY <1>1, ConsoleRows DEF ConsoleInv, RowsOK
<1>5. CASE OpensNew
  <2>1. place.adds /\ opened' = panel'.n /\ panel' = [NoPanel EXCEPT !.n = opened + 1]
    BY <1>5 DEF OpensNew, TheyShow
  <2>2. panel' \in Panels
    BY <1>1, <2>1, SMTT(30) DEF Panels, NoPanel, Typed
  <2>3. panel'.n = opened + 1 /\ panel'.id = 0 /\ panel'.apps = 0
    BY <1>1, <2>1, ConsoleRecords DEF Panels
  <2>4. ~place.follows /\ place # NoPage
    BY <1>1, <2>1, ConsoleTraits
  <2>5. ~MadeBy(opened + 1)
    BY <1>1, <1>4 DEF MadeBy
  <2>6. ~MadeBy(panel.n)'
    BY <1>1, <2>3, <2>5 DEF MadeBy
  <2>7. PanelOK'
    BY <1>1, <1>2, <2>1, <2>3, <2>4, <2>6 DEF PanelOK
  <2>8. \A j \in jobs : j.op = "save" => panel'.n # j.n
    BY <1>1, <1>3, <2>3
  <2>9. opened' \in Nat /\ opened <= opened' /\ place # NoPage
    BY <1>1, <2>1, <2>3, <2>4
  <2> QED
    BY <1>1, <2>2, <2>4, <2>7, <2>8, <2>9, ConsoleShows
<1>6. ASSUME NEW r \in DOMAIN rows, Edits(r) PROVE ConsoleInv'
  <2>1. ~place.follows /\ place.edits /\ r \in DOMAIN list /\ panel' = RowForm(opened + 1, r, list) /\ opened' = panel'.n
    BY <1>6 DEF Edits, TheyShow
  <2>2. list[r] \in RowsOf
    BY <1>1, <1>2, <2>1
  <2>3. panel'.n = opened + 1 /\ panel'.id = r /\ panel'.apps = list[r].apps
    BY <2>1 DEF RowForm
  <2>4. r \in Nat /\ r # 0 /\ r <= Len(rows)
    BY <1>2, <2>1
  <2>5. panel' \in Panels
    BY <1>1, <2>1, <2>2, <2>4, SMTT(30) DEF Panels, RowForm, RowsOf
  <2>6. place # NoPage /\ (~place.apps => list[r].apps = 0)
    BY <2>1, ConsoleTraits DEF ConsoleInv, ListOK
  <2>7. PanelOK'
    BY <1>1, <1>2, <2>1, <2>3, <2>4, <2>6 DEF PanelOK
  <2>8. opened' \in Nat /\ opened <= opened'
    BY <1>1, <2>1, <2>3
  <2> QED
    BY <1>1, <2>1, <2>3, <2>4, <2>5, <2>6, <2>7, <2>8, ConsoleShows
<1>7. CASE Types
  <2>1. PICK apps \in {panel.apps} \cup IF place.apps THEN {panel.n} ELSE {} :
          panel' = [panel EXCEPT !.details = panel.n, !.apps = apps]
    BY <1>7 DEF Types
  <2>2. opened' = opened /\ panel # NoPanel /\ apps \in Typed /\ panel.n \in Typed /\ (~place.apps => apps = 0)
    BY <1>1, <1>2, <1>7, <2>1 DEF Types, Typed, PanelOK
  <2>3. panel' \in Panels
    BY <1>1, <2>1, <2>2 DEF Panels
  <2>4. panel'.n = panel.n /\ panel'.id = panel.id /\ panel'.apps = apps
    BY <1>1, <2>1 DEF Panels
  <2>5. panel' # NoPanel /\ panel.n > 0
    BY <1>1, <1>2, <2>2, <2>4, ConsoleRecords DEF PanelOK
  <2>6. MadeBy(panel.n)' = MadeBy(panel.n)
    BY <1>1, <2>4 DEF MadeBy
  <2>7. PanelOK'
    BY <1>1, <2>2, <2>4, <2>5, <2>6 DEF PanelOK
  <2>8. opened' \in Nat /\ opened <= opened' /\ (place.follows => opened' <= 1)
    BY <1>1, <2>2 DEF ConsoleInv, RowsOK
  <2> QED
    BY <1>1, <2>2, <2>3, <2>4, <2>7, <2>8, ConsoleShows
<1>8. CASE Cancels
  <2>1. panel' = NoPanel /\ opened' = opened
    BY <1>8 DEF Cancels
  <2>2. PanelOK'
    BY <1>1, <1>2, <2>1, ConsoleRecords DEF PanelOK
  <2>3. opened' \in Nat /\ opened <= opened' /\ (place.follows => opened' <= 1) /\ panel' \in Panels /\ panel'.n = 0
    BY <1>1, <2>1, ConsoleRecords DEF ConsoleInv, RowsOK
  <2> QED
    BY <1>1, <1>3, <2>1, <2>2, <2>3, ConsoleShows
<1> QED
  BY <1>5, <1>6, <1>7, <1>8, SMTT(30)

LEMMA ConsoleSaves ==
  ASSUME ConsoleInv, Saves
  PROVE  ConsoleInv'
<1>1. /\ ConsoleTypeOK /\ place \in ConsolePages \cup {NoPage} /\ rows \in Seq(RowsOf) /\ list \in Seq(RowsOf)
      /\ panel \in Panels /\ opened \in Nat /\ PanelOK /\ jobs \subseteq SaveJobs \cup LoadJobs
      /\ UNCHANGED <<place, rows, list, panel, opened>> /\ said' = NothingYet
      /\ panel # NoPanel /\ ~SaveWaits
  BY DEF ConsoleInv, ConsoleTypeOK, Saves
<1>2. PICK prev : prev = IF panel.id \in DOMAIN list THEN list[panel.id].apps ELSE 0
  OBVIOUS
<1>3. PICK current \in BOOLEAN : current = (panel.id = 0 \/ prev = rows[panel.id].apps)
  OBVIOUS
<1>4. PICK k : k = [op |-> "save", at |-> "asked", live |-> TRUE, n |-> panel.n, new |-> panel.id = 0,
                    id |-> panel.id, details |-> panel.details, apps |-> panel.apps, prev |-> prev,
                    step |-> "details", fresh |-> current]
  OBVIOUS
<1>5. jobs' = jobs \cup {k}
  BY <1>2, <1>3, <1>4 DEF Saves
<1>6. /\ panel.n \in Nat /\ panel.id \in Nat /\ panel.details \in Typed /\ panel.apps \in Typed /\ prev \in Typed
      /\ Len(rows) \in Nat /\ (panel.id = 0 => prev = 0)
  <2>1. panel.n \in Nat /\ panel.id \in Nat /\ panel.details \in Typed /\ panel.apps \in Typed /\ 0 \in Typed
    BY <1>1 DEF Panels, Typed
  <2>2. prev \in Typed /\ Len(rows) \in Nat /\ DOMAIN list = 1..Len(list) /\ Len(list) \in Nat
    BY <1>1, <1>2, <2>1, ConsoleRows
  <2> QED
    BY <1>2, <2>1, <2>2
<1>7. k \in SaveJobs
  BY <1>4, <1>6 DEF SaveJobs
<1>8. /\ k.op = "save" /\ k.at = "asked" /\ k.live /\ k.n = panel.n /\ (k.new <=> panel.id = 0) /\ k.id = panel.id
      /\ k.apps = panel.apps /\ k.prev = prev /\ k.step = "details" /\ (k.fresh <=> current)
  BY <1>4
<1>9. repeated \subseteq repeated' /\ (place.waits = "nothing" /\ AskedTwice # {} => panel.n \in repeated')
  BY DEF Saves
\* Nothing else is under way for a form that makes a row.
<1>10. ASSUME NEW j \in jobs, MakesRow(j), j.n = panel.n, panel.id = 0, panel.n \notin repeated' PROVE FALSE
  <2>1. j.live /\ j.op = "save"
    BY <1>1, <1>10 DEF ConsoleInv, JobsOK, SaveOK, MakesRow
  <2>2. j \in AskedTwice /\ j \in UnderWay
    BY <1>10, <2>1 DEF AskedTwice, UnderWay
  <2>3. place.waits \in {"nothing", "page", "form"}
    <3>1. place # NoPage
      BY <1>1 DEF PanelOK
    <3> QED
      BY <1>1, <3>1, ConsoleTraits
  <2> QED
    BY <1>1, <1>9, <1>10, <2>2, <2>3 DEF SaveWaits
<1>11. panel.id = 0 /\ panel.n \notin repeated' => ~MadeBy(panel.n)
  BY <1>1, <1>9, <1>10 DEF PanelOK
<1>12. \A n : MadeBy(n)' = MadeBy(n)
  BY <1>1 DEF MadeBy
<1>13. ASSUME NEW j \in jobs PROVE (j.op = "save" => SaveOK(j)') /\ (j.op = "load" => LoadOK(j)')
  <2>1. (j.op = "save" => SaveOK(j)) /\ (j.op = "load" => LoadOK(j)) /\ Like(j, j)
    BY DEF ConsoleInv, JobsOK, Like
  <2>2. ASSUME j.op = "save" PROVE SaveOK(j)'
    <3>1. j.id \in Nat /\ j.n \in Nat
      BY <1>1, <2>2, ConsoleJobs DEF SaveJobs
    <3>2. /\ Len(rows) <= Len(rows') /\ rows' = rows /\ rows' \in Seq(RowsOf)
          /\ opened' \in Nat /\ opened <= opened' /\ place' = place
      BY <1>1, <1>6
    <3> QED
      BY <1>1, <1>9, <1>12, <2>1, <2>2, <3>1, <3>2, ConsoleSaveKept
  <2>3. ASSUME j.op = "load" PROVE LoadOK(j)'
    BY <1>1, <2>1, <2>3 DEF LoadOK, ListOK
  <2> QED
    BY <2>2, <2>3
<1>14. SaveOK(k)'
  <2>1. Holds(k)' \/ ~k.fresh
    BY <1>1, <1>3, <1>6, <1>8 DEF Holds
  <2>2. k.id <= Len(rows) /\ k.n > 0 /\ k.n <= opened /\ (~place.apps => k.apps = 0) /\ (k.new => place.adds)
    BY <1>1, <1>8 DEF PanelOK
  <2>3. k.id = 0 /\ k.n \notin repeated' => ~MadeBy(k.n)'
    BY <1>8, <1>11, <1>12
  <2> QED
    BY <1>1, <1>8, <2>1, <2>2, <2>3 DEF SaveOK
<1>15. ASSUME NEW j \in jobs', NEW m \in jobs', MakesRow(j), MakesRow(m), j.n = m.n, j.n \notin repeated' PROVE j = m
  <2>1. CASE j \in jobs /\ m \in jobs
    BY <1>9, <1>15, <2>1 DEF ConsoleInv, JobsOK
  <2>2. CASE j \notin jobs \/ m \notin jobs
    BY <1>5, <1>8, <1>10, <1>15, <2>2 DEF MakesRow
  <2> QED
    BY <2>1, <2>2
<1>16. JobsOK'
  BY <1>5, <1>7, <1>8, <1>13, <1>14, <1>15 DEF JobsOK
<1>17. ConsoleTypeOK'
  BY <1>1, <1>5, <1>7, ConsoleRecords DEF ConsoleTypeOK
<1>18. (ListOK(rows) /\ ListOK(list))'
  BY <1>1 DEF ConsoleInv, ListOK
<1>19. place # NoPage /\ RowsOK'
  BY <1>1, <1>9 DEF ConsoleInv, RowsOK, PanelOK
<1>20. PanelOK'
  <2>1. panel.id = 0 => MakesRow(k)
    BY <1>8 DEF MakesRow
  <2> QED
    BY <1>1, <1>5, <1>8, <2>1 DEF PanelOK
<1>21. SaidOK'
  BY <1>1, ConsoleRecords DEF SaidOK
<1> QED
  BY <1>16, <1>17, <1>18, <1>19, <1>20, <1>21 DEF ConsoleInv

\* One request is answered, fails or goes on, and the server's rows stay.
LEMMA ConsoleReplies ==
  ASSUME ConsoleInv, NEW j \in jobs, NEW N \in SUBSET (SaveJobs \cup LoadJobs), jobs' = (jobs \ {j}) \cup N,
         UNCHANGED <<place, rows>>, repeated \subseteq repeated', opened' \in Nat, opened <= opened',
         place.follows => opened' <= 1,
         panel' \in Panels, panel' = panel \/ panel' = NoPanel \/ panel'.id # 0, PanelOK',
         list' \in Seq(RowsOf), ListOK(list)', said' \in SaidOf, SaidOK',
         SoundJobs(N)', Follow(j, N)
  PROVE  ConsoleInv'
<1>1. /\ ConsoleTypeOK /\ rows \in Seq(RowsOf) /\ opened \in Nat /\ jobs \subseteq SaveJobs \cup LoadJobs
      /\ rows' = rows /\ place' = place
  BY DEF ConsoleInv, ConsoleTypeOK
<1>2. ConsoleTypeOK'
  BY <1>1 DEF ConsoleTypeOK
<1>3. \A n : MadeBy(n)' = MadeBy(n)
  BY <1>1 DEF MadeBy
<1>4. ASSUME NEW k \in jobs \ {j} PROVE (k.op = "save" => SaveOK(k)') /\ (k.op = "load" => LoadOK(k)')
  <2>1. k \in jobs /\ (k.op = "save" => SaveOK(k)) /\ (k.op = "load" => LoadOK(k)) /\ Like(k, k)
    BY DEF ConsoleInv, JobsOK, Like
  <2>2. ASSUME k.op = "save" PROVE SaveOK(k)'
    <3>1. k.id \in Nat /\ k.n \in Nat /\ k.n > 0
      BY <1>1, <2>1, <2>2, ConsoleJobs DEF SaveJobs, SaveOK
    <3>2. /\ Len(rows) <= Len(rows') /\ rows' \in Seq(RowsOf)
          /\ panel'.n = k.n /\ panel'.id = 0 => panel.n = k.n /\ panel.id = 0
      BY <1>1, <3>1, ConsoleRecords
    <3> QED
      BY <1>1, <1>3, <2>1, <2>2, <3>1, <3>2, ConsoleSaveKept
  <2>3. ASSUME k.op = "load" PROVE LoadOK(k)'
    BY <1>1, <2>1, <2>3 DEF LoadOK, ListOK
  <2> QED
    BY <2>2, <2>3
<1>5. ASSUME NEW k \in jobs', NEW m \in jobs', MakesRow(k), MakesRow(m), k.n = m.n, k.n \notin repeated' PROVE k = m
  <2>0. (\A i \in N : MakesRow(i) => MakesRow(j) /\ i.n = j.n) /\ (\A i, l \in N : i = l)
    BY DEF Follow
  <2>1. \A i, l \in jobs : MakesRow(i) /\ MakesRow(l) /\ i.n = l.n /\ i.n \notin repeated => i = l
    BY DEF ConsoleInv, JobsOK
  <2>2. CASE k \in N /\ m \in N
    BY <2>0, <2>2
  <2>3. CASE k \notin N /\ m \notin N
    BY <1>5, <2>1, <2>3
  <2>4. CASE k \in N /\ m \notin N
    BY <1>5, <2>0, <2>1, <2>4
  <2>5. CASE k \notin N /\ m \in N
    BY <1>5, <2>0, <2>1, <2>5
  <2> QED
    BY <2>2, <2>3, <2>4, <2>5
<1>6. JobsOK'
  <2>1. \A k \in N : (k.op = "save" => SaveOK(k)') /\ (k.op = "load" => LoadOK(k)')
    BY DEF SoundJobs
  <2>2. \A k \in jobs' : (k.op = "save" => SaveOK(k)') /\ (k.op = "load" => LoadOK(k)')
    BY <1>4, <2>1
  <2> QED
    BY <1>5, <2>2 DEF JobsOK
<1>7. ListOK(rows)'
  BY <1>1 DEF ListOK, ConsoleInv
<1>8. place # NoPage /\ \A r \in DOMAIN rows : rows[r].form \in Nat
  BY <1>1, ConsoleRows DEF ConsoleInv, RowsOK
<1>9. \A r \in DOMAIN rows' : rows'[r].form <= opened'
  BY <1>1, <1>8 DEF ConsoleInv, RowsOK
<1>10. RowsOK'
  BY <1>1, <1>8, <1>9 DEF RowsOK, ConsoleInv
<1> QED
  BY <1>2, <1>6, <1>7, <1>10 DEF ConsoleInv

\* What stays when the page in front is not changed by an answer.
LEMMA ConsoleStays ==
  ASSUME ConsoleInv, UNCHANGED <<place, rows, panel, opened>>, repeated \subseteq repeated',
         panel # NoPanel /\ panel.id = 0 /\ panel.n \notin repeated' /\ (\A k \in jobs' : MakesRow(k) => k.n # panel.n)
           => ~MadeBy(panel.n)
  PROVE  /\ PanelOK' /\ panel' \in Panels /\ opened' \in Nat /\ opened <= opened'
         /\ place.follows => opened' <= 1
         /\ rows' \in Seq(RowsOf) /\ ListOK(rows)' /\ (list' = list => list' \in Seq(RowsOf) /\ ListOK(list)')
         /\ (said' = said => SaidOK' /\ said' \in SaidOf)
<1>1. panel \in Panels /\ opened \in Nat /\ rows \in Seq(RowsOf) /\ list \in Seq(RowsOf) /\ said \in SaidOf
  BY DEF ConsoleInv, ConsoleTypeOK
<1>2. MadeBy(panel.n)' = MadeBy(panel.n)
  BY DEF MadeBy
<1>3. PanelOK'
  BY <1>2 DEF ConsoleInv, PanelOK
<1>4. place.follows => opened' <= 1
  BY DEF ConsoleInv, RowsOK
<1>5. ListOK(rows)' /\ (list' = list => ListOK(list)') /\ (said' = said => SaidOK')
  BY DEF ConsoleInv, ListOK, SaidOK
<1> QED
  BY <1>1, <1>3, <1>4, <1>5

LEMMA ConsoleLoads ==
  ASSUME ConsoleInv, NEW j \in jobs, ServesLoad(j) \/ RowsCome(j)
  PROVE  ConsoleInv'
<1>1. /\ j \in LoadJobs /\ LoadOK(j) /\ j.op = "load" /\ j.rows \in Seq(RowsOf) /\ j.live \in BOOLEAN /\ ~MakesRow(j)
      /\ UNCHANGED <<place, rows, said, repeated>>
  BY ConsoleJobs DEF ConsoleInv, JobsOK, ServesLoad, RowsCome, MakesRow, LoadJobs
<1>2. /\ rows \in Seq(RowsOf) /\ list \in Seq(RowsOf) /\ opened \in Nat /\ said \in SaidOf /\ place # NoPage
  BY DEF ConsoleInv, ConsoleTypeOK, RowsOK
<1>3. CASE ServesLoad(j)
  <2>1. PICK k : k = [j EXCEPT !.at = "answered", !.rows = rows]
    OBVIOUS
  <2>2. k \in LoadJobs
    BY <1>1, <1>2, <2>1 DEF LoadJobs
  <2>3. k.op = "load" /\ k.rows = rows
    BY <1>1, <2>1 DEF LoadJobs
  <2>4. PICK N : N = {k}
    OBVIOUS
  <2>5. /\ N \in SUBSET (SaveJobs \cup LoadJobs) /\ jobs' = (jobs \ {j}) \cup N /\ UNCHANGED <<list, panel, opened>>
        /\ Follow(j, N)
    BY <1>3, <2>1, <2>2, <2>3, <2>4 DEF ServesLoad, Wrote, MakesRow, Follow
  <2>6. LoadOK(k)'
    BY <1>1, <2>3, <1>2 DEF LoadOK, ListOK, ConsoleInv, RowsOK
  <2>7. SoundJobs(N)'
    BY <2>3, <2>4, <2>6 DEF SoundJobs
  <2>8. (\A m \in jobs' : MakesRow(m) => m.n # panel.n) => (\A m \in jobs : MakesRow(m) => m.n # panel.n)
    BY <1>1, <2>5
  <2>9. panel # NoPanel /\ panel.id = 0 /\ panel.n \notin repeated' /\ (\A m \in jobs' : MakesRow(m) => m.n # panel.n)
           => ~MadeBy(panel.n)
    BY <1>1, <2>8 DEF ConsoleInv, PanelOK
  <2>10. /\ PanelOK' /\ panel' \in Panels /\ opened' \in Nat /\ opened <= opened' /\ (place.follows => opened' <= 1)
         /\ list' \in Seq(RowsOf) /\ ListOK(list)' /\ SaidOK' /\ said' \in SaidOf
    BY <1>1, <2>5, <2>9, ConsoleStays
  <2> QED
    BY <1>1, <2>5, <2>7, <2>10, ConsoleReplies
<1>4. CASE RowsCome(j)
  <2>1. PICK N : N = {}
    OBVIOUS
  <2>2. /\ N \in SUBSET (SaveJobs \cup LoadJobs) /\ jobs' = (jobs \ {j}) \cup N /\ j.at = "answered"
        /\ list' = IF j.live THEN j.rows ELSE list
        /\ IF j.live /\ place.follows THEN panel' = RowForm(1, 1, j.rows) /\ opened' = 1 ELSE UNCHANGED <<panel, opened>>
        /\ SoundJobs(N)' /\ Follow(j, N)
    BY <1>4, <2>1 DEF RowsCome, SoundJobs, Follow
  <2>3. list' \in Seq(RowsOf) /\ ListOK(list)'
    BY <1>1, <1>2, <2>2 DEF LoadOK, ListOK, ConsoleInv
  <2>4. said' \in SaidOf /\ SaidOK'
    BY <1>1, <1>2 DEF SaidOK, ConsoleInv
  <2>5. CASE j.live /\ place.follows
    <3>1. Len(j.rows) > 0 /\ Len(j.rows) <= Len(rows) /\ 1 \in DOMAIN j.rows /\ Len(rows) \in Nat
      BY <1>1, <1>2, <2>2, <2>5, ConsoleRows DEF LoadOK, ListOK
    <3>2. /\ panel'.n = 1 /\ panel'.id = 1 /\ panel'.apps = j.rows[1].apps /\ panel'.details = j.rows[1].details
          /\ panel' \in Panels /\ opened' = 1
      BY <1>1, <2>2, <2>5, <3>1, ConsoleRows DEF RowForm, Panels
    <3>3. ~place.apps => j.rows[1].apps = 0
      BY <1>1, <3>1 DEF LoadOK, ListOK
    <3>4. PanelOK'
      BY <1>1, <1>2, <3>1, <3>2, <3>3 DEF PanelOK
    <3>5. opened' \in Nat /\ opened <= opened' /\ (place.follows => opened' <= 1) /\ panel'.id # 0
      BY <1>2, <2>5, <3>2 DEF ConsoleInv, RowsOK
    <3> QED
      BY <1>1, <2>2, <2>3, <2>4, <3>2, <3>4, <3>5, ConsoleReplies
  <2>6. CASE ~(j.live /\ place.follows)
    <3>1. (\A m \in jobs' : MakesRow(m) => m.n # panel.n) => (\A m \in jobs : MakesRow(m) => m.n # panel.n)
      BY <1>1, <2>2
    <3>2. panel # NoPanel /\ panel.id = 0 /\ panel.n \notin repeated' /\ (\A m \in jobs' : MakesRow(m) => m.n # panel.n)
             => ~MadeBy(panel.n)
      BY <1>1, <3>1 DEF ConsoleInv, PanelOK
    <3>3. /\ PanelOK' /\ panel' \in Panels /\ opened' \in Nat /\ opened <= opened' /\ (place.follows => opened' <= 1)
          /\ panel' = panel
      BY <1>1, <2>2, <2>6, <3>2, ConsoleStays
    <3> QED
      BY <1>1, <2>2, <2>3, <2>4, <3>3, ConsoleReplies
  <2> QED
    BY <2>5, <2>6
<1> QED
  BY <1>3, <1>4

LEMMA ConsoleFails ==
  ASSUME ConsoleInv, NEW j \in jobs, FailsSave(j)
  PROVE  ConsoleInv'
<1>1. /\ j.at = "asked" /\ UNCHANGED <<place, rows, list, panel, opened, said>> /\ jobs' = jobs \ {j}
      /\ repeated \subseteq repeated' /\ (j.op = "save" /\ j.step = "apps" => j.n \in repeated')
  BY DEF FailsSave
<1>2. PICK N : N = {}
  OBVIOUS
<1>3. /\ N \in SUBSET (SaveJobs \cup LoadJobs) /\ jobs' = (jobs \ {j}) \cup N
      /\ SoundJobs(N)' /\ Follow(j, N)
  BY <1>1, <1>2 DEF SoundJobs, Follow
<1>4. ASSUME panel # NoPanel, panel.id = 0, panel.n \notin repeated', \A k \in jobs' : MakesRow(k) => k.n # panel.n
      PROVE  ~MadeBy(panel.n)
  <2>1. CASE MakesRow(j) /\ j.n = panel.n
    <3>1. SaveOK(j) /\ j.step = "details" /\ j.new
      <4>1. j \in SaveJobs /\ SaveOK(j)
        BY <2>1, ConsoleJobs DEF ConsoleInv, JobsOK, MakesRow
      <4>2. j.step \in {"details", "apps"}
        BY <4>1 DEF SaveJobs
      <4> QED
        BY <1>1, <1>4, <2>1, <4>1, <4>2 DEF MakesRow
    <3> QED
      BY <1>1, <1>4, <2>1, <3>1 DEF SaveOK
  <2>2. CASE ~(MakesRow(j) /\ j.n = panel.n)
    <3>1. \A k \in jobs : MakesRow(k) => k.n # panel.n
      BY <1>1, <1>4, <2>2
    <3> QED
      BY <1>1, <1>4, <3>1 DEF ConsoleInv, PanelOK
  <2> QED
    BY <2>1, <2>2
<1>5. /\ PanelOK' /\ panel' \in Panels /\ opened' \in Nat /\ opened <= opened' /\ (place.follows => opened' <= 1)
      /\ list' \in Seq(RowsOf) /\ ListOK(list)' /\ SaidOK' /\ said' \in SaidOf
  BY <1>1, <1>4, ConsoleStays
<1> QED
  BY <1>1, <1>3, <1>5, ConsoleReplies

LEMMA ConsoleGoesOn ==
  ASSUME ConsoleInv, NEW j \in jobs, GoesOn(j)
  PROVE  ConsoleInv'
<1>1. /\ j \in SaveJobs /\ SaveOK(j) /\ j.op = "save" /\ j.at = "answered" /\ AppsDiffer(j)
      /\ UNCHANGED <<place, rows, list, panel, opened, said, repeated>>
  BY ConsoleJobs DEF ConsoleInv, JobsOK, GoesOn
<1>2. PICK k : k = [j EXCEPT !.step = "apps", !.at = "asked"]
  OBVIOUS
<1>3. k \in SaveJobs
  BY <1>1, <1>2 DEF SaveJobs
<1>4. /\ k.op = "save" /\ k.at = "asked" /\ k.step = "apps" /\ k.n = j.n /\ k.new = j.new /\ k.id = j.id
      /\ k.details = j.details /\ k.apps = j.apps /\ k.prev = j.prev /\ k.fresh = j.fresh /\ k.live = j.live
  BY <1>1, <1>2 DEF SaveJobs
<1>5. j.step = "details" /\ place.apps /\ j.id # 0
  BY <1>1 DEF AppsDiffer, SaveOK
<1>6. k.fresh => Holds(k)'
  BY <1>1, <1>4, <1>5 DEF SaveOK, Holds
<1>7. SaveOK(k)'
  BY <1>1, <1>4, <1>5, <1>6 DEF SaveOK
<1>8. PICK N : N = {k}
  OBVIOUS
<1>9. /\ N \in SUBSET (SaveJobs \cup LoadJobs) /\ jobs' = (jobs \ {j}) \cup N
      /\ Follow(j, N) /\ \A m \in N : MakesRow(m) => MakesRow(j) /\ m.n = j.n
  BY <1>1, <1>2, <1>3, <1>4, <1>8 DEF GoesOn, Wrote, MakesRow, Follow
<1>12. SoundJobs(N)'
  BY <1>4, <1>7, <1>8 DEF SoundJobs
<1>10. ASSUME panel # NoPanel, panel.id = 0, panel.n \notin repeated', \A m \in jobs' : MakesRow(m) => m.n # panel.n
       PROVE  ~MadeBy(panel.n)
  <2>1. MakesRow(j) => MakesRow(k)
    BY <1>4 DEF MakesRow
  <2>2. \A m \in jobs : MakesRow(m) => m.n # panel.n
    BY <1>4, <1>8, <1>9, <1>10, <2>1
  <2> QED
    BY <1>1, <1>10, <2>2 DEF ConsoleInv, PanelOK
<1>11. /\ PanelOK' /\ panel' \in Panels /\ opened' \in Nat /\ opened <= opened' /\ (place.follows => opened' <= 1)
       /\ list' \in Seq(RowsOf) /\ ListOK(list)' /\ SaidOK' /\ said' \in SaidOf
  BY <1>1, <1>10, ConsoleStays
<1> QED
  BY <1>1, <1>9, <1>11, <1>12, ConsoleReplies

LEMMA ConsoleSaved ==
  ASSUME ConsoleInv, NEW j \in jobs, SavedComes(j)
  PROVE  ConsoleInv'
<1>1. /\ j \in SaveJobs /\ SaveOK(j) /\ j.op = "save" /\ j.at = "answered" /\ ~AppsDiffer(j)
      /\ UNCHANGED <<place, rows, list, opened, repeated>>
      /\ panel' = IF ~j.live \/ place.follows \/ (place.stays /\ ~j.new) THEN panel ELSE NoPanel
      /\ said' = IF j.live THEN [id |-> j.id, details |-> j.details, apps |-> j.apps, fresh |-> j.fresh] ELSE said
  BY ConsoleJobs DEF ConsoleInv, JobsOK, SavedComes
<1>2. /\ rows \in Seq(RowsOf) /\ list \in Seq(RowsOf) /\ opened \in Nat /\ panel \in Panels /\ said \in SaidOf
      /\ Len(rows) \in Nat /\ DOMAIN rows = 1..Len(rows)
  BY ConsoleRows DEF ConsoleInv, ConsoleTypeOK
<1>3. PICK N \in {{}, {LoadJob}} : jobs' = (jobs \ {j}) \cup N
  BY DEF SavedComes, ReloadsList
<1>4. LoadOK(LoadJob)'
  BY <1>1, <1>2, ConsoleRecords DEF LoadOK, ListOK
<1>5. /\ N \in SUBSET (SaveJobs \cup LoadJobs)
      /\ SoundJobs(N)' /\ Follow(j, N)
      /\ \A m \in N : ~MakesRow(m)
  BY <1>3, <1>4, ConsoleRecords DEF MakesRow, SoundJobs, Follow
\* What the page says it saved.
<1>6. said' \in SaidOf /\ SaidOK'
  <2>1. CASE j.live
    <3>1. said'.id = j.id /\ said'.details = j.details /\ said'.apps = j.apps /\ said'.fresh = j.fresh /\ said' \in SaidOf
      BY <1>1, <2>1 DEF SaidOf, SaveJobs
    <3>2. j.id \in Nat /\ j.id # 0 /\ j.id <= Len(rows) /\ j.id \in DOMAIN rows
      BY <1>1, <1>2 DEF SaveOK, SaveJobs
    <3>3. j.fresh => rows[j.id].details = j.details
      BY <1>1, <3>2 DEF SaveOK, Holds
    <3>4. j.fresh => rows[j.id].apps = j.apps
      <4>1. CASE j.step = "apps"
        BY <1>1, <4>1 DEF SaveOK, Holds
      <4>2. CASE j.step = "details" /\ place.apps
        BY <1>1, <3>2, <4>2 DEF SaveOK, Holds, AppsDiffer
      <4>3. CASE ~place.apps
        BY <1>1, <3>2, <4>3 DEF SaveOK, ConsoleInv, ListOK
      <4> QED
        BY <1>1, <4>1, <4>2, <4>3 DEF SaveJobs
    <3> QED
      BY <1>1, <3>1, <3>2, <3>3, <3>4 DEF SaidOK
  <2>2. CASE ~j.live
    BY <1>1, <1>2, <2>2 DEF SaidOK, ConsoleInv
  <2> QED
    BY <2>1, <2>2
\* The form.
<1>7. /\ PanelOK' /\ panel' \in Panels /\ opened' \in Nat /\ opened <= opened' /\ (place.follows => opened' <= 1)
      /\ (panel' = panel \/ panel' = NoPanel) /\ list' \in Seq(RowsOf) /\ ListOK(list)'
  <2>1. CASE panel' = panel
    <3>1. ASSUME panel # NoPanel, panel.id = 0, panel.n \notin repeated', \A m \in jobs' : MakesRow(m) => m.n # panel.n
          PROVE  ~MadeBy(panel.n)
      <4>1. ~(MakesRow(j) /\ j.n = panel.n)
        <5>1. SUFFICES ASSUME MakesRow(j), j.n = panel.n PROVE FALSE
          OBVIOUS
        <5>2. j.live /\ j.new
          BY <1>1, <3>1, <5>1 DEF SaveOK
        <5>3. place.adds
          BY <3>1 DEF ConsoleInv, PanelOK
        <5>4. ~place.follows
          BY <5>3, ConsoleTraits DEF ConsoleInv, ConsoleTypeOK
        <5> QED
          BY <1>1, <2>1, <3>1, <5>2, <5>4
      <4>2. \A m \in jobs : MakesRow(m) => m.n # panel.n
        BY <1>3, <3>1, <4>1
      <4> QED
        BY <1>1, <3>1, <4>2 DEF ConsoleInv, PanelOK
    <3> QED
      BY <1>1, <2>1, <3>1, ConsoleStays
  <2>2. CASE panel' = NoPanel
    <3>1. PanelOK'
      BY <1>1, <1>2, <2>2, ConsoleRecords DEF PanelOK
    <3>2. panel' \in Panels /\ opened' \in Nat /\ opened <= opened' /\ (place.follows => opened' <= 1)
      BY <1>1, <1>2, <2>2, ConsoleRecords DEF ConsoleInv, RowsOK
    <3>3. list' \in Seq(RowsOf) /\ ListOK(list)'
      BY <1>1, <1>2 DEF ListOK, ConsoleInv
    <3> QED
      BY <2>2, <3>1, <3>2, <3>3
  <2> QED
    BY <1>1, <2>1, <2>2
<1> QED
  BY <1>1, <1>3, <1>5, <1>6, <1>7, ConsoleReplies

\* A row is written in the server.
LEMMA ConsoleRowSet ==
  ASSUME NEW rs \in Seq(RowsOf), NEW r \in DOMAIN rs, NEW e \in RowsOf, NEW new, new = [rs EXCEPT ![r] = e]
  PROVE  /\ new \in Seq(RowsOf) /\ Len(new) = Len(rs) /\ DOMAIN new = DOMAIN rs
         /\ new[r] = e /\ \A i \in DOMAIN rs : i # r => new[i] = rs[i]
<1>1. r \in 1..Len(rs) /\ rs[r] \in RowsOf /\ DOMAIN rs = 1..Len(rs)
  BY ConsoleRows
<1>2. /\ [rs EXCEPT ![r] = e] \in Seq(RowsOf)
      /\ Len([rs EXCEPT ![r] = e]) = Len(rs)
      /\ \A i \in 1..Len(rs) : [rs EXCEPT ![r] = e][i] = IF i = r THEN e ELSE rs[i]
  BY <1>1, ExceptSeq
<1> QED
  BY <1>1, <1>2

LEMMA ConsoleDetailsSet ==
  ASSUME NEW rs \in Seq(RowsOf), NEW r \in DOMAIN rs, NEW x \in Typed, NEW new, new = [rs EXCEPT ![r].details = x]
  PROVE  /\ new \in Seq(RowsOf) /\ Len(new) = Len(rs) /\ DOMAIN new = DOMAIN rs
         /\ \A i \in DOMAIN rs : new[i].form = rs[i].form /\ (i # r => new[i] = rs[i])
         /\ new[r].details = x /\ new[r].apps = rs[r].apps
<1>1. rs[r] \in RowsOf
  BY ConsoleRows
<1>2. PICK e : e = [rs[r] EXCEPT !.details = x]
  OBVIOUS
<1>3. e \in RowsOf
  BY <1>1, <1>2 DEF RowsOf
<1>4. e.form = rs[r].form /\ e.details = x /\ e.apps = rs[r].apps
  BY <1>1, <1>2 DEF RowsOf
<1>5. new = [rs EXCEPT ![r] = e]
  BY <1>2
<1>6. /\ new \in Seq(RowsOf) /\ Len(new) = Len(rs) /\ DOMAIN new = DOMAIN rs
      /\ new[r] = e /\ \A i \in DOMAIN rs : i # r => new[i] = rs[i]
  BY <1>3, <1>5, ConsoleRowSet
<1> QED
  BY <1>4, <1>6

LEMMA ConsoleAppsSet ==
  ASSUME NEW rs \in Seq(RowsOf), NEW r \in DOMAIN rs, NEW x \in Typed, NEW new, new = [rs EXCEPT ![r].apps = x]
  PROVE  /\ new \in Seq(RowsOf) /\ Len(new) = Len(rs) /\ DOMAIN new = DOMAIN rs
         /\ \A i \in DOMAIN rs : new[i].form = rs[i].form /\ (i # r => new[i] = rs[i])
         /\ new[r].apps = x /\ new[r].details = rs[r].details
<1>1. rs[r] \in RowsOf
  BY ConsoleRows
<1>2. PICK e : e = [rs[r] EXCEPT !.apps = x]
  OBVIOUS
<1>3. e \in RowsOf
  BY <1>1, <1>2 DEF RowsOf
<1>4. e.form = rs[r].form /\ e.apps = x /\ e.details = rs[r].details
  BY <1>1, <1>2 DEF RowsOf
<1>5. new = [rs EXCEPT ![r] = e]
  BY <1>2
<1>6. /\ new \in Seq(RowsOf) /\ Len(new) = Len(rs) /\ DOMAIN new = DOMAIN rs
      /\ new[r] = e /\ \A i \in DOMAIN rs : i # r => new[i] = rs[i]
  BY <1>3, <1>5, ConsoleRowSet
<1> QED
  BY <1>4, <1>6

Stale(r, j) == IF j.op = "save" /\ j.id = r THEN [j EXCEPT !.fresh = FALSE] ELSE j
LEMMA ConsoleStale ==
  ASSUME NEW j \in SaveJobs \cup LoadJobs, NEW r
  PROVE  /\ Stale(r, j) \in SaveJobs \cup LoadJobs /\ Stale(r, j).op = j.op
         /\ j.op = "save" => /\ Like(j, Stale(r, j)) /\ Stale(r, j).live = j.live
                             /\ Stale(r, j).fresh => j.id # r
         /\ j.op = "load" => Stale(r, j) = j
<1>1. CASE j.op = "save" /\ j.id = r
  <2>1. j \in SaveJobs
    BY <1>1 DEF LoadJobs
  <2>2. Stale(r, j) = [j EXCEPT !.fresh = FALSE]
    BY <1>1 DEF Stale
  <2>3. Stale(r, j) \in SaveJobs
    BY <2>1, <2>2 DEF SaveJobs
  <2> QED
    BY <1>1, <2>1, <2>2, <2>3 DEF SaveJobs, Like
<1>2. CASE ~(j.op = "save" /\ j.id = r)
  BY <1>2 DEF Stale, Like
<1> QED
  BY <1>1, <1>2

LEMMA ConsoleWritten ==
  ASSUME ConsoleInv, UNCHANGED <<place, list, panel, opened>>, repeated \subseteq repeated',
         NEW r \in Nat, NEW others \in SUBSET jobs, NEW own \in SUBSET SaveJobs, Written(r, others, own),
         rows' \in Seq(RowsOf), Len(rows) <= Len(rows'), \A i \in DOMAIN rows : i # r => rows'[i] = rows[i],
         ListOK(rows)', RowsOK', PanelOK',
         \A k \in others : k.op = "save" /\ k.id = 0 /\ k.n \notin repeated' /\ MadeBy(k.n)' => MadeBy(k.n),
         \A k \in own : SaveOK(k)' /\ \E j \in jobs \ others : (MakesRow(k) => MakesRow(j)) /\ k.n = j.n,
         \A k, m \in own : k = m
  PROVE  ConsoleInv'
<1>1. /\ ConsoleTypeOK /\ rows \in Seq(RowsOf) /\ list \in Seq(RowsOf) /\ opened \in Nat /\ jobs \subseteq SaveJobs \cup LoadJobs
      /\ said \in SaidOf /\ place' = place
      /\ Len(rows) \in Nat /\ Len(rows') \in Nat /\ Len(list) \in Nat /\ DOMAIN rows = 1..Len(rows) /\ DOMAIN rows' = 1..Len(rows')
  BY ConsoleRows DEF ConsoleInv, ConsoleTypeOK
<1>2. /\ jobs' = {Stale(r, j) : j \in others} \cup own
      /\ said' = IF said.id = r THEN NothingYet ELSE said
  BY DEF Written, Stale
<1>3. ASSUME NEW k \in jobs', k \notin own
      PROVE  \E j \in others : k = Stale(r, j)
  BY <1>2, <1>3
<1>4. ASSUME NEW j \in others
      PROVE  LET k == Stale(r, j)
             IN  k \in SaveJobs \cup LoadJobs /\ (k.op = "save" => SaveOK(k)') /\ (k.op = "load" => LoadOK(k)')
  <2>1. PICK k : k = Stale(r, j)
    OBVIOUS
  <2>2. /\ k \in SaveJobs \cup LoadJobs /\ k.op = j.op /\ (j.op = "save" => Like(j, k) /\ k.live = j.live /\ (k.fresh => j.id # r))
        /\ j.op = "load" => k = j
    BY <1>1, <2>1, ConsoleStale
  <2>3. (j.op = "save" => SaveOK(j)) /\ (j.op = "load" => LoadOK(j))
    BY DEF ConsoleInv, JobsOK
  <2>4. ASSUME j.op = "save" PROVE SaveOK(k)'
    <3>1. j.id \in Nat /\ j.n \in Nat
      BY <1>1, <2>4, ConsoleJobs DEF SaveJobs
    <3>2. /\ k.fresh /\ k.id \in DOMAIN rows => rows'[k.id].details = rows[k.id].details /\ rows'[k.id].apps = rows[k.id].apps
          /\ k.id = 0 /\ k.n \notin repeated' /\ MadeBy(k.n)' => MadeBy(k.n)
          /\ panel'.n = k.n /\ panel'.id = 0 => panel.n = k.n /\ panel.id = 0 /\ k.live = j.live
          /\ opened' \in Nat /\ opened <= opened'
      BY <1>1, <2>2, <2>4 DEF Like
    <3> QED
      BY <1>1, <2>2, <2>3, <2>4, <3>1, <3>2, ConsoleSaveKept
  <2>5. ASSUME j.op = "load" PROVE LoadOK(k)'
    <3>1. j.rows \in Seq(RowsOf)
      BY <1>1, <2>5, ConsoleJobs DEF LoadJobs
    <3> QED
      BY <1>1, <2>2, <2>3, <2>5, <3>1, ConsoleLoadKept
  <2> QED
    BY <2>1, <2>2, <2>4, <2>5
<1>5. \A k \in own : k \in SaveJobs /\ k.op = "save" /\ SaveOK(k)'
  BY DEF SaveJobs
<1>6. ASSUME NEW k \in jobs'
      PROVE  k \in SaveJobs \cup LoadJobs /\ (k.op = "save" => SaveOK(k)') /\ (k.op = "load" => LoadOK(k)')
  BY <1>3, <1>4, <1>5
<1>7. ASSUME NEW k \in jobs', MakesRow(k)
      PROVE  \E j \in jobs : /\ MakesRow(j) /\ k.n = j.n
                             /\ k \in own => j \notin others
                             /\ k \notin own => j \in others /\ k = Stale(r, j)
  <2>1. CASE k \in own
    BY <1>7, <2>1
  <2>2. CASE k \notin own
    <3>1. PICK j \in others : k = Stale(r, j)
      BY <1>3, <2>2
    <3>2. k.op = j.op /\ (j.op = "save" => Like(j, k)) /\ j \in jobs
      BY <1>1, <3>1, ConsoleStale
    <3>3. MakesRow(j) /\ k.n = j.n
      BY <1>7, <3>2 DEF MakesRow, Like
    <3> QED
      BY <2>2, <3>1, <3>2, <3>3
  <2> QED
    BY <2>1, <2>2
<1>8. ASSUME NEW k \in jobs', NEW m \in jobs', MakesRow(k), MakesRow(m), k.n = m.n, k.n \notin repeated' PROVE k = m
  <2>1. PICK j \in jobs : /\ MakesRow(j) /\ k.n = j.n /\ (k \in own => j \notin others)
                          /\ k \notin own => j \in others /\ k = Stale(r, j)
    BY <1>7, <1>8
  <2>2. PICK l \in jobs : /\ MakesRow(l) /\ m.n = l.n /\ (m \in own => l \notin others)
                          /\ m \notin own => l \in others /\ m = Stale(r, l)
    BY <1>7, <1>8
  <2>3. j = l
    BY <1>8, <2>1, <2>2, ZenonT(40) DEF ConsoleInv, JobsOK
  <2> QED
    BY <2>1, <2>2, <2>3
<1>9. JobsOK'
  BY <1>6, <1>8 DEF JobsOK
<1>10. ConsoleTypeOK'
  BY <1>1, <1>2, <1>6, ConsoleRecords DEF ConsoleTypeOK
<1>11. ListOK(list)'
  BY <1>1 DEF ConsoleInv, ListOK
<1>12. SaidOK'
  BY <1>1, <1>2, ConsoleRecords DEF SaidOK, ConsoleInv
<1> QED
  BY <1>9, <1>10, <1>11, <1>12 DEF ConsoleInv

\* A form whose row is to be made knows of every request of its.
LEMMA ConsolePanelWritten ==
  ASSUME ConsoleInv, UNCHANGED <<place, panel, opened>>, repeated \subseteq repeated', NEW r,
         rows' \in Seq(RowsOf), Len(rows) <= Len(rows'),
         NEW others \in SUBSET jobs, NEW own \in SUBSET SaveJobs, Written(r, others, own),
         MadeBy(panel.n)' => MadeBy(panel.n) \/ panel.n \in repeated' \/ \E k \in own : MakesRow(k) /\ k.n = panel.n,
         \A j \in jobs \ others : MakesRow(j) /\ j.n = panel.n
             => panel.n \in repeated' \/ \E k \in own : MakesRow(k) /\ k.n = panel.n
  PROVE  PanelOK'
<1>1. /\ panel \in Panels /\ rows \in Seq(RowsOf) /\ PanelOK /\ panel.id \in Nat /\ Len(rows) \in Nat /\ Len(rows') \in Nat
      /\ jobs \subseteq SaveJobs \cup LoadJobs /\ place' = place /\ panel' = panel /\ opened' = opened
  BY ConsoleRows DEF ConsoleInv, ConsoleTypeOK, Panels
<1>2. panel'.id <= Len(rows')
  BY <1>1 DEF PanelOK
<1>3. ASSUME panel # NoPanel, panel.id = 0, panel.n \notin repeated', \A k \in jobs' : MakesRow(k) => k.n # panel.n
      PROVE  ~MadeBy(panel.n)'
  <2>1. jobs' = {Stale(r, j) : j \in others} \cup own
    BY DEF Written, Stale
  <2>2. \A k \in own : ~(MakesRow(k) /\ k.n = panel.n)
    BY <1>3, <2>1
  <2>3. ASSUME NEW j \in jobs, MakesRow(j) PROVE j.n # panel.n
    <3>1. CASE j \in others
      <4>1. Stale(r, j) \in jobs' /\ MakesRow(Stale(r, j)) /\ Stale(r, j).n = j.n
        BY <1>1, <2>1, <2>3, <3>1, ConsoleStale DEF MakesRow, Like
      <4> QED
        BY <1>3, <4>1
    <3>2. CASE j \notin others
      BY <1>3, <2>2, <2>3, <3>2
    <3> QED
      BY <3>1, <3>2
  <2>4. ~MadeBy(panel.n)
    BY <1>1, <1>3, <2>3 DEF PanelOK
  <2> QED
    BY <1>3, <2>2, <2>4
<1> QED
  BY <1>1, <1>2, <1>3 DEF PanelOK

LEMMA ConsoleOthers ==
  ASSUME ConsoleInv, NEW r \in DOMAIN rows, OthersChange(r)
  PROVE  ConsoleInv'
<1>1. /\ rows \in Seq(RowsOf) /\ list \in Seq(RowsOf) /\ r \in Nat /\ DOMAIN rows = 1..Len(rows) /\ Len(rows) \in Nat
      /\ UNCHANGED <<place, list, panel, opened, repeated>> /\ Written(r, jobs, {}) /\ ListOK(rows) /\ RowsOK
      /\ panel' = panel /\ place' = place /\ opened' = opened /\ repeated' = repeated
  BY ConsoleRows DEF ConsoleInv, ConsoleTypeOK, OthersChange
<1>2. PICK x \in Typed : /\ rows' = [rows EXCEPT ![r].details = x] \/ rows' = [rows EXCEPT ![r].apps = x]
                         /\ ~place.apps => rows' = [rows EXCEPT ![r].details = x]
  BY DEF OthersChange, Typed
<1>3. PICK new, rs : new = rows' /\ rs = rows
  OBVIOUS
<1>4. /\ new \in Seq(RowsOf) /\ Len(new) = Len(rows) /\ DOMAIN new = DOMAIN rows
      /\ \A i \in DOMAIN rows : new[i].form = rows[i].form /\ (i # r => new[i] = rows[i])
      /\ ~place.apps => new[r].apps = rows[r].apps
  <2>1. CASE rows' = [rows EXCEPT ![r].details = x]
    <3>1. rs \in Seq(RowsOf) /\ r \in DOMAIN rs /\ new = [rs EXCEPT ![r].details = x]
      BY <1>1, <1>3, <2>1
    <3>2. /\ new \in Seq(RowsOf) /\ Len(new) = Len(rs) /\ DOMAIN new = DOMAIN rs
          /\ \A i \in DOMAIN rs : new[i].form = rs[i].form /\ (i # r => new[i] = rs[i])
          /\ new[r].apps = rs[r].apps
      BY <3>1, ConsoleDetailsSet, SMTT(30)
    <3> QED
      BY <1>3, <3>2
  <2>2. CASE rows' = [rows EXCEPT ![r].apps = x] /\ place.apps
    <3>1. rs \in Seq(RowsOf) /\ r \in DOMAIN rs /\ new = [rs EXCEPT ![r].apps = x]
      BY <1>1, <1>3, <2>2
    <3>2. /\ new \in Seq(RowsOf) /\ Len(new) = Len(rs) /\ DOMAIN new = DOMAIN rs
          /\ \A i \in DOMAIN rs : new[i].form = rs[i].form /\ (i # r => new[i] = rs[i])
      BY <3>1, ConsoleAppsSet, SMTT(30)
    <3> QED
      BY <1>3, <2>2, <3>2
  <2> QED
    BY <1>2, <2>1, <2>2
<1>5. ListOK(rows)'
  BY <1>1, <1>2, <1>3, <1>4 DEF ListOK
<1>6. place # NoPage
  <2>1. rows # <<>>
    BY <1>1
  <2> QED
    BY <2>1 DEF ConsoleInv, RowsOK
<1>7. RowsOK'
  BY <1>1, <1>3, <1>4, <1>6 DEF RowsOK
<1>8. \A n : MadeBy(n)' = MadeBy(n)
  BY <1>3, <1>4 DEF MadeBy
<1>9. PICK own : own = {}
  OBVIOUS
<1>10. /\ own \in SUBSET SaveJobs /\ Written(r, jobs, own)
       /\ rows' \in Seq(RowsOf) /\ Len(rows) <= Len(rows') /\ (\A i \in DOMAIN rows : i # r => rows'[i] = rows[i])
       /\ repeated \subseteq repeated' /\ jobs \in SUBSET jobs
       /\ \A k \in jobs : k.op = "save" /\ k.id = 0 /\ k.n \notin repeated' /\ MadeBy(k.n)' => MadeBy(k.n)
       /\ \A k \in own : SaveOK(k)' /\ \E j \in jobs \ jobs : (MakesRow(k) => MakesRow(j)) /\ k.n = j.n
       /\ \A k, m \in own : k = m
       /\ MadeBy(panel.n)' => MadeBy(panel.n) \/ panel.n \in repeated' \/ \E k \in own : MakesRow(k) /\ k.n = panel.n
       /\ \A j \in jobs \ jobs : MakesRow(j) /\ j.n = panel.n
             => panel.n \in repeated' \/ \E k \in own : MakesRow(k) /\ k.n = panel.n
  <2>1. MadeBy(panel.n)' => MadeBy(panel.n)
    BY <1>1, <1>3, <1>4 DEF MadeBy
  <2> QED
    BY <1>1, <1>3, <1>4, <1>8, <1>9, <2>1
<1>11. PanelOK'
  BY <1>1, <1>10, ConsolePanelWritten
<1> QED
  BY <1>1, <1>5, <1>7, <1>10, <1>11, ConsoleWritten

LEMMA ConsoleServesSave ==
  ASSUME ConsoleInv, NEW j \in jobs, NEW heard \in BOOLEAN, ServesSave(j, heard)
  PROVE  ConsoleInv'
<1>1. /\ j \in SaveJobs /\ SaveOK(j) /\ j.op = "save" /\ j.at = "asked" /\ j.id \in Nat /\ j.n \in Nat /\ j.details \in Typed
      /\ j.apps \in Typed /\ j.prev \in Typed /\ j.step \in {"details", "apps"}
      /\ rows \in Seq(RowsOf) /\ list \in Seq(RowsOf) /\ opened \in Nat
      /\ Len(rows) \in Nat /\ DOMAIN rows = 1..Len(rows) /\ ListOK(rows) /\ RowsOK
      /\ place' = place /\ list' = list /\ panel' = panel /\ opened' = opened
  BY ConsoleJobs, ConsoleRows DEF ConsoleInv, ConsoleTypeOK, JobsOK, ServesSave, SaveJobs
<1>2. PICK r : r = IF j.id = 0 THEN Len(rows) + 1 ELSE j.id
  OBVIOUS
<1>3. PICK k : k = [j EXCEPT !.at = "answered", !.id = r]
  OBVIOUS
<1>4. PICK own : own = IF heard THEN {k} ELSE {}
  OBVIOUS
<1>5. PICK others : others = jobs \ {j}
  OBVIOUS
<1>6. /\ Written(r, others, own)
      /\ repeated \subseteq repeated' /\ (~heard => j.n \in repeated')
      /\ \/ j.id = 0 /\ rows' = Append(rows, [form |-> j.n, details |-> j.details, apps |-> 0])
         \/ j.step = "details" /\ j.id # 0 /\ rows' = [rows EXCEPT ![r].details = j.details]
         \/ j.step = "apps" /\ rows' = [rows EXCEPT ![r].apps = j.apps]
  BY <1>2, <1>3, <1>4, <1>5 DEF ServesSave
<1>7. /\ r \in Nat /\ r # 0 /\ (j.id # 0 => r \in DOMAIN rows /\ r = j.id) /\ (j.id = 0 => r = Len(rows) + 1)
      /\ j.step = "apps" => j.id # 0
  BY <1>1, <1>2 DEF SaveOK
<1>8. k \in SaveJobs
  BY <1>1, <1>3, <1>7 DEF SaveJobs
<1>9. /\ k.op = "save" /\ k.at = "answered" /\ k.id = r /\ k.n = j.n /\ k.new = j.new /\ k.details = j.details
      /\ k.apps = j.apps /\ k.prev = j.prev /\ k.step = j.step /\ k.fresh = j.fresh /\ k.live = j.live
  BY <1>1, <1>3 DEF SaveJobs
\* What the row holds afterwards.
<1>10. PICK new : new = rows'
  OBVIOUS
<1>11. /\ new \in Seq(RowsOf) /\ Len(rows) <= Len(new) /\ r \in DOMAIN new /\ DOMAIN new = DOMAIN rows \cup {r}
       /\ \A i \in DOMAIN rows : new[i].form = rows[i].form /\ (i # r => new[i] = rows[i])
       /\ j.id = 0 => new[r].form = j.n /\ new[r].details = j.details /\ new[r].apps = 0
       /\ j.id # 0 /\ j.step = "details" => new[r].details = j.details /\ new[r].apps = rows[r].apps
       /\ j.step = "apps" => new[r].apps = j.apps /\ new[r].details = rows[r].details
  <2>1. CASE j.id = 0
    <3>1. PICK e : e = [form |-> j.n, details |-> j.details, apps |-> 0]
      OBVIOUS
    <3>2. e \in RowsOf /\ e.form = j.n /\ e.details = j.details /\ e.apps = 0
      BY <1>1, <3>1 DEF RowsOf, Typed
    <3>3. new = Append(rows, e)
      BY <1>6, <1>7, <1>10, <2>1, <3>1
    <3>4. /\ new \in Seq(RowsOf) /\ Len(new) = Len(rows) + 1 /\ (\A i \in 1..Len(rows) : new[i] = rows[i])
          /\ new[Len(rows) + 1] = e
      BY <1>1, <3>2, <3>3, AppendProperties
    <3>5. DOMAIN new = 1..(Len(rows) + 1)
      BY <3>4, ConsoleRows
    <3>6. DOMAIN new = DOMAIN rows \cup {r} /\ r \in DOMAIN new /\ Len(rows) <= Len(new)
      BY <1>1, <1>7, <2>1, <3>4, <3>5
    <3> QED
      BY <1>1, <1>7, <2>1, <3>2, <3>4, <3>6
  <2>2. CASE j.id # 0 /\ j.step = "details"
    <3>1. PICK rs, x : rs = rows /\ x = j.details
      OBVIOUS
    <3>2. rs \in Seq(RowsOf) /\ r \in DOMAIN rs /\ x \in Typed /\ new = [rs EXCEPT ![r].details = x]
      BY <1>1, <1>6, <1>7, <1>10, <2>2, <3>1
    <3>3. /\ new \in Seq(RowsOf) /\ Len(new) = Len(rs) /\ DOMAIN new = DOMAIN rs
          /\ \A i \in DOMAIN rs : new[i].form = rs[i].form /\ (i # r => new[i] = rs[i])
          /\ new[r].details = x /\ new[r].apps = rs[r].apps
      BY <3>2, ConsoleDetailsSet, SMTT(30)
    <3> QED
      BY <1>1, <1>7, <2>2, <3>1, <3>2, <3>3
  <2>3. CASE j.step = "apps"
    <3>1. PICK rs, x : rs = rows /\ x = j.apps
      OBVIOUS
    <3>2. rs \in Seq(RowsOf) /\ r \in DOMAIN rs /\ x \in Typed /\ new = [rs EXCEPT ![r].apps = x]
      BY <1>1, <1>6, <1>7, <1>10, <2>3, <3>1
    <3>3. /\ new \in Seq(RowsOf) /\ Len(new) = Len(rs) /\ DOMAIN new = DOMAIN rs
          /\ \A i \in DOMAIN rs : new[i].form = rs[i].form /\ (i # r => new[i] = rs[i])
          /\ new[r].apps = x /\ new[r].details = rs[r].details
      BY <3>2, ConsoleAppsSet, SMTT(30)
    <3> QED
      BY <1>1, <1>7, <2>3, <3>1, <3>2, <3>3
  <2> QED
    BY <1>1, <2>1, <2>2, <2>3
<1>12. Len(new) \in Nat /\ DOMAIN new = 1..Len(new)
  BY <1>11, ConsoleRows
<1>13. place # NoPage
  BY DEF ConsoleInv, RowsOK
<1>14. k.fresh => Holds(k)'
  <2>1. SUFFICES ASSUME j.fresh PROVE Holds(k)'
    BY <1>9
  <2>2. Holds(j)
    BY <1>1, <2>1 DEF SaveOK
  <2> QED
    BY <1>1, <1>7, <1>9, <1>10, <1>11, <2>2 DEF Holds
<1>15. SaveOK(k)'
  <2>1. k.id <= Len(new) /\ k.id # 0
    BY <1>7, <1>9, <1>11, <1>12
  <2> QED
    BY <1>1, <1>9, <1>10, <1>14, <2>1 DEF SaveOK
<1>16. ListOK(rows)'
  <2>1. ~place.apps => new[r].apps = 0
    <3>1. j.id # 0 /\ ~place.apps => rows[r].apps = 0
      BY <1>1, <1>7 DEF ListOK
    <3>2. ~place.apps => j.apps = 0
      BY <1>1 DEF SaveOK
    <3> QED
      BY <1>1, <1>7, <1>11, <3>1, <3>2
  <2> QED
    BY <1>1, <1>10, <1>11, <1>12, <2>1 DEF ListOK
\* Which forms have rows.
<1>17. \A n : MadeBy(n)' => MadeBy(n) \/ (j.id = 0 /\ n = j.n)
  BY <1>7, <1>10, <1>11 DEF MadeBy
<1>18. RowsOK'
  <2>1. ASSUME NEW i \in DOMAIN new PROVE new[i].form <= opened
    <3>1. CASE i \in DOMAIN rows
      BY <1>1, <1>11, <3>1 DEF RowsOK
    <3>2. CASE i \notin DOMAIN rows
      BY <1>1, <1>7, <1>11, <3>2 DEF SaveOK
    <3> QED
      BY <3>1, <3>2
  <2>2. ASSUME NEW i \in DOMAIN new, NEW s \in DOMAIN new, i # s, new[i].form = new[s].form, new[i].form \notin repeated'
        PROVE  FALSE
    <3>1. CASE i \in DOMAIN rows /\ s \in DOMAIN rows
      BY <1>1, <1>6, <1>11, <2>2, <3>1 DEF RowsOK
    <3>2. CASE i \notin DOMAIN rows \/ s \notin DOMAIN rows
      <4>1. j.id = 0 /\ MadeBy(j.n) /\ j.n = new[i].form
        BY <1>7, <1>11, <2>2, <3>2 DEF MadeBy
      <4> QED
        BY <1>1, <1>6, <2>2, <4>1 DEF SaveOK
    <3> QED
      BY <3>1, <3>2
  <2>3. place.follows => opened' <= 1 /\ Len(new) > 0
    BY <1>1, <1>11, <1>12 DEF RowsOK
  <2> QED
    BY <1>1, <1>10, <1>13, <2>1, <2>2, <2>3 DEF RowsOK
<1>19. /\ own \in SUBSET SaveJobs /\ others \in SUBSET jobs
       /\ rows' \in Seq(RowsOf) /\ Len(rows) <= Len(rows') /\ (\A i \in DOMAIN rows : i # r => rows'[i] = rows[i])
       /\ \A m \in own : SaveOK(m)' /\ \E i \in jobs \ others : (MakesRow(m) => MakesRow(i)) /\ m.n = i.n
       /\ \A l, m \in own : l = m
  <2>1. own \in SUBSET SaveJobs /\ others \in SUBSET jobs /\ \A m \in own : m = k
    BY <1>4, <1>5, <1>8
  <2>2. rows' \in Seq(RowsOf) /\ Len(rows) <= Len(rows') /\ (\A i \in DOMAIN rows : i # r => rows'[i] = rows[i])
    BY <1>10, <1>11
  <2>3. j \in jobs \ others /\ (MakesRow(k) => MakesRow(j)) /\ k.n = j.n
    BY <1>1, <1>5, <1>9 DEF MakesRow
  <2>4. ASSUME NEW m \in own PROVE SaveOK(m)' /\ \E i \in jobs \ others : (MakesRow(m) => MakesRow(i)) /\ m.n = i.n
    BY <1>15, <2>1, <2>3
  <2> QED
    BY <2>1, <2>2, <2>4
<1>20. ASSUME NEW m \in others, m.op = "save", m.id = 0, m.n \notin repeated', MadeBy(m.n)' PROVE MadeBy(m.n)
  <2>1. SUFFICES ASSUME j.id = 0, m.n = j.n PROVE FALSE
    BY <1>17, <1>20
  <2>2. m \in jobs /\ m # j /\ SaveOK(m)
    BY <1>5, <1>20 DEF ConsoleInv, JobsOK
  <2>3. MakesRow(m) /\ MakesRow(j)
    BY <1>1, <1>20, <2>1, <2>2 DEF SaveOK, MakesRow
  <2> QED
    BY <1>6, <1>20, <2>1, <2>2, <2>3 DEF ConsoleInv, JobsOK
<1>21. MakesRow(j) /\ j.n = panel.n => panel.n \in repeated' \/ \E m \in own : MakesRow(m) /\ m.n = panel.n
  BY <1>4, <1>6, <1>9 DEF MakesRow
<1>22. MadeBy(panel.n)' => MadeBy(panel.n) \/ panel.n \in repeated' \/ \E m \in own : MakesRow(m) /\ m.n = panel.n
  <2>1. j.id = 0 => MakesRow(j)
    BY <1>1 DEF SaveOK, MakesRow
  <2>2. MadeBy(panel.n)' => MadeBy(panel.n) \/ (j.id = 0 /\ panel.n = j.n)
    <3>1. PICK n : n = panel.n
      OBVIOUS
    <3>2. MadeBy(n)' => MadeBy(n) \/ (j.id = 0 /\ n = j.n)
      BY <1>17
    <3>3. MadeBy(panel.n)' = MadeBy(n)'
      BY <1>1, <3>1 DEF MadeBy
    <3> QED
      BY <3>1, <3>2, <3>3
  <2> QED
    BY <1>21, <2>1, <2>2
<1>23. PanelOK'
  <2>1. \A i \in jobs \ others : MakesRow(i) /\ i.n = panel.n
             => panel.n \in repeated' \/ \E m \in own : MakesRow(m) /\ m.n = panel.n
    BY <1>5, <1>21
  <2>2. UNCHANGED <<place, panel, opened>>
    BY <1>1
  <2> QED
    BY <1>6, <1>19, <1>22, <2>1, <2>2, ConsolePanelWritten
<1>24. UNCHANGED <<place, list, panel, opened>>
       /\ \A m \in others : m.op = "save" /\ m.id = 0 /\ m.n \notin repeated' /\ MadeBy(m.n)' => MadeBy(m.n)
  BY <1>1, <1>20
<1> QED
  BY <1>6, <1>7, <1>16, <1>18, <1>19, <1>23, <1>24, ConsoleWritten, SMTT(30)

LEMMA ConsoleComesInFront ==
  ASSUME ConsoleInv, NEW p \in ConsolePages, ComesInFront(p)
  PROVE  ConsoleInv'
<1>1. /\ place \in {NoPage, p} /\ place' = p /\ list' = <<>> /\ panel' = NoPanel /\ said' = NothingYet
      /\ jobs' = {[j EXCEPT !.live = FALSE] : j \in jobs} \cup {LoadJob}
      /\ rows' = IF place = NoPage /\ ~p.adds THEN <<[form |-> 0, details |-> 0, apps |-> 0]>> ELSE rows
      /\ UNCHANGED <<opened, repeated>>
  BY DEF ComesInFront
<1>2. /\ rows \in Seq(RowsOf) /\ opened \in Nat /\ jobs \subseteq SaveJobs \cup LoadJobs
      /\ Len(rows) \in Nat /\ DOMAIN rows = 1..Len(rows)
      /\ place = NoPage => rows = <<>> /\ jobs = {} /\ opened = 0
      /\ p # NoPage /\ (p.follows => ~p.adds)
  BY ConsoleRows, ConsoleTraits DEF ConsoleInv, ConsoleTypeOK, RowsOK
\* The rows.
<1>3. /\ rows' \in Seq(RowsOf) /\ Len(rows) <= Len(rows') /\ Len(rows') \in Nat
      /\ \A r \in DOMAIN rows' : rows'[r].form <= opened
      /\ \A r, s \in DOMAIN rows' : r # s /\ rows'[r].form = rows'[s].form => rows'[r].form \in repeated
      /\ ~p.apps => \A r \in DOMAIN rows' : rows'[r].apps = 0
      /\ p.follows => Len(rows') > 0 /\ opened <= 1
  <2>1. CASE place = NoPage /\ ~p.adds
    <3>1. PICK e : e = [form |-> 0, details |-> 0, apps |-> 0]
      OBVIOUS
    <3>2. e \in RowsOf /\ e.form = 0 /\ e.apps = 0
      BY <3>1 DEF RowsOf, Typed
    <3>3. rows' = <<e>>
      BY <1>1, <2>1, <3>1
    <3>4. rows' \in Seq(RowsOf) /\ Len(rows') = 1 /\ DOMAIN rows' = 1..1 /\ rows'[1] = e
      BY <3>2, <3>3
    <3>5. Len(rows) = 0
      BY <1>2, <2>1, ConsoleRecords
    <3> QED
      BY <1>2, <2>1, <3>2, <3>4, <3>5
  <2>2. CASE place = NoPage /\ p.adds
    <3>1. rows' = <<>> /\ DOMAIN rows' = {} /\ ~p.follows
      BY <1>1, <1>2, <2>2, ConsoleRecords
    <3> QED
      BY <1>1, <1>2, <2>2, <3>1
  <2>3. CASE place # NoPage
    <3>1. rows' = rows /\ place = p
      BY <1>1, <2>3
    <3> QED
      BY <1>2, <3>1 DEF ConsoleInv, RowsOK, ListOK
  <2> QED
    BY <2>1, <2>2, <2>3
\* The requests, which go on unseen.
<1>4. ASSUME NEW k \in jobs'
      PROVE  k = LoadJob \/ \E j \in jobs : k = [j EXCEPT !.live = FALSE]
  BY <1>1
<1>5. ASSUME NEW j \in jobs, NEW k, k = [j EXCEPT !.live = FALSE]
      PROVE  /\ k \in SaveJobs \cup LoadJobs /\ k.op = j.op
             /\ j.op = "save" => j \in SaveJobs /\ Like(j, k)
             /\ j.op = "load" => j \in LoadJobs /\ k.rows = j.rows /\ k.at = j.at
  <2>1. CASE j \in SaveJobs
    <3>1. k \in SaveJobs
      BY <1>5, <2>1 DEF SaveJobs
    <3>2. Like(j, k) /\ j.op = "save"
      BY <1>5, <2>1 DEF SaveJobs, Like
    <3> QED
      BY <2>1, <3>1, <3>2 DEF Like
  <2>2. CASE j \in LoadJobs
    <3>1. k \in LoadJobs
      BY <1>5, <2>2 DEF LoadJobs
    <3>2. k.rows = j.rows /\ k.at = j.at /\ k.op = j.op /\ j.op = "load"
      BY <1>5, <2>2 DEF LoadJobs
    <3> QED
      BY <2>2, <3>1, <3>2
  <2> QED
    BY <1>2, <2>1, <2>2
<1>6. jobs # {} => place = p /\ rows' = rows
  BY <1>1, <1>2
<1>7. LoadOK(LoadJob)'
  BY <1>1, <1>3, ConsoleRecords DEF LoadOK, ListOK
<1>8. ASSUME NEW k \in jobs'
      PROVE  k \in SaveJobs \cup LoadJobs /\ (k.op = "save" => SaveOK(k)') /\ (k.op = "load" => LoadOK(k)')
  <2>1. CASE k = LoadJob
    BY <1>7, <2>1, ConsoleRecords
  <2>2. ASSUME NEW j \in jobs, k = [j EXCEPT !.live = FALSE]
        PROVE  k \in SaveJobs \cup LoadJobs /\ (k.op = "save" => SaveOK(k)') /\ (k.op = "load" => LoadOK(k)')
    <3>1. /\ k \in SaveJobs \cup LoadJobs /\ k.op = j.op
          /\ j.op = "save" => j \in SaveJobs /\ Like(j, k)
          /\ j.op = "load" => j \in LoadJobs /\ k.rows = j.rows /\ k.at = j.at
          /\ place' = place /\ rows' = rows
      BY <1>1, <1>5, <1>6, <2>2
    <3>2. (j.op = "save" => SaveOK(j)) /\ (j.op = "load" => LoadOK(j))
      BY DEF ConsoleInv, JobsOK
    <3>3. ASSUME j.op = "save" PROVE SaveOK(k)'
      <4>1. /\ j.id \in Nat /\ j.n \in Nat /\ j.n > 0 /\ k.n = j.n /\ panel'.n = 0
            /\ MadeBy(k.n)' = MadeBy(k.n) /\ repeated \subseteq repeated' /\ opened' \in Nat /\ opened <= opened'
        BY <1>1, <1>2, <3>1, <3>2, <3>3, ConsoleRecords DEF SaveJobs, SaveOK, Like, MadeBy
      <4> QED
        BY <1>2, <1>3, <3>1, <3>2, <3>3, <4>1, ConsoleSaveKept
    <3>4. ASSUME j.op = "load" PROVE LoadOK(k)'
      <4>1. j.rows \in Seq(RowsOf)
        BY <3>1, <3>4 DEF LoadJobs
      <4> QED
        BY <1>2, <1>3, <3>1, <3>2, <3>4, <4>1, ConsoleLoadKept
    <3> QED
      BY <3>1, <3>3, <3>4
  <2> QED
    BY <1>4, <2>1, <2>2
<1>9. ASSUME NEW k \in jobs', NEW m \in jobs', MakesRow(k), MakesRow(m), k.n = m.n, k.n \notin repeated' PROVE k = m
  <2>1. k # LoadJob /\ m # LoadJob
    BY <1>9, ConsoleRecords DEF MakesRow
  <2>2. PICK i \in jobs, j \in jobs : k = [i EXCEPT !.live = FALSE] /\ m = [j EXCEPT !.live = FALSE]
    BY <1>4, <1>9, <2>1
  <2>3. MakesRow(i) /\ MakesRow(j) /\ i.n = k.n /\ j.n = m.n
    <3>1. k.op = i.op /\ m.op = j.op /\ (i.op = "save" => Like(i, k)) /\ (j.op = "save" => Like(j, m))
      BY <1>5, <2>2
    <3> QED
      BY <1>9, <3>1 DEF MakesRow, Like
  <2>4. i = j
    BY <1>1, <1>9, <2>3 DEF ConsoleInv, JobsOK
  <2> QED
    BY <2>2, <2>4
<1>10. JobsOK'
  BY <1>8, <1>9 DEF JobsOK
<1>11. ConsoleTypeOK'
  BY <1>1, <1>2, <1>3, <1>8, ConsoleRecords DEF ConsoleTypeOK
<1>12. (ListOK(rows) /\ ListOK(list))'
  BY <1>1, <1>3, ConsoleRecords DEF ListOK
<1>13. RowsOK' /\ SaidOK'
  BY <1>1, <1>2, <1>3, ConsoleRecords DEF RowsOK, SaidOK
<1>14. PanelOK'
  BY <1>1, <1>2, <1>3, ConsoleRecords DEF PanelOK
<1> QED
  BY <1>10, <1>11, <1>12, <1>13, <1>14 DEF ConsoleInv

LEMMA ConsoleInits == ConsoleInit => ConsoleInv
<1> SUFFICES ASSUME ConsoleInit PROVE ConsoleInv
  OBVIOUS
<1>1. /\ place = NoPage /\ rows = <<>> /\ list = <<>> /\ panel = NoPanel /\ opened = 0 /\ jobs = {} /\ said = NothingYet
  BY DEF ConsoleInit
<1>2. ConsoleTypeOK
  BY <1>1, ConsoleRecords DEF ConsoleTypeOK
<1>3. ListOK(rows) /\ ListOK(list) /\ RowsOK /\ JobsOK /\ SaidOK
  BY <1>1, ConsoleRecords, ConsoleTraits DEF ListOK, RowsOK, JobsOK, SaidOK
<1>4. PanelOK
  BY <1>1, ConsoleRecords DEF PanelOK
<1> QED
  BY <1>2, <1>3, <1>4 DEF ConsoleInv

LEMMA ConsoleStep == ConsoleInv /\ [ConsoleNext]_consoleVars => ConsoleInv'
<1> SUFFICES ASSUME ConsoleInv, [ConsoleNext]_consoleVars PROVE ConsoleInv'
  OBVIOUS
<1>1. CASE \E p \in ConsolePages : ComesInFront(p)
  BY <1>1, ConsoleComesInFront
<1>2. CASE OpensNew \/ (\E r \in DOMAIN rows : Edits(r)) \/ Types \/ Cancels
  BY <1>2, ConsoleForms
<1>3. CASE Saves
  BY <1>3, ConsoleSaves
<1>4. CASE \E r \in DOMAIN rows : OthersChange(r)
  BY <1>4, ConsoleOthers
<1>5. ASSUME NEW j \in jobs,
             \/ ServesLoad(j) \/ ServesSave(j, TRUE) \/ ServesSave(j, FALSE) \/ FailsSave(j)
             \/ RowsCome(j) \/ GoesOn(j) \/ SavedComes(j)
      PROVE  ConsoleInv'
  <2>1. CASE ServesLoad(j) \/ RowsCome(j)
    BY <2>1, ConsoleLoads
  <2>2. CASE ServesSave(j, TRUE) \/ ServesSave(j, FALSE)
    <3>1. PICK heard \in BOOLEAN : ServesSave(j, heard)
      BY <2>2
    <3> QED
      BY <3>1, ConsoleServesSave
  <2>3. CASE FailsSave(j)
    BY <2>3, ConsoleFails
  <2>4. CASE GoesOn(j)
    BY <2>4, ConsoleGoesOn
  <2>5. CASE SavedComes(j)
    BY <2>5, ConsoleSaved
  <2> QED
    BY <1>5, <2>1, <2>2, <2>3, <2>4, <2>5
<1>6. CASE UNCHANGED consoleVars
  BY <1>6 DEF consoleVars, ConsoleInv, ConsoleTypeOK, ListOK, RowsOK, MadeBy, PanelOK, MakesRow, Holds, SaveOK, LoadOK,
              JobsOK, SaidOK
<1> QED
  BY <1>1, <1>2, <1>3, <1>4, <1>5, <1>6 DEF ConsoleNext

LEMMA ConsoleSaysSo == ConsoleInv => SavedAsSaid
  BY DEF ConsoleInv, RowsOK, SaidOK, SavedAsSaid

-----------------------------------------------------------------------------
(* The way in to the console *)

Words == {"none", "unknown", "refused", "ok", "code", "on", "off", "anon", "password", "enrol", "in"}
Requests ==
  [op : {"me", "login", "verify", "change", "logout", "status", "setup", "enable", "regenerate", "disable"},
   at : {"asked", "answered"}, saw : Words, n : Nat, codes : Nat, live : BOOLEAN]
AccountPages ==
  [open : BOOLEAN, known : Words, mode : {"idle", "enrol", "disable", "regenerate"}, n : Nat, ready : BOOLEAN, codes : Nat]
PersonRows ==
  [session : BOOLEAN, change : BOOLEAN, required : BOOLEAN, on : BOOLEAN, secret : Nat, codes : Nat, shown : Nat]
EntryTypeOK == account \in AccountPages /\ person \in PersonRows /\ asked \subseteq Requests /\ unseen \in BOOLEAN

Makes(q) == q.op \in Making
MadeCodes(q) == Makes(q) /\ q.at = "answered" /\ q.saw = "ok"

\* The one request that makes codes carries the last ones made.
CodesOnTheirWay ==
  /\ \A q \in asked : Makes(q) => account.codes = 0
  /\ \A q \in asked : MadeCodes(q) => q.codes = person.codes
  /\ \A q, r \in asked : Makes(q) /\ Makes(r) => q = r
  /\ account.codes # 0 => account.codes = person.codes
  /\ person.on => person.shown = person.codes \/ \E q \in asked : MadeCodes(q)

EntryInv == EntryTypeOK /\ (unseen \/ (\E q \in asked : MadeCodes(q) /\ ~q.live) \/ CodesOnTheirWay)

LEMMA EntryRequests ==
  ASSUME EntryTypeOK,
         NEW op \in {"me", "login", "verify", "change", "logout", "status", "setup", "enable", "regenerate", "disable"}
  PROVE  Request(op) \in Requests /\ Request(op).op = op /\ Request(op).at = "asked"
<1>1. account.n \in Nat
  BY DEF EntryTypeOK, AccountPages
<1>2. Request(op) = [op |-> op, at |-> "asked", saw |-> "none", n |-> account.n, codes |-> 0, live |-> TRUE]
  BY DEF Request
<1>3. Request(op).op = op /\ Request(op).at = "asked"
  BY <1>2
<1>4. "none" \in Words /\ "asked" \in {"asked", "answered"} /\ 0 \in Nat /\ TRUE \in BOOLEAN
  BY DEF Words
<1>5. Request(op) \in Requests
  BY <1>1, <1>2, <1>4 DEF Requests
<1> QED
  BY <1>3, <1>5

LEMMA EntryLeftBehind ==
  ASSUME NEW q \in Requests, NEW k, k = [q EXCEPT !.live = FALSE]
  PROVE  k \in Requests /\ ~k.live /\ k.op = q.op /\ k.at = q.at /\ k.saw = q.saw /\ k.codes = q.codes
<1>1. k \in Requests
  BY DEF Requests
<1> QED
  BY <1>1 DEF Requests

LEMMA EntryClosed == Closed \in AccountPages /\ Closed.codes = 0
  BY DEF AccountPages, Closed, Words

LEMMA EntrySetup ==
  ASSUME EntryTypeOK, NEW q, q = [Request("setup") EXCEPT !.n = account.n + 1]
  PROVE  q \in Requests /\ ~Makes(q)
<1>1. account.n \in Nat
  BY DEF EntryTypeOK, AccountPages
<1>2. PICK r : r = Request("setup")
  OBVIOUS
<1>3. r \in Requests /\ r.op = "setup"
  BY <1>2, EntryRequests
<1>4. q = [r EXCEPT !.n = account.n + 1] /\ account.n + 1 \in Nat
  BY <1>1, <1>2
<1>5. q \in Requests
  BY <1>3, <1>4 DEF Requests
<1>6. q.op = "setup"
  BY <1>3, <1>4 DEF Requests
<1> QED
  BY <1>5, <1>6 DEF Makes, Making

\* A step that makes no codes and shows none.
LEMMA EntryKept ==
  ASSUME EntryInv, NEW S \in SUBSET asked, NEW N \in SUBSET Requests, NEW gone \in BOOLEAN,
         asked' = (IF gone THEN Gone(S) ELSE S) \cup N,
         \A q \in asked \ S : ~MadeCodes(q), \A q \in N : ~Makes(q),
         account' \in AccountPages, account'.codes \in {0, account.codes},
         person' \in PersonRows, person'.codes = person.codes, person'.shown = person.shown, person'.on => person.on,
         unseen' = unseen
  PROVE  EntryInv'
<1>1. asked \subseteq Requests /\ S \subseteq Requests
  BY DEF EntryInv, EntryTypeOK
<1>2. ASSUME NEW k \in asked', k \notin N
      PROVE  \E j \in S : k = IF gone THEN [j EXCEPT !.live = FALSE] ELSE j
  BY <1>2 DEF Gone
<1>3. ASSUME NEW j \in S
      PROVE  (IF gone THEN [j EXCEPT !.live = FALSE] ELSE j) \in asked'
  BY DEF Gone
<1>4. ASSUME NEW j \in S, NEW k, k = IF gone THEN [j EXCEPT !.live = FALSE] ELSE j
      PROVE  /\ k \in Requests /\ k.op = j.op /\ k.codes = j.codes /\ (MadeCodes(k) <=> MadeCodes(j)) /\ (Makes(k) <=> Makes(j))
             /\ ~j.live => ~k.live
  <2>1. CASE gone
    <3>1. k = [j EXCEPT !.live = FALSE] /\ j \in Requests
      BY <1>1, <1>4, <2>1
    <3>2. k \in Requests /\ ~k.live /\ k.op = j.op /\ k.at = j.at /\ k.saw = j.saw /\ k.codes = j.codes
      BY <3>1, EntryLeftBehind
    <3> QED
      BY <3>2 DEF MadeCodes, Makes
  <2>2. CASE ~gone
    BY <1>1, <1>4, <2>2
  <2> QED
    BY <2>1, <2>2
<1>5. ASSUME NEW k \in asked' PROVE k \in Requests
  BY <1>2, <1>4
<1>6. EntryTypeOK'
  BY <1>5 DEF EntryTypeOK, EntryInv
<1>7. CASE unseen
  BY <1>6, <1>7 DEF EntryInv
<1>8. ASSUME NEW q \in asked, MadeCodes(q), ~q.live PROVE EntryInv'
  <2>1. q \in S
    BY <1>8
  <2>2. PICK k : k = IF gone THEN [q EXCEPT !.live = FALSE] ELSE q
    OBVIOUS
  <2>3. k \in asked' /\ MadeCodes(k) /\ ~k.live
    BY <1>3, <1>4, <1>8, <2>1, <2>2
  <2> QED
    BY <1>6, <2>3 DEF EntryInv, MadeCodes, Makes
<1>9. CASE CodesOnTheirWay
  <2>1. ASSUME NEW k \in asked', Makes(k)
        PROVE  /\ account'.codes = 0 /\ (MadeCodes(k) => k.codes = person'.codes)
               /\ \E j \in S : Makes(j) /\ k = IF gone THEN [j EXCEPT !.live = FALSE] ELSE j
    <3>1. PICK j \in S : k = IF gone THEN [j EXCEPT !.live = FALSE] ELSE j
      BY <1>2, <2>1
    <3>2. Makes(j) /\ k.codes = j.codes /\ (MadeCodes(k) <=> MadeCodes(j))
      BY <1>4, <2>1, <3>1
    <3>3. account.codes = 0 /\ (MadeCodes(j) => j.codes = person.codes)
      BY <1>9, <3>2 DEF CodesOnTheirWay
    <3> QED
      BY <3>1, <3>2, <3>3
  <2>2. ASSUME NEW k \in asked', NEW m \in asked', Makes(k), Makes(m) PROVE k = m
    <3>1. PICK i \in S : Makes(i) /\ k = IF gone THEN [i EXCEPT !.live = FALSE] ELSE i
      BY <2>1, <2>2
    <3>2. PICK j \in S : Makes(j) /\ m = IF gone THEN [j EXCEPT !.live = FALSE] ELSE j
      BY <2>1, <2>2
    <3>3. i = j
      BY <1>9, <3>1, <3>2 DEF CodesOnTheirWay
    <3> QED
      BY <3>1, <3>2, <3>3
  <2>3. ASSUME NEW j \in asked, MadeCodes(j) PROVE \E k \in asked' : MadeCodes(k)
    <3>1. j \in S
      BY <2>3
    <3>2. PICK k : k = IF gone THEN [j EXCEPT !.live = FALSE] ELSE j
      OBVIOUS
    <3> QED
      BY <1>3, <1>4, <2>3, <3>1, <3>2
  <2>4. account'.codes # 0 => account'.codes = person'.codes
    BY <1>9 DEF CodesOnTheirWay
  <2>5. person'.on => person'.shown = person'.codes \/ \E k \in asked' : MadeCodes(k)
    BY <1>9, <2>3 DEF CodesOnTheirWay
  <2>6. \A k \in asked' : MadeCodes(k) => Makes(k)
    BY DEF MadeCodes
  <2>7. CodesOnTheirWay'
    BY <2>1, <2>2, <2>4, <2>5, <2>6 DEF CodesOnTheirWay, MadeCodes, Makes
  <2> QED
    BY <1>6, <2>7 DEF EntryInv
<1> QED
  BY <1>7, <1>8, <1>9 DEF EntryInv

\* A shows or the page is used, and at most something that makes no codes is asked.
LEMMA EntryAsks ==
  ASSUME EntryInv, NEW N \in SUBSET Requests, asked' = asked \cup N, \A q \in N : ~Makes(q),
         account' \in AccountPages, account'.codes \in {0, account.codes}, UNCHANGED <<person, unseen>>
  PROVE  EntryInv'
<1>1. person' \in PersonRows /\ person' = person /\ unseen' = unseen
  BY DEF EntryInv, EntryTypeOK
<1>2. PICK S \in SUBSET asked, gone \in BOOLEAN : S = asked /\ gone = FALSE
  OBVIOUS
<1>3. /\ S \in SUBSET asked /\ asked' = (IF gone THEN Gone(S) ELSE S) \cup N
      /\ \A q \in asked \ S : ~MadeCodes(q)
  BY <1>2
<1> QED
  BY <1>1, <1>3, EntryKept

LEMMA EntryUsed ==
  ASSUME EntryInv,
         \/ \E op \in {"login", "verify"} : SignsIn(op)
         \/ \E mode \in {"disable", "regenerate"} : Opens(mode)
         \/ ChangesPassword \/ SignsOut \/ OpensAccount \/ BeginsEnrolment \/ ClosesForm \/ SavedCodes
  PROVE  EntryInv'
<1>1. EntryTypeOK /\ account \in AccountPages /\ account.n \in Nat /\ account.codes \in Nat
  BY DEF EntryInv, EntryTypeOK, AccountPages
<1>2. ASSUME NEW op \in {"me", "login", "verify", "change", "logout", "status"}, AsksFor(op),
             account' \in AccountPages, account'.codes \in {0, account.codes}, UNCHANGED <<person, unseen>>
      PROVE  EntryInv'
  <2>1. PICK q : q = Request(op)
    OBVIOUS
  <2>2. PICK N : N = {q}
    OBVIOUS
  <2>3. q \in Requests /\ ~Makes(q)
    BY <1>1, <2>1, EntryRequests DEF Makes, Making
  <2>4. N \in SUBSET Requests /\ asked' = asked \cup N /\ \A k \in N : ~Makes(k)
    BY <1>2, <2>1, <2>2, <2>3 DEF AsksFor
  <2> QED
    BY <1>2, <2>4, EntryAsks
<1>3. ASSUME UNCHANGED asked, account' \in AccountPages, account'.codes \in {0, account.codes}, UNCHANGED <<person, unseen>>
      PROVE  EntryInv'
  <2>1. PICK N : N = {}
    OBVIOUS
  <2>2. N \in SUBSET Requests /\ asked' = asked \cup N /\ \A q \in N : ~Makes(q)
    BY <1>3, <2>1
  <2> QED
    BY <1>3, <2>2, EntryAsks
<1>4. CASE \E op \in {"login", "verify"} : SignsIn(op)
  BY <1>1, <1>2, <1>4 DEF SignsIn
<1>5. ASSUME NEW mode \in {"disable", "regenerate"}, Opens(mode) PROVE EntryInv'
  <2>1. account' = [account EXCEPT !.mode = mode] /\ UNCHANGED <<asked, person, unseen>>
    BY <1>5 DEF Opens
  <2>2. account' \in AccountPages
    BY <1>1, <2>1 DEF AccountPages
  <2>3. account'.codes = account.codes
    BY <1>1, <2>1 DEF AccountPages
  <2> QED
    BY <1>3, <2>1, <2>2, <2>3
<1>6. CASE ChangesPassword \/ SignsOut
  BY <1>1, <1>2, <1>6 DEF ChangesPassword, SignsOut
<1>7. CASE OpensAccount
  <2>1. account' = [Closed EXCEPT !.open = TRUE, !.n = account.n] /\ AsksFor("status") /\ UNCHANGED <<person, unseen>>
    BY <1>7 DEF OpensAccount
  <2>2. account' \in AccountPages
    <3>1. PICK a : a = Closed
      OBVIOUS
    <3>2. a \in AccountPages
      BY <3>1, EntryClosed
    <3>3. account' = [a EXCEPT !.open = TRUE, !.n = account.n]
      BY <2>1, <3>1
    <3> QED
      BY <1>1, <3>2, <3>3 DEF AccountPages
  <2>3. account'.codes = 0
    BY <1>1, <2>1 DEF Closed
  <2> QED
    BY <1>2, <2>1, <2>2, <2>3
<1>8. CASE BeginsEnrolment
  <2>1. account' = Enrolling(account) /\ UNCHANGED <<person, unseen>>
        /\ asked' = asked \cup {[Request("setup") EXCEPT !.n = account.n + 1]}
    BY <1>8 DEF BeginsEnrolment
  <2>2. account' \in AccountPages
    <3>1. PICK n \in Nat, m \in {"idle", "enrol", "disable", "regenerate"} : n = account.n + 1 /\ m = "enrol"
      BY <1>1
    <3>2. account' = [account EXCEPT !.mode = m, !.n = n, !.ready = FALSE]
      BY <2>1, <3>1 DEF Enrolling
    <3> QED
      BY <1>1, <3>2 DEF AccountPages
  <2>3. account'.codes = account.codes
    BY <1>1, <2>1 DEF AccountPages, Enrolling
  <2>4. PICK q : q = [Request("setup") EXCEPT !.n = account.n + 1]
    OBVIOUS
  <2>5. q \in Requests /\ ~Makes(q)
    BY <1>1, <2>4, EntrySetup
  <2>7. PICK N : N = {q}
    OBVIOUS
  <2>8. N \in SUBSET Requests /\ asked' = asked \cup N /\ \A k \in N : ~Makes(k)
    BY <2>1, <2>4, <2>5, <2>7
  <2> QED
    BY <2>1, <2>2, <2>3, <2>8, EntryAsks
<1>9. CASE ClosesForm
  <2>1. account' = [account EXCEPT !.mode = "idle"] /\ UNCHANGED <<asked, person, unseen>>
    BY <1>9 DEF ClosesForm
  <2>2. account' \in AccountPages
    BY <1>1, <2>1 DEF AccountPages
  <2>3. account'.codes = account.codes
    BY <1>1, <2>1 DEF AccountPages
  <2> QED
    BY <1>3, <2>1, <2>2, <2>3
<1>10. CASE SavedCodes
  <2>1. CASE me = "enrol"
    BY <1>1, <1>2, <1>10, <2>1 DEF SavedCodes
  <2>2. CASE me # "enrol"
    <3>1. account' = [account EXCEPT !.codes = 0] /\ UNCHANGED <<asked, person, unseen>>
      BY <1>10, <2>2 DEF SavedCodes
    <3>2. account' \in AccountPages
      BY <1>1, <3>1 DEF AccountPages
    <3>3. account'.codes = 0
      BY <1>1, <3>1 DEF AccountPages
    <3> QED
      BY <1>3, <3>1, <3>2, <3>3
  <2> QED
    BY <2>1, <2>2
<1> QED
  BY <1>4, <1>5, <1>6, <1>7, <1>8, <1>9, <1>10

LEMMA EntryMoves ==
  ASSUME EntryInv, NEW S \in SUBSET asked, NEW M \in SUBSET Requests, NEW shows, NEW rest, rest = S \cup M,
         MovesTo(shows, rest), \A q \in asked \ S : ~MadeCodes(q), \A q \in M : ~Makes(q), UNCHANGED <<person, unseen>>
  PROVE  EntryInv'
<1>1. EntryTypeOK /\ account \in AccountPages /\ account.n \in Nat /\ person' \in PersonRows
  BY DEF EntryInv, EntryTypeOK, AccountPages
<1>2. PICK c \in AccountPages : c = Closed
  BY EntryClosed
<1>3. c.codes = 0
  BY <1>2, EntryClosed
<1>4. PICK q : q = [Request("setup") EXCEPT !.n = account.n + 1]
  OBVIOUS
<1>5. q \in Requests /\ ~Makes(q)
  BY <1>1, <1>4, EntrySetup
<1>6. Gone(M) \in SUBSET Requests /\ (\A k \in Gone(M) : ~Makes(k)) /\ Gone(rest) = Gone(S) \cup Gone(M)
  <2>1. ASSUME NEW k \in Gone(M) PROVE k \in Requests /\ ~Makes(k)
    <3>1. PICK m \in M : k = [m EXCEPT !.live = FALSE]
      BY <2>1 DEF Gone
    <3>2. k \in Requests /\ k.op = m.op
      BY <3>1, EntryLeftBehind
    <3> QED
      BY <3>2 DEF Makes
  <2>2. Gone(rest) = Gone(S) \cup Gone(M)
    BY DEF Gone
  <2> QED
    BY <2>1, <2>2
<1>7. CASE shows = me
  <2>1. PICK gone \in BOOLEAN : ~gone
    OBVIOUS
  <2>2. asked' = (IF gone THEN Gone(S) ELSE S) \cup M /\ account' = account
    BY <1>7, <2>1 DEF MovesTo
  <2> QED
    BY <1>1, <2>2, EntryKept
<1>8. PICK gone \in BOOLEAN : gone
  OBVIOUS
<1>9. CASE shows # me /\ shows = "enrol"
  <2>1. account' = [Enrolling(Closed) EXCEPT !.n = account.n + 1] /\ asked' = Gone(rest) \cup {q}
    BY <1>4, <1>9 DEF MovesTo
  <2>2. account' \in AccountPages /\ account'.codes = 0
    <3>1. PICK n \in Nat, k \in Nat, m \in {"idle", "enrol", "disable", "regenerate"} :
            n = account.n + 1 /\ m = "enrol" /\ k = c.n + 1
      BY <1>1 DEF AccountPages
    <3>2. account' = [[c EXCEPT !.mode = m, !.n = k, !.ready = FALSE] EXCEPT !.n = n]
      BY <1>2, <2>1, <3>1 DEF Enrolling
    <3>3. PICK d : d = [c EXCEPT !.mode = m, !.n = k, !.ready = FALSE]
      OBVIOUS
    <3>4. d \in AccountPages
      BY <3>3 DEF AccountPages
    <3>5. d.codes = 0
      BY <1>3, <3>3 DEF AccountPages
    <3>6. account' = [d EXCEPT !.n = n]
      BY <3>2, <3>3
    <3>7. account' \in AccountPages
      BY <3>4, <3>6 DEF AccountPages
    <3>8. account'.codes = 0
      BY <3>4, <3>5, <3>6 DEF AccountPages
    <3> QED
      BY <3>7, <3>8
  <2>3. PICK N : N = Gone(M) \cup {q}
    OBVIOUS
  <2>4. /\ N \in SUBSET Requests /\ (\A k \in N : ~Makes(k)) /\ asked' = (IF gone THEN Gone(S) ELSE S) \cup N
    BY <1>5, <1>6, <1>8, <2>1, <2>3
  <2> QED
    BY <1>1, <2>2, <2>4, EntryKept
<1>10. CASE shows # me /\ shows # "enrol"
  <2>1. account' = [Closed EXCEPT !.n = account.n] /\ asked' = Gone(rest)
    BY <1>10 DEF MovesTo
  <2>2. account' = [c EXCEPT !.n = account.n]
    BY <1>2, <2>1
  <2>3. account' \in AccountPages
    BY <1>1, <2>2 DEF AccountPages
  <2>4. account'.codes = 0
    BY <1>3, <2>2 DEF AccountPages
  <2>5. PICK N : N = Gone(M)
    OBVIOUS
  <2>6. /\ N \in SUBSET Requests /\ (\A k \in N : ~Makes(k)) /\ asked' = (IF gone THEN Gone(S) ELSE S) \cup N
    BY <1>6, <1>8, <2>1, <2>5
  <2> QED
    BY <1>1, <2>3, <2>4, <2>6, EntryKept
<1> QED
  BY <1>7, <1>9, <1>10

\* An answer that carries no codes.
LEMMA EntryAnswers ==
  ASSUME EntryInv, NEW q \in asked,
         MeComes(q) \/ SignedIn(q) \/ TicketExpires(q) \/ Changed(q) \/ SignedOut(q) \/ StatusComes(q) \/ SetupComes(q)
           \/ DisabledComes(q) \/ FailureComes(q)
  PROVE  EntryInv'
<1>1. /\ EntryTypeOK /\ account \in AccountPages /\ account.n \in Nat /\ person \in PersonRows /\ q \in Requests
      /\ asked \subseteq Requests
  BY DEF EntryInv, EntryTypeOK, AccountPages
<1>2. ~MadeCodes(q) /\ person' \in PersonRows /\ person' = person /\ unseen' = unseen
  <2>1. UNCHANGED <<person, unseen>>
    BY DEF MeComes, SignedIn, TicketExpires, Changed, SignedOut, StatusComes, SetupComes, DisabledComes, FailureComes
  <2>2. q.op \notin Making \/ q.saw = "refused"
    BY DEF MeComes, SignedIn, TicketExpires, Changed, SignedOut, StatusComes, SetupComes, DisabledComes, FailureComes,
           Answered, Making
  <2> QED
    BY <1>1, <2>1, <2>2 DEF MadeCodes, Makes
\* Nothing is asked but what makes no codes, and the page keeps its codes.
<1>3. ASSUME NEW N \in SUBSET Requests, \A k \in N : ~Makes(k), asked' = (asked \ {q}) \cup N,
             account' \in AccountPages, account'.codes = account.codes
      PROVE  EntryInv'
  <2>1. PICK S \in SUBSET asked, gone \in BOOLEAN : S = asked \ {q} /\ ~gone
    OBVIOUS
  <2>2. /\ asked' = (IF gone THEN Gone(S) ELSE S) \cup N /\ \A k \in asked \ S : ~MadeCodes(k)
    BY <1>2, <1>3, <2>1
  <2> QED
    BY <1>2, <1>3, <2>2, EntryKept
<1>4. PICK none : none = {}
  OBVIOUS
<1>5. none \in SUBSET Requests /\ (\A k \in none : ~Makes(k)) /\ \A X : X = X \cup none
  BY <1>4
<1>6. ASSUME NEW shows, MovesTo(shows, asked \ {q}) PROVE EntryInv'
  <2>1. PICK S \in SUBSET asked : S = asked \ {q}
    OBVIOUS
  <2>2. MovesTo(shows, S) /\ S = S \cup none /\ \A k \in asked \ S : ~MadeCodes(k)
    BY <1>2, <1>5, <1>6, <2>1
  <2> QED
    BY <1>2, <1>5, <2>2, EntryMoves
<1>7. CASE MeComes(q)
  BY <1>6, <1>7 DEF MeComes
<1>8. CASE SignedIn(q)
  <2>1. PICK N \in {{}, {Request("me")}} : asked' = (asked \ {q}) \cup N
    BY <1>8 DEF SignedIn
  <2>2. N \in SUBSET Requests /\ (\A k \in N : ~Makes(k)) /\ account' = account
    BY <1>1, <1>8, <2>1, EntryRequests DEF SignedIn, Makes, Making
  <2> QED
    BY <1>1, <1>3, <2>1, <2>2
<1>9. CASE TicketExpires(q) \/ FailureComes(q)
  <2>1. asked' = (asked \ {q}) \cup none /\ account' = account
    BY <1>5, <1>9 DEF TicketExpires, FailureComes
  <2> QED
    BY <1>1, <1>3, <1>5, <2>1
<1>10. CASE Changed(q)
  <2>1. CASE q.saw = "ok"
    BY <1>6, <1>10, <2>1 DEF Changed
  <2>2. CASE q.saw # "ok"
    <3>1. asked' = (asked \ {q}) \cup none /\ account' = account
      BY <1>5, <1>10, <2>2 DEF Changed
    <3> QED
      BY <1>1, <1>3, <1>5, <3>1
  <2> QED
    BY <2>1, <2>2
<1>11. CASE SignedOut(q)
  <2>1. CASE me = "enrol"
    <3>1. PICK S \in SUBSET asked : S = {p \in asked \ {q} : p.op # "me"}
      OBVIOUS
    <3>2. PICK M, rest : M = {Request("me")} /\ rest = S \cup M
      OBVIOUS
    <3>3. M \in SUBSET Requests /\ \A k \in M : ~Makes(k)
      BY <1>1, <3>2, EntryRequests DEF Makes, Making
    <3>4. MovesTo("unknown", rest)
      BY <1>11, <2>1, <3>1, <3>2 DEF SignedOut
    <3>5. \A k \in asked \ S : ~MadeCodes(k)
      BY <1>2, <3>1 DEF MadeCodes, Makes, Making
    <3> QED
      BY <1>2, <3>2, <3>3, <3>4, <3>5, EntryMoves
  <2>2. CASE me # "enrol"
    BY <1>6, <1>11, <2>2 DEF SignedOut
  <2> QED
    BY <2>1, <2>2
<1>12. CASE StatusComes(q)
  <2>1. /\ asked' = (asked \ {q}) \cup none
        /\ account' = IF q.live /\ q.saw # "refused" THEN [account EXCEPT !.known = q.saw] ELSE account
    BY <1>5, <1>12 DEF StatusComes
  <2>2. account' \in AccountPages
    BY <1>1, <2>1 DEF AccountPages, Requests
  <2>3. account'.codes = account.codes
    BY <1>1, <2>1 DEF AccountPages
  <2> QED
    BY <1>3, <1>5, <2>1, <2>2, <2>3
<1>13. CASE SetupComes(q)
  <2>1. PICK ready \in BOOLEAN : ready <=> q.saw = "ok"
    OBVIOUS
  <2>2. /\ asked' = (asked \ {q}) \cup none
        /\ account' = IF q.live /\ q.n = account.n THEN [account EXCEPT !.ready = ready] ELSE account
    BY <1>5, <1>13, <2>1 DEF SetupComes
  <2>3. account' \in AccountPages
    BY <1>1, <2>2 DEF AccountPages
  <2>4. account'.codes = account.codes
    BY <1>1, <2>2 DEF AccountPages
  <2> QED
    BY <1>3, <1>5, <2>2, <2>3, <2>4
<1>14. CASE DisabledComes(q)
  <2>1. PICK N \in {{}, {Request("status")}} : asked' = (asked \ {q}) \cup N
    BY <1>14 DEF DisabledComes
  <2>2. N \in SUBSET Requests /\ \A k \in N : ~Makes(k)
    BY <1>1, <2>1, EntryRequests DEF Makes, Making
  <2>3. account' = IF q.live THEN [account EXCEPT !.mode = "idle"] ELSE account
    BY <1>14 DEF DisabledComes
  <2>4. account' \in AccountPages
    BY <1>1, <2>3 DEF AccountPages
  <2>5. account'.codes = account.codes
    BY <1>1, <2>3 DEF AccountPages
  <2> QED
    BY <1>3, <2>1, <2>2, <2>4, <2>5
<1> QED
  BY <1>7, <1>8, <1>9, <1>10, <1>11, <1>12, <1>13, <1>14

LEMMA EntryLeaves ==
  ASSUME EntryInv, LeavesAccount \/ ChangesOutside
  PROVE  EntryInv'
<1>1. /\ EntryTypeOK /\ account \in AccountPages /\ account.n \in Nat /\ person \in PersonRows /\ unseen' = unseen
  BY DEF EntryInv, EntryTypeOK, AccountPages, LeavesAccount, ChangesOutside
<1>2. PICK S \in SUBSET asked, N \in SUBSET Requests : S = asked /\ N = {}
  OBVIOUS
<1>3. N \in SUBSET Requests /\ (\A k \in N : ~Makes(k)) /\ (\A k \in asked \ S : ~MadeCodes(k))
  BY <1>2
<1>4. CASE LeavesAccount
  <2>1. PICK gone \in BOOLEAN, c \in AccountPages : gone /\ c = Closed
    BY EntryClosed
  <2>2. account' = [c EXCEPT !.n = account.n] /\ c.codes = 0 /\ person' = person
    BY <1>4, <2>1, EntryClosed DEF LeavesAccount
  <2>3. asked' = (IF gone THEN Gone(S) ELSE S) \cup N
    BY <1>2, <1>4, <2>1 DEF LeavesAccount
  <2>4. account' \in AccountPages
    BY <1>1, <2>2 DEF AccountPages
  <2>5. account'.codes = 0
    BY <2>2 DEF AccountPages
  <2> QED
    BY <1>1, <1>3, <2>2, <2>3, <2>4, <2>5, EntryKept
<1>5. CASE ChangesOutside
  <2>1. PICK gone \in BOOLEAN : ~gone
    OBVIOUS
  <2>2. asked' = (IF gone THEN Gone(S) ELSE S) \cup N /\ account' = account
    BY <1>2, <1>5, <2>1 DEF ChangesOutside
  <2>3. person' = [person EXCEPT !.session = FALSE] \/ person' = [person EXCEPT !.required = TRUE]
    BY <1>5 DEF ChangesOutside
  <2>4. person' \in PersonRows
    BY <1>1, <2>3 DEF PersonRows
  <2>5. person'.codes = person.codes /\ person'.shown = person.shown /\ person'.on = person.on
    BY <1>1, <2>3 DEF PersonRows
  <2> QED
    BY <1>1, <1>3, <2>2, <2>4, <2>5, EntryKept
<1> QED
  BY <1>4, <1>5

LEMMA EntrySends ==
  ASSUME EntryInv, ~unseen, SendsCode
  PROVE  EntryInv'
<1>1. EntryTypeOK /\ account \in AccountPages /\ person \in PersonRows /\ asked \subseteq Requests
  BY DEF EntryInv, EntryTypeOK
<1>2. PICK op \in {"enable", "disable", "regenerate"} :
        AsksFor(op) /\ unseen' = (op \in Making /\ \E q \in asked : q.op \in Making)
  BY <1>1 DEF SendsCode, AccountPages
<1>3. UNCHANGED <<account, person>> /\ account.codes = 0
  BY DEF SendsCode
<1>4. PICK k : k = Request(op)
  OBVIOUS
<1>5. k \in Requests /\ k.op = op /\ k.at = "asked" /\ asked' = asked \cup {k}
  BY <1>1, <1>2, <1>4, EntryRequests DEF AsksFor
<1>6. EntryTypeOK'
  <2>1. unseen' \in BOOLEAN
    BY <1>2
  <2> QED
    BY <1>1, <1>3, <1>5, <2>1 DEF EntryTypeOK
<1>7. CASE op = "disable"
  <2>1. PICK N : N = {k}
    OBVIOUS
  <2>2. N \in SUBSET Requests /\ asked' = asked \cup N /\ (\A q \in N : ~Makes(q)) /\ UNCHANGED <<person, unseen>>
    <3>1. ~Makes(k)
      BY <1>5, <1>7 DEF Makes, Making
    <3>2. unseen' = unseen
      BY <1>1, <1>2, <1>7 DEF Making, EntryTypeOK
    <3> QED
      BY <1>3, <1>5, <2>1, <3>1, <3>2
  <2> QED
    BY <1>1, <1>3, <2>2, EntryAsks
<1>8. CASE op \in Making /\ unseen'
  BY <1>6, <1>8 DEF EntryInv
<1>9. CASE op \in Making /\ ~unseen'
  <2>1. \A q \in asked : ~Makes(q)
    BY <1>2, <1>9 DEF Makes
  <2>2. CodesOnTheirWay
    BY <2>1 DEF EntryInv, MadeCodes
  <2>3. ~MadeCodes(k)
    BY <1>5 DEF MadeCodes
  <2>4. \A q \in asked' : (Makes(q) => q = k) /\ ~MadeCodes(q)
    BY <1>5, <2>1, <2>3 DEF MadeCodes
  <2>5. account'.codes = 0 /\ (person'.on => person'.shown = person'.codes)
    BY <1>3, <2>1, <2>2 DEF CodesOnTheirWay, MadeCodes
  <2>6. CodesOnTheirWay'
    BY <2>4, <2>5 DEF CodesOnTheirWay, Makes, MadeCodes
  <2> QED
    BY <1>6, <2>6 DEF EntryInv
<1> QED
  BY <1>7, <1>8, <1>9 DEF Making

\* The answer to a request.
Reply(q, saw, codes) == [q EXCEPT !.at = "answered", !.saw = saw, !.codes = codes]

LEMMA EntryReply ==
  ASSUME NEW q \in Requests, NEW saw \in Words, NEW codes \in Nat, NEW k, k = Reply(q, saw, codes)
  PROVE  k \in Requests /\ k.op = q.op /\ k.at = "answered" /\ k.saw = saw /\ k.codes = codes /\ k.live = q.live
<1>1. k \in Requests
  BY DEF Reply, Requests
<1>2. k.op = q.op /\ k.at = "answered" /\ k.saw = saw /\ k.codes = codes /\ k.live = q.live
  BY DEF Reply, Requests
<1> QED
  BY <1>1, <1>2

\* A request that makes no codes, or is refused, is answered.
LEMMA EntryReplied ==
  ASSUME EntryInv, NEW q \in asked, q.at = "asked", NEW saw \in Words, NEW codes \in Nat, ~Makes(q) \/ saw = "refused",
         asked' = (asked \ {q}) \cup {Reply(q, saw, codes)},
         UNCHANGED <<account, unseen>>, person' \in PersonRows, person'.codes = person.codes,
         person'.shown = person.shown, person'.on => person.on
  PROVE  EntryInv'
<1>1. EntryTypeOK /\ account' \in AccountPages /\ account' = account /\ unseen' = unseen /\ asked \subseteq Requests
      /\ q \in Requests
  BY DEF EntryInv, EntryTypeOK
<1>2. PICK k : k = Reply(q, saw, codes)
  OBVIOUS
<1>3. k \in Requests /\ k.op = q.op /\ k.saw = saw /\ asked' = (asked \ {q}) \cup {k}
  BY <1>1, <1>2, EntryReply
<1>4. ~MadeCodes(q) /\ ~MadeCodes(k) /\ (Makes(k) <=> Makes(q))
  BY <1>3 DEF MadeCodes, Makes
<1>5. CASE ~Makes(q)
  <2>1. PICK S \in SUBSET asked, N \in SUBSET {k}, gone \in BOOLEAN : S = asked \ {q} /\ N = {k} /\ ~gone
    OBVIOUS
  <2>2. /\ N \in SUBSET Requests /\ (\A m \in N : ~Makes(m)) /\ (\A m \in asked \ S : ~MadeCodes(m))
        /\ asked' = (IF gone THEN Gone(S) ELSE S) \cup N
    BY <1>3, <1>4, <1>5, <2>1
  <2> QED
    BY <1>1, <2>2, EntryKept
<1>6. CASE Makes(q)
  <2>1. EntryTypeOK'
    BY <1>1, <1>3 DEF EntryTypeOK
  <2>2. CASE unseen
    BY <1>1, <2>1, <2>2 DEF EntryInv
  <2>3. ASSUME NEW r \in asked, MadeCodes(r), ~r.live PROVE EntryInv'
    <3>1. r \in asked'
      BY <1>3, <1>4, <2>3
    <3> QED
      BY <2>1, <2>3, <3>1 DEF EntryInv, MadeCodes, Makes
  <2>4. CASE CodesOnTheirWay
    <3>1. \A r \in asked : Makes(r) => r = q
      BY <1>6, <2>4 DEF CodesOnTheirWay
    <3>2. \A m \in asked' : (Makes(m) => m = k) /\ ~MadeCodes(m)
      BY <1>3, <1>4, <3>1 DEF MadeCodes
    <3>3. account'.codes = 0 /\ (person'.on => person'.shown = person'.codes)
      BY <1>1, <1>4, <1>6, <2>4, <3>1 DEF CodesOnTheirWay, MadeCodes
    <3>4. CodesOnTheirWay'
      BY <3>2, <3>3 DEF CodesOnTheirWay, MadeCodes, Makes
    <3> QED
      BY <2>1, <3>4 DEF EntryInv
  <2> QED
    BY <2>2, <2>3, <2>4 DEF EntryInv
<1> QED
  BY <1>5, <1>6

LEMMA EntryAfter ==
  ASSUME EntryTypeOK, NEW q \in Requests, NEW p, p = After(q)
  PROVE  /\ p \in PersonRows
         /\ ~Makes(q) => p.codes = person.codes /\ p.shown = person.shown /\ (p.on => person.on)
         /\ Makes(q) => p.codes = person.codes + 1
<1>1. person \in PersonRows /\ q.n \in Nat /\ person.codes \in Nat /\ person.on \in BOOLEAN /\ person.session \in BOOLEAN
  BY DEF EntryTypeOK, PersonRows, Requests
<1>2. CASE q.op = "login"
  <2>1. PICK session \in BOOLEAN : session <=> (person.session \/ ~person.on)
    OBVIOUS
  <2>2. p = [person EXCEPT !.session = session] /\ ~Makes(q)
    BY <1>1, <1>2, <2>1 DEF After, Makes, Making
  <2>3. p \in PersonRows
    BY <1>1, <2>2 DEF PersonRows
  <2> QED
    BY <1>1, <2>2, <2>3 DEF PersonRows
<1>3. CASE q.op = "verify"
  <2>1. p = [person EXCEPT !.session = TRUE] /\ ~Makes(q)
    BY <1>3 DEF After, Makes, Making
  <2>2. p \in PersonRows
    BY <1>1, <2>1 DEF PersonRows
  <2> QED
    BY <1>1, <2>1, <2>2 DEF PersonRows
<1>4. CASE q.op = "change"
  <2>1. p = [person EXCEPT !.change = FALSE, !.session = FALSE] /\ ~Makes(q)
    BY <1>4 DEF After, Makes, Making
  <2>2. p \in PersonRows
    BY <1>1, <2>1 DEF PersonRows
  <2> QED
    BY <1>1, <2>1, <2>2 DEF PersonRows
<1>5. CASE q.op = "logout"
  <2>1. p = [person EXCEPT !.session = FALSE] /\ ~Makes(q)
    BY <1>5 DEF After, Makes, Making
  <2>2. p \in PersonRows
    BY <1>1, <2>1 DEF PersonRows
  <2> QED
    BY <1>1, <2>1, <2>2 DEF PersonRows
<1>6. CASE q.op = "setup"
  <2>1. PICK n \in Nat : n = q.n
    BY <1>1
  <2>2. p = [person EXCEPT !.secret = n] /\ ~Makes(q)
    BY <1>6, <2>1 DEF After, Makes, Making
  <2>3. p \in PersonRows
    BY <1>1, <2>2 DEF PersonRows
  <2> QED
    BY <1>1, <2>2, <2>3 DEF PersonRows
<1>7. CASE q.op \in Making
  <2>1. PICK n \in Nat : n = person.codes + 1
    BY <1>1
  <2>2. p = [person EXCEPT !.on = TRUE, !.codes = n] /\ Makes(q)
    BY <1>7, <2>1 DEF After, Makes, Making
  <2>3. p \in PersonRows
    BY <1>1, <2>2 DEF PersonRows
  <2>4. p.codes = n
    BY <1>1, <2>2 DEF PersonRows
  <2> QED
    BY <2>1, <2>2, <2>3, <2>4
<1>8. CASE q.op = "disable"
  <2>1. PICK n \in Nat, on \in BOOLEAN : n = 0 /\ ~on
    OBVIOUS
  <2>2. p = [person EXCEPT !.on = on, !.secret = n] /\ ~Makes(q)
    BY <1>8, <2>1 DEF After, Makes, Making
  <2>3. p \in PersonRows
    BY <1>1, <2>2 DEF PersonRows
  <2> QED
    BY <1>1, <2>1, <2>2, <2>3 DEF PersonRows
<1>9. CASE q.op \in {"me", "status"}
  <2>1. p = person /\ ~Makes(q)
    BY <1>9 DEF After, Makes, Making
  <2> QED
    BY <1>1, <2>1
<1> QED
  BY <1>2, <1>3, <1>4, <1>5, <1>6, <1>7, <1>8, <1>9 DEF Requests, Making

LEMMA EntryServes ==
  ASSUME EntryInv, NEW q \in asked, NEW heard \in BOOLEAN, ServesEntry(q, heard)
  PROVE  EntryInv'
<1>1. /\ EntryTypeOK /\ person \in PersonRows /\ q \in Requests /\ asked \subseteq Requests /\ q.at = "asked"
      /\ account \in AccountPages /\ account' = account /\ unseen \in BOOLEAN
      /\ person' = After(q) /\ unseen' = (unseen \/ (~heard /\ Makes(q)))
  BY DEF EntryInv, EntryTypeOK, ServesEntry, Makes
<1>2. PICK p : p = After(q)
  OBVIOUS
<1>3. /\ p \in PersonRows /\ p.codes \in Nat /\ person' = p
      /\ ~Makes(q) => p.codes = person.codes /\ p.shown = person.shown /\ (p.on => person.on)
  BY <1>1, <1>2, EntryAfter DEF PersonRows
<1>4. PICK saw \in Words : saw = IF heard THEN Says(q) ELSE "refused"
  BY DEF Says, MeIs, Words
<1>5. PICK codes \in Nat : codes = IF saw = "ok" THEN p.codes ELSE 0
  BY <1>3
<1>6. asked' = (asked \ {q}) \cup {Reply(q, saw, codes)}
  BY <1>2, <1>4, <1>5 DEF ServesEntry, Replies, Reply
<1>7. PICK k : k = Reply(q, saw, codes)
  OBVIOUS
<1>8. /\ k \in Requests /\ k.op = q.op /\ k.at = "answered" /\ k.saw = saw /\ k.codes = codes
      /\ asked' = (asked \ {q}) \cup {k}
  BY <1>1, <1>6, <1>7, EntryReply
<1>9. EntryTypeOK'
  BY <1>1, <1>3, <1>8 DEF EntryTypeOK
<1>10. CASE ~Makes(q)
  <2>1. unseen' = unseen /\ UNCHANGED <<account, unseen>> /\ person' \in PersonRows
    BY <1>1, <1>3, <1>10
  <2> QED
    BY <1>1, <1>3, <1>6, <1>10, <2>1, EntryReplied
<1>11. CASE Makes(q) /\ (unseen \/ ~heard)
  BY <1>1, <1>9, <1>11 DEF EntryInv
<1>12. ASSUME NEW r \in asked, MadeCodes(r), ~r.live PROVE EntryInv'
  <2>1. r \in asked'
    BY <1>1, <1>8, <1>12 DEF MadeCodes
  <2> QED
    BY <1>9, <1>12, <2>1 DEF EntryInv, MadeCodes, Makes
<1>13. CASE Makes(q) /\ heard /\ CodesOnTheirWay
  <2>1. Says(q) = "ok"
    BY <1>13 DEF Says, Makes, Making
  <2>2. MadeCodes(k) /\ k.codes = person'.codes /\ Makes(k)
    BY <1>3, <1>4, <1>5, <1>8, <1>13, <2>1 DEF MadeCodes, Makes
  <2>3. \A m \in asked' : Makes(m) => m = k
    BY <1>8, <1>13 DEF CodesOnTheirWay
  <2>4. account'.codes = 0
    BY <1>1, <1>13 DEF CodesOnTheirWay
  <2>5. CodesOnTheirWay'
    BY <1>8, <2>2, <2>3, <2>4 DEF CodesOnTheirWay, MadeCodes, Makes
  <2> QED
    BY <1>9, <2>5 DEF EntryInv
<1> QED
  BY <1>10, <1>11, <1>12, <1>13 DEF EntryInv

LEMMA EntryRefuses ==
  ASSUME EntryInv, NEW q \in asked, RefusesEntry(q)
  PROVE  EntryInv'
<1>1. /\ q.at = "asked" /\ Replies(q, "refused") /\ UNCHANGED <<account, person, unseen>> /\ person \in PersonRows
  BY DEF EntryInv, EntryTypeOK, RefusesEntry
<1>2. PICK saw \in Words, codes \in Nat : saw = "refused" /\ codes = 0
  BY DEF Words
<1>3. asked' = (asked \ {q}) \cup {Reply(q, saw, codes)}
  BY <1>1, <1>2 DEF Replies, Reply
<1>4. person' \in PersonRows /\ person' = person
  BY <1>1
<1> QED
  BY <1>1, <1>2, <1>3, <1>4, EntryReplied

LEMMA EntryCodesCome ==
  ASSUME EntryInv, ~unseen, NEW q \in asked, CodesCome(q)
  PROVE  EntryInv'
<1>1. /\ EntryTypeOK /\ account \in AccountPages /\ person \in PersonRows /\ asked \subseteq Requests /\ q \in Requests
      /\ unseen' = (unseen \/ ~q.live) /\ MadeCodes(q) /\ q.codes \in Nat
  BY DEF EntryInv, EntryTypeOK, CodesCome, MadeCodes, Makes, Requests
<1>2. PICK N \in {{}, {Request("status")}} : asked' = (asked \ {q}) \cup N
  BY DEF CodesCome
<1>3. N \in SUBSET Requests /\ \A k \in N : ~Makes(k) /\ ~MadeCodes(k)
  BY <1>1, <1>2, EntryRequests DEF Makes, MadeCodes, Making
<1>4. account' = IF q.live THEN [account EXCEPT !.mode = "idle", !.codes = q.codes] ELSE account
  BY DEF CodesCome, WithCodes
<1>5. account' \in AccountPages
  BY <1>1, <1>4 DEF AccountPages
<1>6. q.live => account'.codes = q.codes
  BY <1>1, <1>4 DEF AccountPages
<1>7. PICK c \in Nat : c = account'.codes
  BY <1>5 DEF AccountPages
<1>8. person' = IF q.live THEN [person EXCEPT !.shown = c] ELSE person
  BY <1>7 DEF CodesCome
<1>9. person' \in PersonRows
  BY <1>1, <1>8 DEF PersonRows
<1>10. person'.codes = person.codes /\ (q.live => person'.shown = c)
  BY <1>1, <1>8 DEF PersonRows
<1>11. EntryTypeOK'
  BY <1>1, <1>2, <1>3, <1>5, <1>9 DEF EntryTypeOK
<1>12. CASE ~q.live
  BY <1>1, <1>11, <1>12 DEF EntryInv
<1>13. ASSUME q.live, NEW r \in asked, MadeCodes(r), ~r.live PROVE EntryInv'
  <2>1. r \in asked'
    BY <1>2, <1>13
  <2> QED
    BY <1>11, <1>13, <2>1 DEF EntryInv, MadeCodes, Makes
<1>14. CASE q.live /\ CodesOnTheirWay
  <2>1. Makes(q) /\ q.codes = person.codes
    BY <1>1, <1>14 DEF CodesOnTheirWay, MadeCodes
  <2>2. \A k \in asked' : ~Makes(k) /\ ~MadeCodes(k)
    BY <1>2, <1>3, <1>14, <2>1 DEF CodesOnTheirWay, MadeCodes
  <2>3. account'.codes = person'.codes /\ person'.shown = person'.codes
    BY <1>6, <1>7, <1>10, <1>14, <2>1
  <2>4. CodesOnTheirWay'
    BY <2>2, <2>3 DEF CodesOnTheirWay, MadeCodes, Makes
  <2> QED
    BY <1>11, <2>4 DEF EntryInv
<1> QED
  BY <1>12, <1>13, <1>14 DEF EntryInv

LEMMA EntryInits == EntryInit => EntryInv
<1> SUFFICES ASSUME EntryInit PROVE EntryInv
  OBVIOUS
<1>1. PICK q : q = [op |-> "me", at |-> "asked", saw |-> "none", n |-> 0, codes |-> 0, live |-> TRUE]
  OBVIOUS
<1>2. q \in Requests
  BY <1>1 DEF Requests, Words
<1>3. asked = {q} /\ account = Closed /\ unseen = FALSE
      /\ person = [session |-> FALSE, change |-> TRUE, required |-> FALSE, on |-> FALSE, secret |-> 0, codes |-> 0, shown |-> 0]
  BY <1>1 DEF EntryInit
<1>4. person \in PersonRows
  BY <1>3 DEF PersonRows
<1>5. ~person.on /\ ~Makes(q)
  BY <1>1, <1>3 DEF Makes, Making
<1>6. EntryTypeOK
  BY <1>2, <1>3, <1>4, EntryClosed DEF EntryTypeOK
<1>7. CodesOnTheirWay
  BY <1>3, <1>5, EntryClosed DEF CodesOnTheirWay, MadeCodes
<1> QED
  BY <1>6, <1>7 DEF EntryInv

LEMMA EntryStep == EntryInv /\ [EntryNext]_entryVars => EntryInv'
<1> SUFFICES ASSUME EntryInv, [EntryNext]_entryVars PROVE EntryInv'
  OBVIOUS
<1>1. CASE UNCHANGED entryVars
  BY <1>1 DEF entryVars, EntryInv, EntryTypeOK, CodesOnTheirWay, MadeCodes, Makes
<1>2. CASE EntryNext
  <2>1. ~unseen
    BY <1>2 DEF EntryNext
  <2>2. CASE \/ \E op \in {"login", "verify"} : SignsIn(op)
             \/ \E mode \in {"disable", "regenerate"} : Opens(mode)
             \/ ChangesPassword \/ SignsOut \/ OpensAccount \/ BeginsEnrolment \/ ClosesForm \/ SavedCodes
    BY <2>2, EntryUsed
  <2>3. CASE LeavesAccount \/ ChangesOutside
    BY <2>3, EntryLeaves
  <2>4. CASE SendsCode
    BY <2>1, <2>4, EntrySends
  <2>5. ASSUME NEW q \in asked,
               \/ ServesEntry(q, TRUE) \/ ServesEntry(q, FALSE) \/ RefusesEntry(q)
               \/ MeComes(q) \/ SignedIn(q) \/ TicketExpires(q) \/ Changed(q) \/ SignedOut(q) \/ StatusComes(q)
               \/ SetupComes(q) \/ CodesCome(q) \/ DisabledComes(q) \/ FailureComes(q)
        PROVE  EntryInv'
    <3>1. CASE ServesEntry(q, TRUE) \/ ServesEntry(q, FALSE)
      <4>1. PICK heard \in BOOLEAN : ServesEntry(q, heard)
        BY <3>1
      <4> QED
        BY <4>1, EntryServes
    <3>2. CASE RefusesEntry(q)
      BY <3>2, EntryRefuses
    <3>3. CASE CodesCome(q)
      BY <2>1, <3>3, EntryCodesCome
    <3>4. CASE MeComes(q) \/ SignedIn(q) \/ TicketExpires(q) \/ Changed(q) \/ SignedOut(q) \/ StatusComes(q)
               \/ SetupComes(q) \/ DisabledComes(q) \/ FailureComes(q)
      BY <3>4, EntryAnswers
    <3> QED
      BY <2>5, <3>1, <3>2, <3>3, <3>4
  <2> QED
    BY <1>2, <2>2, <2>3, <2>4, <2>5 DEF EntryNext
<1> QED
  BY <1>1, <1>2

LEMMA EntryKeepsCodes == EntryInv => CodesInForce
<1> SUFFICES ASSUME EntryInv, ~unseen, CodesOnTheirWay PROVE CodesInForce
  BY DEF EntryInv, CodesInForce, MadeCodes, Makes
<1> QED
  BY DEF CodesOnTheirWay, CodesInForce, MadeCodes, Makes

-----------------------------------------------------------------------------
(* The screens together *)

LEMMA KioskStep ==
  ASSUME KioskInv, [KioskNext]_kioskVars
  PROVE  KioskInv'
<1>1. CASE KioskNext
  BY <1>1, KioskSteps
<1>2. CASE UNCHANGED kioskVars
  <2>1. KioskTypeOK' /\ FormOK' /\ VisitsOK'
    BY <1>2 DEF kioskVars, KioskInv, KioskTypeOK, FormOK, TickedOK, VisitsOK
  <2>2. OneFlow' /\ CallsOK'
    BY <1>2 DEF kioskVars, KioskInv, OneFlow, CallsOK, LiveCall, CallOK, Told, Registers, Person
  <2>3. ScreenOK'
    BY <1>2 DEF kioskVars, KioskInv, ScreenOK, Awaited, Told, Registers, Person
  <2> QED
    BY <2>1, <2>2, <2>3 DEF KioskInv
<1> QED
  BY <1>1, <1>2

ScreensInv ==
  /\ KioskInv /\ GuestPageInv /\ ReaderInv /\ PhoneInv
  /\ BadgePageInv /\ InvitingInv /\ ConsoleInv /\ EntryInv

\* A step is a step of one screen, and none of the others.
LEMMA StepOfScreens ==
  ASSUME [Next]_vars
  PROVE  /\ [KioskNext]_kioskVars /\ [GuestPageNext]_guestPageVars /\ [ReaderNext]_readerVars /\ [PhoneNext]_phoneVars
         /\ [BadgePageNext]_badgePageVars /\ [InvitingNext]_invitingVars /\ [ConsoleNext]_consoleVars
         /\ [EntryNext]_entryVars
<1>1. CASE Tablet
  BY <1>1 DEF Tablet
<1>2. CASE GuestLink
  BY <1>2 DEF GuestLink
<1>3. CASE DoorScreen
  BY <1>3 DEF DoorScreen
<1>4. CASE MobileApp
  BY <1>4 DEF MobileApp
<1>5. CASE BadgeInBrowser
  BY <1>5 DEF BadgeInBrowser
<1>6. CASE InviteScreens
  BY <1>6 DEF InviteScreens
<1>7. CASE ConsolePagesUsed
  BY <1>7 DEF ConsolePagesUsed
<1>8. CASE ConsoleEntered
  BY <1>8 DEF ConsoleEntered
<1>9. CASE UNCHANGED vars
  BY <1>9 DEF vars
<1> QED
  BY <1>1, <1>2, <1>3, <1>4, <1>5, <1>6, <1>7, <1>8, <1>9 DEF Next

LEMMA ScreensAlways == Spec => []ScreensInv
<1>1. Init => ScreensInv
  BY KioskInits, GuestPageInits, ReaderInits, PhoneInits, BadgePageInits, InvitingInits, ConsoleInits, EntryInits
     DEF Init, ScreensInv
<1>2. ScreensInv /\ [Next]_vars => ScreensInv'
  <2> SUFFICES ASSUME ScreensInv, [Next]_vars PROVE ScreensInv'
    OBVIOUS
  <2>1. KioskInv' /\ GuestPageInv' /\ ReaderInv' /\ PhoneInv'
    BY StepOfScreens, KioskStep, GuestPageStep, ReaderStep, PhoneStep DEF ScreensInv
  <2>2. BadgePageInv' /\ InvitingInv' /\ ConsoleInv' /\ EntryInv'
    BY StepOfScreens, BadgePageStep, InvitingStep, ConsoleStep, EntryStep DEF ScreensInv
  <2> QED
    BY <2>1, <2>2 DEF ScreensInv
<1> QED
  BY <1>1, <1>2, PTL DEF Spec

(* Until an answer crosses a change of guest the tablet shows nobody another's name, invitation
   or visit, and one person's submission makes two visits only when an answer was lost. *)
THEOREM TabletKeepsGuests == Spec => []OneGuestOneVisit
<1>1. ScreensInv => OneGuestOneVisit
  BY KioskShowsIt DEF ScreensInv, OneGuestOneVisit
<1> QED
  BY <1>1, ScreensAlways, PTL

(* Whoever accepted a text at the tablet or on a guest's link had it on the screen when ticking,
   whatever was published or sent back meanwhile, but where the page itself asks for no new tick. *)
THEOREM AcceptedAsShown == Spec => []ShownBeforeAccepted
<1>1. ScreensInv => AcceptedWasShown
  BY KioskShowsIt DEF ScreensInv
<1>2. ScreensInv => RegisteredWasShown
  BY DEF ScreensInv, GuestPageInv, AsShown, RegisteredWasShown
<1>3. ScreensInv => ShownBeforeAccepted
  BY <1>1, <1>2 DEF ShownBeforeAccepted
<1> QED
  BY <1>3, ScreensAlways, PTL

(* However the reader's screen is paired, reloaded and tapped, a card or code that stays at the
   door is sent once while the screen holds it, unless another of its kind is read between or a
   screen that is gone still hears. *)
THEOREM ReaderSendsOnce == Spec => []PassagesOnce
<1>1. ScreensInv => PassagesOnce
  BY DEF ScreensInv, ReaderInv, PassagesOnce
<1> QED
  BY <1>1, ScreensAlways, PTL

(* A badge whose phone was told that it is removed is not in force, unless the server never
   heard of it and the phone said so. *)
THEOREM RemovedStaysDead == Spec => []RemovedIsDead
<1>1. ScreensInv => RemovedIsDead
  BY RemovedIsDeadHolds DEF ScreensInv
<1> QED
  BY <1>1, ScreensAlways, PTL

(* One form makes one invitation unless an answer was lost, and the code to forward is of the
   invitation shown, which is open, unless it was overtaken while the screen was loading it. *)
THEOREM InvitesOnce == Spec => []InvitedOnce
<1>1. ScreensInv => InvitedOnce
  BY InvitedOnceHolds DEF ScreensInv
<1> QED
  BY <1>1, ScreensAlways, PTL

(* What a page of the console says it saved is what the server holds, a form makes one row, and
   the recovery codes shown are those in force, with the exceptions the properties name. *)
THEOREM ConsoleTellsTruth == Spec => []ConsoleKeepsWord
<1>1. ScreensInv => ConsoleKeepsWord
  BY ConsoleSaysSo, EntryKeepsCodes DEF ScreensInv, ConsoleKeepsWord
<1> QED
  BY <1>1, ScreensAlways, PTL

(* The code of "My badge" is of the badge shown and its step never goes back, however late a
   drawing ends and whatever another page of the browser or the console does. *)
THEOREM CodeNeverGoesBack == Spec => CodeFollowsClock
<1>1. ScreensInv /\ [Next]_vars => [CodeForward]_<<drawn, myBadge>>
  <2> SUFFICES ASSUME ScreensInv, [Next]_vars PROVE [CodeForward]_<<drawn, myBadge>>
    OBVIOUS
  <2>1. CASE BadgePageNext
    BY <2>1, BadgePageSteps DEF ScreensInv
  <2>2. CASE UNCHANGED badgePageVars
    BY <2>2 DEF badgePageVars, screenSide
  <2> QED
    BY <2>1, <2>2, StepOfScreens
<1>2. [CodeForward]_<<drawn, myBadge>>
        => [/\ drawn'.badge \in {0, myBadge'.badge}
            /\ drawn'.badge = drawn.badge => drawn'.step >= drawn.step]_<<drawn, myBadge>>
  BY DEF CodeForward
<1> QED
  BY <1>1, <1>2, ScreensAlways, PTL DEF Spec, CodeFollowsClock
=============================================================================
