---------------------------- MODULE OutboxProofs ----------------------------
(***************************************************************************)
(* Theorems about the outboxes, for any number of runs, rows and devices:  *)
(* the types, what the mark of a row says of its delivery, and how many    *)
(* mails go out for something that is over.                                *)
(***************************************************************************)
EXTENDS Outboxes, FiniteSetTheorems, TLAPS

-----------------------------------------------------------------------------
(* The types *)

Item == [open : BOOLEAN, data : BOOLEAN]
Row == [kind : Kinds, status : {"ABSENT", "PENDING", "SENT", "FAILED", "SKIPPED"},
        attempts : Nat, due : BOOLEAN]
IsRun(me) ==
  /\ me \in [job : Jobs \cup {None}, section : Kinds \cup {None},
             pc : {"idle", "loop", "send", "settle"}, batch : {me.batch},
             message : Deliveries \cup {None}, to : SUBSET Devices,
             retry : BOOLEAN, again : BOOLEAN]
  /\ DOMAIN me.batch \subseteq Deliveries
  /\ me.batch \in [DOMAIN me.batch -> [attempts : Nat, item : Item]]

\* What the tables, the locks and the runs of the outboxes hold (api, outboxes).
TypeOK ==
  /\ uses \in Installations
  /\ row \in [Deliveries -> Row]
  /\ item \in [Deliveries -> Item]
  /\ devices \subseteq Devices
  /\ hook \in {"on", "off", "deleted"} /\ edit \in {"on", "off", None}
  /\ lock \in [Jobs -> Workers \cup {None}]
  /\ worker = [w \in Workers |-> worker[w]] /\ \A w \in Workers : IsRun(worker[w])
  /\ accepted \in [Deliveries -> Nat] /\ late \in [Deliveries -> Nat]
  /\ faults \in 0..MaxFaults /\ resends \in 0..MaxResends /\ edits \in 0..MaxEdits

-----------------------------------------------------------------------------
(* The inductive invariant *)

Held(w) == DOMAIN worker[w].batch

\* A run works for one job, on rows of its section; its message is one of them.
Knows(w) ==
  LET me == worker[w]
  IN /\ me.pc = "idle" => me = Idle
     /\ me.pc # "idle" => me.job \in Jobs /\ me.section \in Kinds /\ JobOf(me.section) = me.job
     /\ me.pc = "loop" => me.message = None
     /\ me.pc \in {"send", "settle"} => me.message \in Held(w)
     /\ me.again => me.job # "mail"
     /\ \A d \in Held(w) : row[d].status # "ABSENT" /\ row[d].kind = me.section

Carried ==
  /\ \A w \in Workers : Knows(w)
  /\ \A d \in Deliveries : row[d].status = "ABSENT" => row[d].kind = "push"

\* The runs of a job beside the one that has its lock.
Astray(job) == {w \in Workers : worker[w].job = job /\ lock[job] # w}

\* A lock belongs to a run of its job; the others have lost it, one fault each.
Locked ==
  \A job \in Jobs :
    /\ lock[job] # None => worker[lock[job]].job = job
    /\ Cardinality(Astray(job)) <= faults

\* What is about to be marked as sent was taken.
Taken ==
  /\ SentWasTaken
  /\ \A w \in Workers :
       worker[w].pc = "settle" /\ ~worker[w].retry /\ worker[w].job # "push" =>
         accepted[worker[w].message] > 0

\* The run has handed the notice over and will not try again.
Closing(w, d) == worker[w].pc = "settle" /\ worker[w].message = d /\ ~worker[w].retry

\* Until a fault: a notice is taken at most once, and then marked or about to be.
Once(d) ==
  row[d].kind = "push" =>
    /\ accepted[d] \in {0, 1}
    /\ accepted[d] = 0 \/ row[d].status = "SENT" \/ \E w \in Workers : d \in Held(w) /\ Closing(w, d)
    /\ \A w \in Workers : d \in Held(w) =>
         row[d].status = "PENDING" /\ (accepted[d] = 0 \/ Closing(w, d))
Pushed == faults = 0 => \A d \in Deliveries : Once(d)

\* The runs that may still send the mail of d: what they have read does not forbid it.
Sends(w, d) ==
  LET me == worker[w]
  IN /\ me.job = "mail" /\ d \in Held(w)
     /\ IF me.message = d THEN me.pc = "send"
        ELSE MailVerdict(me.section, me.batch[d].item, item[d]) = "SEND"
Threats(d) == {w \in Workers : Sends(w, d)}

\* What went out for nothing, and what still may, is one mail and one for each fault.
Tardy ==
  \A d \in Deliveries :
    /\ late[d] = 0 \/ Useless(d)
    /\ late[d] + Cardinality(Threats(d)) <= 1 + faults

IInv == TypeOK /\ Carried /\ Locked /\ Taken /\ Pushed /\ Tardy

-----------------------------------------------------------------------------
(* What is used of the assumptions *)

LEMMA NothingIsNobody ==
  /\ None \notin Workers /\ None \notin Devices /\ None \notin Deliveries
  /\ None \notin Kinds /\ None \notin Jobs
  BY OutboxesAssumption

LEMMA Finitely == IsFiniteSet(Workers)
  BY OutboxesAssumption

LEMMA Bounds == MaxFaults \in Nat /\ MaxResends \in Nat /\ MaxEdits \in Nat
  BY OutboxesAssumption

\* The five kinds of mails, and the job of each kind.
LEMMA MailKinds == Mails = {"notice", "badge", "arrival", "invitation", "parcel"}
<1>1. DOMAIN Sections = 1..5
  BY DEF Sections
<1>2. /\ Sections[1] = "notice" /\ Sections[2] = "badge" /\ Sections[3] = "arrival"
      /\ Sections[4] = "invitation" /\ Sections[5] = "parcel"
  BY DEF Sections
<1>3. \A i \in 1..5 : i = 1 \/ i = 2 \/ i = 3 \/ i = 4 \/ i = 5
  OBVIOUS
<1> QED BY <1>1, <1>2, <1>3 DEF Mails

LEMMA KindSet == Kinds = {"notice", "badge", "arrival", "invitation", "parcel", "hook", "push"}
  BY MailKinds DEF Kinds

LEMMA JobOfKinds ==
  /\ \A kind \in Kinds : JobOf(kind) \in Jobs
  /\ \A kind \in Kinds : JobOf(kind) = "mail" <=> kind \in Mails
  /\ \A kind \in Kinds : JobOf(kind) = "push" <=> kind = "push"
  /\ JobOf("hook") = "hook" /\ JobOf("push") = "push"
  BY MailKinds, KindSet DEF JobOf, Jobs

\* The smallest of some of the five sections.
LEMMA LeastSection ==
  ASSUME NEW S \in SUBSET (1..5), S # {}
  PROVE  \E i \in S : \A j \in S : i <= j
<1>1. CASE 1 \in S
  BY <1>1
<1>2. CASE 1 \notin S /\ 2 \in S
  BY <1>2
<1>3. CASE 1 \notin S /\ 2 \notin S /\ 3 \in S
  BY <1>3
<1>4. CASE 1 \notin S /\ 2 \notin S /\ 3 \notin S /\ 4 \in S
  BY <1>4
<1>5. CASE 1 \notin S /\ 2 \notin S /\ 3 \notin S /\ 4 \notin S
  <2>1. \A i \in S : i = 5
    BY <1>5
  <2>2. PICK i \in S : TRUE
    OBVIOUS
  <2>3. \A j \in S : i <= j
    BY <2>1
  <2> QED BY <2>3
<1> QED BY <1>1, <1>2, <1>3, <1>4, <1>5

-----------------------------------------------------------------------------
(* The kinds of steps *)

\* A run reads the rows of a section that are due.
Reading(w, job, kind) ==
  LET new == worker'[w]
  IN /\ job \in Jobs /\ kind \in Kinds /\ JobOf(kind) = job
     /\ worker' = [worker EXCEPT ![w] = new] /\ IsRun(new)
     /\ new.job = job /\ new.section = kind /\ new.pc = "loop"
     /\ new.message = None /\ ~new.retry /\ (new.again => job # "mail")
     /\ \A d \in DOMAIN new.batch : d \in Due(kind) /\ new.batch[d].item = item[d]

Rest == <<row, item, accepted, late, faults>>

\* Nothing of the rows and runs changes.
Aside == UNCHANGED <<row, item, lock, worker, accepted, late, faults>>

\* Rows are written, or are due again.
Writes ==
  /\ UNCHANGED <<item, lock, worker, accepted, late, faults>>
  /\ row' \in [Deliveries -> Row]
  /\ \A d \in Deliveries :
       \/ row'[d] = row[d]
       \/ row[d].status = "ABSENT" /\ row'[d].status = "PENDING"
       \/ /\ row[d].status # "ABSENT" /\ row'[d].status = "PENDING" /\ row'[d].kind = row[d].kind
          /\ row[d].kind = "invitation" \/ row[d].status = "PENDING"

\* What a mail is about comes to its end.
Ends ==
  /\ UNCHANGED <<row, lock, worker, accepted, late, faults>>
  /\ item' \in [Deliveries -> Item]
  /\ \A d \in Deliveries : (item'[d].open => item[d].open) /\ (item'[d].data => item[d].data)

Begins(w) ==
  \E job \in Jobs, kind \in Kinds :
    /\ UNCHANGED Rest
    /\ worker[w].pc = "idle" /\ Locks(w, job) /\ Reading(w, job, kind)

Continues(w) ==
  \E kind \in Kinds :
    /\ UNCHANGED Rest /\ UNCHANGED lock
    /\ worker[w].pc = "loop" /\ Held(w) = {} /\ Reading(w, worker[w].job, kind)

Stops(w) ==
  /\ UNCHANGED <<row, item, accepted, late>> /\ faults' \in {faults, faults + 1}
  /\ faults' \in 0..MaxFaults /\ (faults' = faults => worker[w].pc = "loop" /\ Held(w) = {})
  /\ worker[w].pc # "idle" /\ worker' = [worker EXCEPT ![w] = Idle] /\ Frees(w, worker[w].job)

TakesUp(w) ==
  \E d \in Held(w), to \in SUBSET Devices :
    /\ UNCHANGED Rest /\ UNCHANGED lock
    /\ worker[w].pc = "loop" /\ Takes(w, d, to)
    /\ worker[w].job = "mail" =>
         MailVerdict(worker[w].section, worker[w].batch[d].item, item[d]) = "SEND"

PassesBy(w) ==
  \E d \in Held(w), status \in {"FAILED", "SKIPPED"} :
    /\ UNCHANGED <<item, lock, accepted, late, faults>>
    /\ worker[w].pc = "loop" /\ worker[w].job # "push" /\ Leaves(w, d, status)

Hands(w) ==
  \E ok, retry \in BOOLEAN :
    /\ worker[w].pc = "send" /\ HandedOver(w, ok, retry)
    /\ worker[w].job # "push" => ok \/ retry
    /\ worker[w].job = "push" => ~ok \/ ~retry

LEMMA ReadsABatch ==
  ASSUME TypeOK, NEW w \in Workers, NEW job \in Jobs, NEW kind \in Kinds, JobOf(kind) = job,
         NEW again \in BOOLEAN, again => job # "mail", Reads(w, job, kind, again)
  PROVE  Reading(w, job, kind)
<1>1. PICK b \in Batch(kind) :
        worker' = [worker EXCEPT ![w] =
          [Idle EXCEPT !.job = job, !.section = kind, !.pc = "loop", !.batch = b,
                       !.again = again /\ Cardinality(DOMAIN b) = BatchSize]]
  BY DEF Reads
<1> DEFINE full == Cardinality(DOMAIN b) = BatchSize
<1>2. PICK D \in SUBSET Due(kind) : b = [d \in D |-> [attempts |-> row[d].attempts, item |-> item[d]]]
  BY DEF Batch
<1>3. D \subseteq Deliveries
  BY <1>2 DEF Due
<1>4. b \in [D -> [attempts : Nat, item : Item]] /\ DOMAIN b = D
  BY <1>2, <1>3 DEF TypeOK, Row
<1>5. (again /\ full) \in BOOLEAN
  OBVIOUS
<1> HIDE DEF full
<1>6. worker'[w] = [job |-> job, section |-> kind, pc |-> "loop", batch |-> b,
                    message |-> None, to |-> {}, retry |-> FALSE, again |-> again /\ full]
  BY <1>1 DEF Idle, TypeOK, full
<1>7. IsRun(worker'[w])
  BY <1>3, <1>4, <1>5, <1>6 DEF IsRun
<1>8. worker' = [worker EXCEPT ![w] = worker'[w]]
  BY <1>1, <1>6 DEF TypeOK, Idle, full
<1>9. \A d \in DOMAIN b : d \in Due(kind) /\ b[d].item = item[d]
  BY <1>2, <1>4
<1> QED BY <1>6, <1>7, <1>8, <1>9 DEF Reading

LEMMA Sectioned ==
  ASSUME NEW job \in Jobs, NEW d \in Deliveries, JobOf(row[d].kind) = job,
         d \in Due(row[d].kind), row[d].kind \in Kinds
  PROVE  FirstSection(job) \in Kinds /\ JobOf(FirstSection(job)) = job
<1>1. CASE job # "mail"
  <2>1. job \in {"hook", "push"}
    BY <1>1 DEF Jobs
  <2> QED BY <1>1, <2>1, JobOfKinds, KindSet DEF FirstSection
<1>2. CASE job = "mail"
  <2> DEFINE Some == {i \in DOMAIN Sections : Due(Sections[i]) # {}}
  <2>0. DOMAIN Sections = 1..5
    BY DEF Sections
  <2>1. PICK k \in DOMAIN Sections : row[d].kind = Sections[k]
    BY <1>2, JobOfKinds DEF Mails
  <2>2. k \in Some /\ Some \in SUBSET (1..5)
    BY <2>0, <2>1
  <2>3. PICK i \in Some : \A j \in Some : i <= j
    BY <2>2, LeastSection
  <2>4. \A j \in 1..(i - 1) : Due(Sections[j]) = {}
    BY <2>0, <2>3
  <2>5. \E n \in DOMAIN Sections : Due(Sections[n]) # {} /\ \A j \in 1..(n - 1) : Due(Sections[j]) = {}
    BY <2>3, <2>4
  <2>6. FirstSection(job) \in Mails
    BY <1>2, <2>5 DEF FirstSection, Mails
  <2> QED BY <1>2, <2>6, JobOfKinds DEF Kinds
<1> QED BY <1>1, <1>2

LEMMA RunsBegin ==
  ASSUME TypeOK, NEW w \in Workers, NEW job \in Jobs, NEW again \in BOOLEAN, RunBegins(w, job, again)
  PROVE  Begins(w)
<1>1. PICK d \in Deliveries : JobOf(row[d].kind) = job /\ d \in Due(row[d].kind)
  BY DEF RunBegins
<1>2. row[d].kind \in Kinds
  BY DEF TypeOK, Row
<1>3. FirstSection(job) \in Kinds /\ JobOf(FirstSection(job)) = job
  BY <1>1, <1>2, Sectioned
<1>4. Reading(w, job, FirstSection(job))
  BY <1>3, ReadsABatch DEF RunBegins
<1> QED BY <1>3, <1>4 DEF RunBegins, Begins, Rest

LEMMA SectionsEnd ==
  ASSUME TypeOK, Carried, NEW w \in Workers, NextSection(w)
  PROVE  Continues(w) \/ (Stops(w) /\ UNCHANGED faults)
<1> DEFINE me == worker[w]
           later == IF me.job = "mail" THEN Later(me.section) ELSE {}
<1>1. me.pc = "loop" /\ Held(w) = {} /\ UNCHANGED Rest
  BY DEF NextSection, Held, Rest
<1>2. me.job \in Jobs /\ me.section \in Kinds /\ JobOf(me.section) = me.job /\ me.again \in BOOLEAN
  BY <1>1 DEF Carried, Knows, TypeOK, IsRun
<1>3. ASSUME later # {}, UNCHANGED lock,
             Reads(w, "mail", Sections[CHOOSE i \in later : \A j \in later : i <= j], FALSE)
      PROVE  Continues(w)
  <2> DEFINE at == CHOOSE i \in DOMAIN Sections : Sections[i] = me.section
             next == CHOOSE i \in later : \A j \in later : i <= j
  <2>1. me.job = "mail" /\ later \subseteq DOMAIN Sections
    BY <1>3 DEF Later
  <2>2. DOMAIN Sections = 1..5
    BY DEF Sections
  <2>3. \E i \in later : \A j \in later : i <= j
    BY <1>3, <2>1, <2>2, LeastSection
  <2>4. next \in later
    BY <2>3
  <2>5. Sections[next] \in Mails
    BY <2>1, <2>4 DEF Mails
  <2>6. Sections[next] \in Kinds /\ JobOf(Sections[next]) = "mail" /\ "mail" \in Jobs
    BY <2>5, JobOfKinds DEF Kinds, Jobs
  <2>7. Reading(w, "mail", Sections[next])
    <3> HIDE DEF next
    <3> QED BY <1>3, <2>6, ReadsABatch DEF next
  <2> QED BY <1>1, <1>3, <2>1, <2>6, <2>7 DEF Continues
<1>4. ASSUME me.again, Reads(w, me.job, me.job, TRUE), UNCHANGED lock PROVE Continues(w)
  <2>1. me.job # "mail"
    BY <1>4 DEF Carried, Knows
  <2>2. me.job \in Kinds /\ JobOf(me.job) = me.job
    BY <1>2, <2>1, JobOfKinds, KindSet DEF Jobs
  <2>3. Reading(w, me.job, me.job)
    BY <1>2, <1>4, <2>1, <2>2, ReadsABatch
  <2> QED BY <1>1, <1>4, <2>2, <2>3 DEF Continues
<1>5. ASSUME worker' = [worker EXCEPT ![w] = Idle], Frees(w, me.job) PROVE Stops(w)
  BY <1>1, <1>5 DEF Stops, Rest, TypeOK
<1>6. UNCHANGED faults /\ faults \in 0..MaxFaults
  BY <1>1 DEF Rest, TypeOK
<1>7. \/ /\ later # {}
         /\ Reads(w, "mail", Sections[CHOOSE i \in later : \A j \in later : i <= j], FALSE)
         /\ UNCHANGED lock
      \/ me.again /\ Reads(w, me.job, me.job, TRUE) /\ UNCHANGED lock
      \/ worker' = [worker EXCEPT ![w] = Idle] /\ Frees(w, me.job)
  BY DEF NextSection
<1> HIDE DEF later
<1> QED BY <1>3, <1>4, <1>5, <1>6, <1>7

LEMMA Queueing ==
  ASSUME TypeOK, NEW kinds \in SUBSET Kinds, Queue(kinds)
  PROVE  Writes
<1>1. PICK place \in [kinds -> Lowest(Cardinality(kinds))] :
        row' = [d \in Deliveries |->
          IF \E k \in kinds : place[k] = d THEN Queued(d, CHOOSE k \in kinds : place[k] = d) ELSE row[d]]
  BY DEF Queue
<1>2. \A d \in Deliveries :
        \/ row'[d] = row[d]
        \/ row[d].status = "ABSENT" /\ row'[d].status = "PENDING" /\ row'[d] \in Row
  <2> SUFFICES ASSUME NEW d \in Deliveries, \E k \in kinds : place[k] = d
               PROVE  row[d].status = "ABSENT" /\ row'[d].status = "PENDING" /\ row'[d] \in Row
    BY <1>1
  <2> DEFINE kind == CHOOSE k \in kinds : place[k] = d
  <2>1. kind \in kinds /\ place[kind] = d
    OBVIOUS
  <2>2. row[d].status = "ABSENT"
    BY <2>1 DEF Lowest, Free
  <2>3. row'[d] = Queued(d, kind)
    BY <1>1
  <2> HIDE DEF kind
  <2> QED BY <2>1, <2>2, <2>3 DEF Queued, Row
<1>3. row' \in [Deliveries -> Row]
  BY <1>1, <1>2 DEF TypeOK
<1> QED BY <1>2, <1>3 DEF Writes, Queue

LEMMA Resending ==
  ASSUME TypeOK, NEW d \in Deliveries, Resend(d) \/ BackoffEnds(d)
  PROVE  Writes
<1>1. CASE Resend(d)
  <2>1. row[d] \in Row /\ row \in [Deliveries -> Row]
    BY DEF TypeOK
  <2> DEFINE new == [row[d] EXCEPT !.status = "PENDING", !.attempts = 0]
  <2>2. new \in Row /\ new.status = "PENDING" /\ new.kind = row[d].kind
    BY <2>1 DEF Row
  <2>3. row' = [row EXCEPT ![d] = new]
    BY <1>1 DEF Resend
  <2> HIDE DEF new
  <2>4. row' \in [Deliveries -> Row] /\ row'[d] = new /\ \A e \in Deliveries : e # d => row'[e] = row[e]
    BY <2>1, <2>2, <2>3
  <2> QED BY <1>1, <2>2, <2>4 DEF Resend, Writes
<1>2. CASE BackoffEnds(d)
  BY <1>2 DEF BackoffEnds, Writes, TypeOK, Row
<1> QED BY <1>1, <1>2

LEMMA Ending ==
  ASSUME TypeOK, NEW d \in Deliveries, Close(d) \/ Forget(d)
  PROVE  Ends
<1>1. CASE Close(d)
  BY <1>1 DEF Close, Ends, TypeOK, Item
<1>2. CASE Forget(d)
  BY <1>2 DEF Forget, Ends, TypeOK, Item
<1> QED BY <1>1, <1>2

LEMMA TakingUp ==
  ASSUME TypeOK, Carried, NEW w \in Workers, Take(w)
  PROVE  TakesUp(w) \/ PassesBy(w)
<1>1. PICK d \in Held(w) : TakeMail(w, d) \/ TakeHook(w, d) \/ TakePush(w, d)
  BY DEF Take, Held
<1>2. {} \in SUBSET Devices /\ devices \in SUBSET Devices
  BY DEF TypeOK
<1> DEFINE verdict == MailVerdict(worker[w].section, worker[w].batch[d].item, item[d])
<1>3. verdict \in {"SEND", "SKIPPED", "FAILED"}
  BY DEF MailVerdict
<1> HIDE DEF verdict
<1>4. CASE TakeMail(w, d)
  <2>1. CASE verdict = "SEND"
    BY <1>2, <1>4, <2>1 DEF TakeMail, TakesUp, verdict, Take, Rest
  <2>2. CASE verdict # "SEND"
    <3>1. verdict \in {"FAILED", "SKIPPED"} /\ Leaves(w, d, verdict)
      BY <1>3, <1>4, <2>2 DEF TakeMail, verdict
    <3>2. worker[w].job # "push"
      BY <1>4 DEF TakeMail
    <3> QED BY <3>1, <3>2 DEF PassesBy, Take
  <2> QED BY <2>1, <2>2
<1>5. CASE TakeHook(w, d)
  BY <1>2, <1>5 DEF TakeHook, TakesUp, PassesBy, Take, Rest
<1>6. CASE TakePush(w, d)
  BY <1>2, <1>6 DEF TakePush, TakesUp, Take, Rest
<1> QED BY <1>1, <1>4, <1>5, <1>6

LEMMA HandingOver ==
  ASSUME TypeOK, NEW w \in Workers, Send(w) \/ SendPush(w)
  PROVE  Hands(w)
<1>1. CASE Send(w)
  <2>1. PICK took, answered \in BOOLEAN : (answered => took) /\ HandedOver(w, took, ~answered)
    BY <1>1 DEF Send
  <2>2. (~answered) \in BOOLEAN /\ (took \/ ~answered)
    BY <2>1
  <2> QED BY <1>1, <2>1, <2>2 DEF Send, Hands
<1>2. CASE SendPush(w)
  <2>1. PICK result \in [worker[w].to -> {"OK", "GONE", "RETRY"}] :
          LET results == {result[v] : v \in worker[w].to}
          IN HandedOver(w, "OK" \in results, Retry(results))
    BY <1>2 DEF SendPush
  <2> DEFINE results == {result[v] : v \in worker[w].to}
             ok == "OK" \in results
             again == Retry(results)
  <2>2. ok \in BOOLEAN /\ again \in BOOLEAN /\ (~ok \/ ~again)
    BY DEF Retry
  <2>3. HandedOver(w, ok, again)
    BY <2>1
  <2> HIDE DEF ok, again
  <2> QED BY <1>2, <2>2, <2>3 DEF SendPush, Hands
<1> QED BY <1>1, <1>2

LEMMA Steps ==
  ASSUME TypeOK, Carried, [Next]_vars
  PROVE  \/ Aside \/ Writes \/ Ends
         \/ \E w \in Workers :
              Begins(w) \/ Continues(w) \/ Stops(w) \/ TakesUp(w) \/ PassesBy(w) \/ Hands(w) \/ Settle(w)
         \/ \E job \in Jobs : LockLost(job)
<1> DEFINE Goal ==
      \/ Aside \/ Writes \/ Ends
      \/ \E w \in Workers :
           Begins(w) \/ Continues(w) \/ Stops(w) \/ TakesUp(w) \/ PassesBy(w) \/ Hands(w) \/ Settle(w)
      \/ \E job \in Jobs : LockLost(job)
<1>1. ASSUME UNCHANGED vars PROVE Goal
  BY <1>1 DEF vars, Aside
<1>2. ASSUME CheckIn \/ Parcel \/ Invite \/ HookEvent PROVE Goal
  <2>1. \E kinds \in SUBSET Kinds : Queue(kinds)
    <3>1. CASE CheckIn
      BY <3>1, KindSet DEF CheckIn
    <3>2. CASE Parcel
      BY <3>2, KindSet DEF Parcel
    <3>3. CASE Invite \/ HookEvent
      BY <3>3, KindSet DEF Invite, HookEvent
    <3> QED BY <1>2, <3>1, <3>2, <3>3
  <2> QED BY <2>1, Queueing
<1>3. ASSUME NEW d \in Deliveries, Close(d) \/ Forget(d) \/ Resend(d) \/ BackoffEnds(d) PROVE Goal
  BY <1>3, Ending, Resending
<1>4. ASSUME NEW v \in Devices, Register(v) PROVE Goal
  BY <1>4 DEF Register, Aside
<1>5. ASSUME Unregister \/ HookLoad \/ HookSave \/ HookRemove PROVE Goal
  BY <1>5 DEF Unregister, HookLoad, HookSave, HookRemove, Aside
<1>6. ASSUME NEW job \in Jobs, Scheduled(job) \/ LockLost(job) PROVE Goal
  <2>1. CASE Scheduled(job)
    <3>1. (job # "mail") \in BOOLEAN
      OBVIOUS
    <3>2. PICK w \in Workers : RunBegins(w, job, job # "mail")
      BY <2>1 DEF Scheduled
    <3>3. Begins(w)
      BY <3>1, <3>2, RunsBegin
    <3> QED BY <3>3
  <2> QED BY <1>6, <2>1
<1>7. ASSUME Kick PROVE Goal
  <2>1. "push" \in Jobs
    BY DEF Jobs
  <2>2. PICK w \in Workers : RunBegins(w, "push", FALSE)
    BY <1>7 DEF Kick
  <2>3. Begins(w)
    BY <2>1, <2>2, RunsBegin
  <2> QED BY <2>3
<1>8. ASSUME NEW w \in Workers, RunStep(w) \/ RunFails(w) PROVE Goal
  <2>1. CASE RunFails(w)
    <3>1. faults \in 0..MaxFaults /\ faults < MaxFaults /\ faults' = faults + 1
      BY <2>1 DEF RunFails, TypeOK
    <3>2. faults' \in {faults, faults + 1} /\ faults' \in 0..MaxFaults
      BY <3>1, Bounds
    <3>3. faults' # faults
      BY <3>1
    <3> QED BY <2>1, <3>2, <3>3 DEF RunFails, Stops
  <2>2. CASE NextSection(w)
    BY <2>2, SectionsEnd
  <2>3. CASE Take(w)
    BY <2>3, TakingUp
  <2>4. CASE Send(w) \/ SendPush(w)
    BY <2>4, HandingOver
  <2> QED BY <1>8, <2>1, <2>2, <2>3, <2>4 DEF RunStep
<1> HIDE DEF Goal
<1>9. Goal
  BY <1>1, <1>2, <1>3, <1>4, <1>5, <1>6, <1>7, <1>8 DEF Next
<1> QED BY <1>9 DEF Goal

\* Who changes the items, the histories and the rows.
LEMMA Changes ==
  ASSUME TypeOK, Carried, [Next]_vars
  PROVE  /\ UNCHANGED item \/ Ends
         /\ UNCHANGED <<accepted, late>> \/ \E w \in Workers : Hands(w)
         /\ UNCHANGED row \/ Writes \/ \E w \in Workers : PassesBy(w) \/ Settle(w)
<1> DEFINE Goal ==
      /\ UNCHANGED item \/ Ends
      /\ UNCHANGED <<accepted, late>> \/ \E w \in Workers : Hands(w)
      /\ UNCHANGED row \/ Writes \/ \E w \in Workers : PassesBy(w) \/ Settle(w)
<1>1. ASSUME Aside PROVE Goal
  BY <1>1 DEF Aside
<1>2. ASSUME Writes PROVE Goal
  BY <1>2 DEF Writes
<1>3. ASSUME Ends PROVE Goal
  BY <1>3 DEF Ends
<1>4. ASSUME NEW w \in Workers, Begins(w) \/ Continues(w) \/ TakesUp(w) PROVE Goal
  <2>1. UNCHANGED Rest
    BY <1>4 DEF Begins, Continues, TakesUp
  <2> QED BY <2>1 DEF Rest
<1>5. ASSUME NEW w \in Workers, Stops(w) PROVE Goal
  BY <1>5 DEF Stops
<1>6. ASSUME NEW w \in Workers, PassesBy(w) PROVE Goal
  BY <1>6 DEF PassesBy
<1>7. ASSUME NEW w \in Workers, Hands(w) PROVE Goal
  BY <1>7 DEF Hands, HandedOver
<1>8. ASSUME NEW w \in Workers, Settle(w) PROVE Goal
  BY <1>8 DEF Settle
<1>9. ASSUME NEW job \in Jobs, LockLost(job) PROVE Goal
  BY <1>9 DEF LockLost
<1> HIDE DEF Goal
<1>10. Goal
  BY <1>1, <1>2, <1>3, <1>4, <1>5, <1>6, <1>7, <1>8, <1>9, Steps
<1> QED BY <1>10 DEF Goal

-----------------------------------------------------------------------------
(* The types are kept *)

\* What the steps outside the runs write: the devices, the hook, the console's limits.
LEMMA OutsideTypes ==
  ASSUME TypeOK, [Next]_vars
  PROVE  /\ uses' \in Installations /\ devices' \subseteq Devices
         /\ hook' \in {"on", "off", "deleted"} /\ edit' \in {"on", "off", None}
         /\ resends' \in 0..MaxResends /\ edits' \in 0..MaxEdits
<1> DEFINE Goal ==
      /\ uses' \in Installations /\ devices' \subseteq Devices
      /\ hook' \in {"on", "off", "deleted"} /\ edit' \in {"on", "off", None}
      /\ resends' \in 0..MaxResends /\ edits' \in 0..MaxEdits
           Others == <<uses, hook, edit, resends, edits>>
<1>1. ASSUME UNCHANGED Others, devices' \subseteq Devices PROVE Goal
  BY <1>1 DEF TypeOK
<1>3. devices \subseteq Devices
  BY DEF TypeOK
<1>4. ASSUME UNCHANGED <<Others, devices>> PROVE Goal
  BY <1>1, <1>3, <1>4
<1>5. ASSUME UNCHANGED vars PROVE Goal
  BY <1>4, <1>5 DEF vars
<1>6. ASSUME CheckIn \/ Parcel \/ Invite \/ HookEvent PROVE Goal
  BY <1>4, <1>6 DEF CheckIn, Parcel, Invite, HookEvent, Queue
<1>7. ASSUME NEW d \in Deliveries, Close(d) \/ Forget(d) \/ BackoffEnds(d) PROVE Goal
  BY <1>4, <1>7 DEF Close, Forget, BackoffEnds
<1>8. ASSUME NEW d \in Deliveries, Resend(d) PROVE Goal
  BY <1>8, Bounds DEF Resend, TypeOK
<1>9. ASSUME NEW v \in Devices, Register(v) PROVE Goal
  BY <1>1, <1>3, <1>9 DEF Register
<1>10. ASSUME Unregister PROVE Goal
  BY <1>1, <1>3, <1>10 DEF Unregister
<1>11. ASSUME HookLoad \/ HookRemove PROVE Goal
  BY <1>11, Bounds DEF HookLoad, HookRemove, TypeOK
<1>12. ASSUME HookSave PROVE Goal
  BY <1>12 DEF HookSave, TypeOK
<1>13. ASSUME NEW job \in Jobs, Scheduled(job) \/ LockLost(job) PROVE Goal
  BY <1>4, <1>13 DEF Scheduled, RunBegins, LockLost
<1>14. ASSUME Kick PROVE Goal
  BY <1>4, <1>14 DEF Kick, RunBegins
<1>15. ASSUME NEW w \in Workers, RunStep(w) \/ RunFails(w) PROVE Goal
  <2>1. CASE SendPush(w)
    <3>1. devices' \subseteq devices /\ UNCHANGED Others
      BY <2>1 DEF SendPush, HandedOver
    <3> QED BY <1>1, <1>3, <3>1
  <2>2. CASE ~SendPush(w)
    BY <1>4, <1>15, <2>2 DEF RunStep, RunFails, NextSection, Take, Send, HandedOver, Settle
  <2> QED BY <2>1, <2>2
<1> HIDE DEF Goal
<1>16. Goal
  BY <1>5, <1>6, <1>7, <1>8, <1>9, <1>10, <1>11, <1>12, <1>13, <1>14, <1>15 DEF Next
<1> QED BY <1>16 DEF Goal

LEMMA IdleIsRun == IsRun(Idle)
<1>1. DOMAIN NoMessages = {} /\ NoMessages \in [{} -> [attempts : Nat, item : Item]]
  BY DEF NoMessages
<1> QED BY <1>1 DEF IsRun, Idle

\* One run of the table of runs is replaced.
LEMMA OneRun ==
  ASSUME TypeOK, NEW w \in Workers, NEW me, IsRun(me), worker' = [worker EXCEPT ![w] = me]
  PROVE  /\ worker' = [v \in Workers |-> worker'[v]] /\ \A v \in Workers : IsRun(worker'[v])
         /\ worker'[w] = me /\ \A v \in Workers : v # w => worker'[v] = worker[v]
<1>1. worker = [v \in Workers |-> worker[v]] /\ \A v \in Workers : IsRun(worker[v])
  BY DEF TypeOK
<1>2. worker'[w] = me /\ \A v \in Workers : v # w => worker'[v] = worker[v]
  BY <1>1
<1>3. \A v \in Workers : IsRun(worker'[v])
  BY <1>1, <1>2
<1> QED BY <1>1, <1>2, <1>3

Others(w) == \A v \in Workers \ {w} : worker'[v] = worker[v]
Typed == worker' = [v \in Workers |-> worker'[v]] /\ \A v \in Workers : IsRun(worker'[v])

LEMMA DropType ==
  ASSUME NEW me, IsRun(me), NEW d
  PROVE  /\ DOMAIN Drop(d, me.batch) = DOMAIN me.batch \ {d}
         /\ \A e \in DOMAIN me.batch \ {d} : Drop(d, me.batch)[e] = me.batch[e]
         /\ Drop(d, me.batch) \in [DOMAIN me.batch \ {d} -> [attempts : Nat, item : Item]]
  BY DEF IsRun, Drop

LEMMA StopsFacts ==
  ASSUME TypeOK, NEW w \in Workers, Stops(w)
  PROVE  worker'[w] = Idle /\ Others(w) /\ Typed
  BY OneRun, IdleIsRun DEF Stops, Others, Typed

LEMMA ReadingFacts ==
  ASSUME TypeOK, NEW w \in Workers, NEW job, NEW kind, Reading(w, job, kind)
  PROVE  Others(w) /\ Typed
<1>1. IsRun(worker'[w]) /\ worker' = [worker EXCEPT ![w] = worker'[w]]
  BY DEF Reading
<1> QED BY <1>1, OneRun DEF Others, Typed

LEMMA TakesFacts ==
  ASSUME TypeOK, NEW w \in Workers, NEW d \in Held(w), NEW to \in SUBSET Devices, Takes(w, d, to)
  PROVE  /\ worker'[w].pc = "send" /\ worker'[w].message = d
         /\ worker'[w].job = worker[w].job /\ worker'[w].section = worker[w].section
         /\ worker'[w].batch = worker[w].batch
         /\ worker'[w].retry = worker[w].retry /\ worker'[w].again = worker[w].again
         /\ Others(w) /\ Typed
<1> DEFINE new == [worker[w] EXCEPT !.pc = "send", !.message = d, !.to = to]
<1>1. IsRun(worker[w]) /\ worker = [v \in Workers |-> worker[v]]
  BY DEF TypeOK
<1>2. d \in Deliveries
  BY <1>1 DEF IsRun, Held
<1>3. /\ new.pc = "send" /\ new.message = d /\ new.job = worker[w].job
      /\ new.section = worker[w].section /\ new.batch = worker[w].batch
      /\ new.retry = worker[w].retry /\ new.again = worker[w].again
      /\ IsRun(new)
  BY <1>1, <1>2 DEF IsRun
<1>4. worker' = [worker EXCEPT ![w] = new]
  BY DEF Takes
<1> HIDE DEF new
<1>5. worker'[w] = new /\ Others(w) /\ Typed
  BY <1>3, <1>4, OneRun DEF Others, Typed
<1> QED BY <1>3, <1>5

LEMMA LeavesFacts ==
  ASSUME TypeOK, NEW w \in Workers, NEW d \in Held(w), NEW status \in {"FAILED", "SKIPPED"},
         Leaves(w, d, status)
  PROVE  /\ worker'[w].pc = worker[w].pc /\ worker'[w].message = worker[w].message
         /\ worker'[w].job = worker[w].job /\ worker'[w].section = worker[w].section
         /\ DOMAIN worker'[w].batch = Held(w) \ {d}
         /\ \A e \in Held(w) \ {d} : worker'[w].batch[e] = worker[w].batch[e]
         /\ worker'[w].retry = worker[w].retry /\ worker'[w].again = worker[w].again
         /\ Others(w) /\ Typed
         /\ d \in Deliveries /\ row' \in [Deliveries -> Row]
         /\ \A e \in Deliveries \ {d} : row'[e] = row[e]
         /\ row'[d].status = status /\ row'[d].kind = row[d].kind
<1> DEFINE rest == Drop(d, worker[w].batch)
           new == [worker[w] EXCEPT !.batch = rest]
           left == [row[d] EXCEPT !.status = status]
<1>1. IsRun(worker[w]) /\ worker = [v \in Workers |-> worker[v]]
  BY DEF TypeOK
<1>2. d \in Deliveries /\ Held(w) \subseteq Deliveries
  BY <1>1 DEF IsRun, Held
<1>3. /\ DOMAIN rest = Held(w) \ {d} /\ \A e \in Held(w) \ {d} : rest[e] = worker[w].batch[e]
      /\ rest \in [Held(w) \ {d} -> [attempts : Nat, item : Item]]
  BY <1>1, DropType DEF Held
<1>4. worker' = [worker EXCEPT ![w] = new]
  BY DEF Leaves
<1> HIDE DEF rest
<1>5. /\ new.pc = worker[w].pc /\ new.message = worker[w].message /\ new.job = worker[w].job
      /\ new.section = worker[w].section /\ new.batch = rest
      /\ new.retry = worker[w].retry /\ new.again = worker[w].again
      /\ IsRun(new)
  BY <1>1, <1>2, <1>3 DEF IsRun
<1> HIDE DEF new
<1>6. worker'[w] = new /\ Others(w) /\ Typed
  BY <1>4, <1>5, OneRun DEF Others, Typed
<1>7. row \in [Deliveries -> Row] /\ row[d] \in Row
  BY <1>2 DEF TypeOK
<1>8. left \in Row /\ left.status = status /\ left.kind = row[d].kind
  BY <1>7 DEF Row
<1>9. row' = [row EXCEPT ![d] = left]
  BY DEF Leaves
<1> HIDE DEF left
<1>10. /\ row' \in [Deliveries -> Row] /\ row'[d] = left
       /\ \A e \in Deliveries \ {d} : row'[e] = row[e]
  BY <1>2, <1>7, <1>8, <1>9
<1> QED BY <1>2, <1>3, <1>5, <1>6, <1>8, <1>10

LEMMA HandsFacts ==
  ASSUME TypeOK, Carried, NEW w \in Workers, NEW ok \in BOOLEAN, NEW retry \in BOOLEAN,
         worker[w].pc = "send", HandedOver(w, ok, retry)
  PROVE  /\ worker'[w].pc = "settle" /\ worker'[w].message = worker[w].message
         /\ worker'[w].job = worker[w].job /\ worker'[w].section = worker[w].section
         /\ worker'[w].batch = worker[w].batch
         /\ worker'[w].retry = retry /\ worker'[w].again = worker[w].again
         /\ Others(w) /\ Typed
         /\ worker[w].message \in Held(w) /\ worker[w].message \in Deliveries
         /\ accepted' \in [Deliveries -> Nat] /\ late' \in [Deliveries -> Nat]
         /\ \A e \in Deliveries \ {worker[w].message} :
              accepted'[e] = accepted[e] /\ late'[e] = late[e]
         /\ accepted'[worker[w].message] =
              IF ok THEN accepted[worker[w].message] + 1 ELSE accepted[worker[w].message]
         /\ late'[worker[w].message] =
              IF Useless(worker[w].message) THEN late[worker[w].message] + 1 ELSE late[worker[w].message]
<1> DEFINE new == [worker[w] EXCEPT !.pc = "settle", !.retry = retry]
           d == worker[w].message
<1>1. IsRun(worker[w]) /\ worker = [v \in Workers |-> worker[v]]
  BY DEF TypeOK
<1>2. d \in Held(w)
  BY DEF Carried, Knows
<1>3. d \in Deliveries
  BY <1>1, <1>2 DEF IsRun, Held
<1>4. /\ new.pc = "settle" /\ new.message = d /\ new.job = worker[w].job
      /\ new.section = worker[w].section /\ new.batch = worker[w].batch
      /\ new.retry = retry /\ new.again = worker[w].again
      /\ IsRun(new)
  BY <1>1 DEF IsRun
<1>5. worker' = [worker EXCEPT ![w] = new]
  BY DEF HandedOver
<1> HIDE DEF new
<1>6. worker'[w] = new /\ Others(w) /\ Typed
  BY <1>4, <1>5, OneRun DEF Others, Typed
<1>7. accepted \in [Deliveries -> Nat] /\ late \in [Deliveries -> Nat]
  BY DEF TypeOK
<1>8. /\ accepted' = IF ok THEN [accepted EXCEPT ![d] = accepted[d] + 1] ELSE accepted
      /\ late' = IF Useless(d) THEN [late EXCEPT ![d] = late[d] + 1] ELSE late
  BY DEF HandedOver
<1> HIDE DEF d
<1>9. /\ accepted' \in [Deliveries -> Nat]
      /\ \A e \in Deliveries \ {d} : accepted'[e] = accepted[e]
      /\ accepted'[d] = IF ok THEN accepted[d] + 1 ELSE accepted[d]
  BY <1>3, <1>7, <1>8
<1>10. /\ late' \in [Deliveries -> Nat]
       /\ \A e \in Deliveries \ {d} : late'[e] = late[e]
       /\ late'[d] = IF Useless(d) THEN late[d] + 1 ELSE late[d]
  BY <1>3, <1>7, <1>8
<1> QED BY <1>2, <1>3, <1>4, <1>6, <1>9, <1>10 DEF d

LEMMA SettleFacts ==
  ASSUME TypeOK, Carried, NEW w \in Workers, Settle(w)
  PROVE  LET d == worker[w].message
         IN /\ worker[w].pc = "settle" /\ d \in Held(w) /\ d \in Deliveries
            /\ worker'[w].pc = "loop" /\ worker'[w].message = None
            /\ worker'[w].job = worker[w].job /\ worker'[w].section = worker[w].section
            /\ DOMAIN worker'[w].batch = Held(w) \ {d}
            /\ \A e \in Held(w) \ {d} : worker'[w].batch[e] = worker[w].batch[e]
            /\ worker'[w].retry = FALSE /\ worker'[w].again = worker[w].again
            /\ Others(w) /\ Typed
            /\ row' \in [Deliveries -> Row]
            /\ \A e \in Deliveries \ {d} : row'[e] = row[e]
            /\ row'[d].kind = row[d].kind
            /\ row'[d].status \in IF worker[w].retry THEN {"PENDING", "FAILED"} ELSE {"SENT"}
<1> DEFINE d == worker[w].message
           rest == Drop(d, worker[w].batch)
           new == [worker[w] EXCEPT !.pc = "loop", !.batch = rest, !.message = None, !.to = {},
                                    !.retry = FALSE]
           left == Settled(worker[w].job, d, worker[w].batch[d].attempts + 1, worker[w].retry)
<1>1. IsRun(worker[w]) /\ worker = [v \in Workers |-> worker[v]]
  BY DEF TypeOK
<1>2. worker[w].pc = "settle" /\ d \in Held(w)
  BY DEF Carried, Knows, Settle
<1>3. d \in Deliveries /\ Held(w) \subseteq Deliveries /\ worker[w].batch[d].attempts \in Nat
  BY <1>1, <1>2 DEF IsRun, Held
<1>4. /\ DOMAIN rest = Held(w) \ {d} /\ \A e \in Held(w) \ {d} : rest[e] = worker[w].batch[e]
      /\ rest \in [Held(w) \ {d} -> [attempts : Nat, item : Item]]
  BY <1>1, DropType DEF Held
<1>5. worker' = [worker EXCEPT ![w] = new]
  BY DEF Settle
<1> HIDE DEF rest
<1>6. /\ new.pc = "loop" /\ new.message = None /\ new.job = worker[w].job
      /\ new.section = worker[w].section /\ new.batch = rest
      /\ new.retry = FALSE /\ new.again = worker[w].again
      /\ IsRun(new)
  BY <1>1, <1>3, <1>4 DEF IsRun
<1> HIDE DEF new
<1>7. worker'[w] = new /\ Others(w) /\ Typed
  BY <1>5, <1>6, OneRun DEF Others, Typed
<1>8. row \in [Deliveries -> Row] /\ row[d] \in Row /\ worker[w].retry \in BOOLEAN
  BY <1>1, <1>3 DEF TypeOK, IsRun
<1>9. /\ left \in Row /\ left.kind = row[d].kind
      /\ left.status \in IF worker[w].retry THEN {"PENDING", "FAILED"} ELSE {"SENT"}
  <2> DEFINE job == worker[w].job
             retry == worker[w].retry
             attempts == worker[w].batch[d].attempts + 1
             last == CASE job = "mail" -> attempts >= MaxAttempts
                       [] job = "hook" -> attempts > HookBackoff
                       [] job = "push" -> attempts > PushBackoff
             status == IF ~retry THEN "SENT" ELSE IF last THEN "FAILED" ELSE "PENDING"
             due == job = "mail" \/ ~retry \/ last
  <2>1. left = [row[d] EXCEPT !.attempts = attempts, !.status = status, !.due = due]
    BY DEF Settled
  <2>2. attempts \in Nat
    BY <1>3
  <2>3. status \in IF retry THEN {"PENDING", "FAILED"} ELSE {"SENT"}
    BY <1>8
  <2>4. due \in BOOLEAN
    OBVIOUS
  <2> HIDE DEF left, attempts, last, due, status
  <2> QED BY <1>8, <2>1, <2>2, <2>3, <2>4 DEF Row
<1>10. row' = [row EXCEPT ![d] = left]
  BY DEF Settle
<1> HIDE DEF left
<1>11. /\ row' \in [Deliveries -> Row] /\ row'[d] = left
       /\ \A e \in Deliveries \ {d} : row'[e] = row[e]
  BY <1>3, <1>8, <1>9, <1>10
<1> QED BY <1>2, <1>3, <1>4, <1>6, <1>7, <1>9, <1>11

LEMMA TypeKept ==
  ASSUME TypeOK, Carried, [Next]_vars
  PROVE  TypeOK'
<1> DEFINE Inside ==
      /\ row' \in [Deliveries -> Row] /\ item' \in [Deliveries -> Item]
      /\ lock' \in [Jobs -> Workers \cup {None}] /\ Typed
      /\ accepted' \in [Deliveries -> Nat] /\ late' \in [Deliveries -> Nat]
      /\ faults' \in 0..MaxFaults
<1>0. /\ row \in [Deliveries -> Row] /\ item \in [Deliveries -> Item]
      /\ lock \in [Jobs -> Workers \cup {None}]
      /\ worker = [w \in Workers |-> worker[w]] /\ \A w \in Workers : IsRun(worker[w])
      /\ accepted \in [Deliveries -> Nat] /\ late \in [Deliveries -> Nat]
      /\ faults \in 0..MaxFaults
  BY DEF TypeOK
<1>1. ASSUME UNCHANGED worker PROVE Typed
  BY <1>0, <1>1 DEF Typed
<1>2. ASSUME Aside \/ Writes \/ Ends PROVE Inside
  BY <1>0, <1>1, <1>2 DEF Aside, Writes, Ends
<1>3. ASSUME NEW w \in Workers, Begins(w) PROVE Inside
  BY <1>0, <1>3, ReadingFacts DEF Begins, Rest, Locks
<1>4. ASSUME NEW w \in Workers, Continues(w) PROVE Inside
  BY <1>0, <1>4, ReadingFacts DEF Continues, Rest
<1>5. ASSUME NEW w \in Workers, Stops(w) PROVE Inside
  <2>1. lock' \in [Jobs -> Workers \cup {None}]
    BY <1>0, <1>5 DEF Stops, Frees
  <2> QED BY <1>0, <1>5, <2>1, StopsFacts DEF Stops
<1>6. ASSUME NEW w \in Workers, TakesUp(w) PROVE Inside
  BY <1>0, <1>6, TakesFacts DEF TakesUp, Rest
<1>7. ASSUME NEW w \in Workers, PassesBy(w) PROVE Inside
  BY <1>0, <1>7, LeavesFacts DEF PassesBy
<1>8. ASSUME NEW w \in Workers, Hands(w) PROVE Inside
  <2>1. PICK ok, retry \in BOOLEAN : worker[w].pc = "send" /\ HandedOver(w, ok, retry)
    BY <1>8 DEF Hands
  <2>2. /\ Typed /\ accepted' \in [Deliveries -> Nat] /\ late' \in [Deliveries -> Nat]
    BY <2>1, HandsFacts
  <2> QED BY <1>0, <2>1, <2>2 DEF HandedOver
<1>9. ASSUME NEW w \in Workers, Settle(w) PROVE Inside
  <2>1. Typed /\ row' \in [Deliveries -> Row]
    BY <1>9, SettleFacts
  <2> QED BY <1>0, <1>9, <2>1 DEF Settle
<1>10. ASSUME NEW job \in Jobs, LockLost(job) PROVE Inside
  <2>1. lock' \in [Jobs -> Workers \cup {None}]
    BY <1>0, <1>10 DEF LockLost
  <2>2. faults' \in 0..MaxFaults
    BY <1>0, <1>10, Bounds DEF LockLost
  <2> QED BY <1>0, <1>1, <1>10, <2>1, <2>2 DEF LockLost
<1> HIDE DEF Inside
<1>11. Inside
  BY <1>2, <1>3, <1>4, <1>5, <1>6, <1>7, <1>8, <1>9, <1>10, Steps
<1> QED BY <1>11, OutsideTypes DEF Inside, TypeOK, Typed

-----------------------------------------------------------------------------
(* What a run carries *)

LEMMA HeldRows ==
  ASSUME TypeOK, NEW w \in Workers
  PROVE  Held(w) \subseteq Deliveries
  BY DEF TypeOK, IsRun, Held

\* A row that is there stays and keeps its kind; no row is taken back.
LEMMA RowsLast ==
  ASSUME TypeOK, Carried, [Next]_vars, NEW d \in Deliveries
  PROVE  /\ row[d].status # "ABSENT" => row'[d].status # "ABSENT" /\ row'[d].kind = row[d].kind
         /\ row'[d].status = "ABSENT" => row'[d] = row[d]
<1> DEFINE Goal ==
      /\ row[d].status # "ABSENT" => row'[d].status # "ABSENT" /\ row'[d].kind = row[d].kind
      /\ row'[d].status = "ABSENT" => row'[d] = row[d]
<1>1. ASSUME UNCHANGED row PROVE Goal
  BY <1>1
<1>2. ASSUME Writes PROVE Goal
  BY <1>2 DEF Writes
<1>3. ASSUME NEW w \in Workers, PassesBy(w) PROVE Goal
  <2>1. PICK e \in Held(w), status \in {"FAILED", "SKIPPED"} : Leaves(w, e, status)
    BY <1>3 DEF PassesBy
  <2>2. /\ \A f \in Deliveries \ {e} : row'[f] = row[f]
        /\ row'[e].status = status /\ row'[e].kind = row[e].kind
    BY <2>1, LeavesFacts
  <2> QED BY <2>2
<1>4. ASSUME NEW w \in Workers, Settle(w) PROVE Goal
  <2>1. /\ \A f \in Deliveries \ {worker[w].message} : row'[f] = row[f]
        /\ row'[worker[w].message].status # "ABSENT"
        /\ row'[worker[w].message].kind = row[worker[w].message].kind
    BY <1>4, SettleFacts
  <2> QED BY <2>1
<1> HIDE DEF Goal
<1>5. Goal
  BY <1>1, <1>2, <1>3, <1>4, Changes
<1> QED BY <1>5 DEF Goal

LEMMA CarriedKept ==
  ASSUME TypeOK, Carried, [Next]_vars
  PROVE  Carried'
<1>1. ASSUME NEW d \in Deliveries, row'[d].status = "ABSENT" PROVE row'[d].kind = "push"
  BY <1>1, RowsLast DEF Carried
<1>2. ASSUME NEW w \in Workers, worker'[w] = worker[w] PROVE Knows(w)'
  <2>1. Knows(w) /\ Held(w) \subseteq Deliveries
    BY HeldRows DEF Carried
  <2>2. \A d \in Held(w) : row'[d].status # "ABSENT" /\ row'[d].kind = row[d].kind
    BY <2>1, RowsLast DEF Knows
  <2> QED BY <1>2, <2>1, <2>2 DEF Knows, Held
<1> DEFINE Goal == \A w \in Workers : Knows(w)'
<1>3. ASSUME NEW w \in Workers, Others(w), Knows(w)' PROVE Goal
  BY <1>2, <1>3 DEF Others
<1>4. ASSUME UNCHANGED worker PROVE Goal
  BY <1>2, <1>4
<1> HIDE DEF Goal
<1>5. ASSUME NEW w \in Workers, NEW job, NEW kind, Reading(w, job, kind), UNCHANGED row PROVE Goal
  <2>1. Others(w) /\ IsRun(worker'[w])
    BY <1>5, ReadingFacts DEF Reading
  <2>2. Knows(w)'
    BY <1>5 DEF Reading, Knows, Held, Due
  <2> QED BY <1>3, <2>1, <2>2
<1>6. ASSUME NEW w \in Workers, Stops(w) PROVE Goal
  <2>1. worker'[w] = Idle /\ Others(w)
    BY <1>6, StopsFacts
  <2>2. DOMAIN Idle.batch = {} /\ Idle.pc = "idle" /\ ~Idle.again
    BY DEF Idle, NoMessages
  <2>3. Knows(w)'
    BY <2>1, <2>2 DEF Knows, Held
  <2> QED BY <1>3, <2>1, <2>3
<1>7. ASSUME NEW w \in Workers, TakesUp(w) PROVE Goal
  <2>1. PICK d \in Held(w), to \in SUBSET Devices :
          UNCHANGED row /\ worker[w].pc = "loop" /\ Takes(w, d, to)
    BY <1>7 DEF TakesUp, Rest
  <2>2. Knows(w)
    BY DEF Carried
  <2>3. /\ worker'[w].pc = "send" /\ worker'[w].message = d
        /\ worker'[w].job = worker[w].job /\ worker'[w].section = worker[w].section
        /\ worker'[w].batch = worker[w].batch /\ worker'[w].again = worker[w].again
        /\ Others(w)
    BY <2>1, TakesFacts
  <2>4. Knows(w)'
    BY <2>1, <2>2, <2>3 DEF Knows, Held
  <2> QED BY <1>3, <2>3, <2>4
<1>8. ASSUME NEW w \in Workers, PassesBy(w) PROVE Goal
  <2>1. PICK d \in Held(w), status \in {"FAILED", "SKIPPED"} :
          worker[w].pc = "loop" /\ Leaves(w, d, status)
    BY <1>8 DEF PassesBy
  <2>2. Knows(w) /\ Held(w) \subseteq Deliveries
    BY HeldRows DEF Carried
  <2>3. /\ worker'[w].pc = worker[w].pc /\ worker'[w].message = worker[w].message
        /\ worker'[w].job = worker[w].job /\ worker'[w].section = worker[w].section
        /\ DOMAIN worker'[w].batch = Held(w) \ {d}
        /\ worker'[w].again = worker[w].again
        /\ Others(w)
    BY <2>1, LeavesFacts
  <2>4. \A e \in Held(w) : row'[e].status # "ABSENT" /\ row'[e].kind = row[e].kind
    BY <2>2, RowsLast DEF Knows
  <2>5. Knows(w)'
    BY <2>1, <2>2, <2>3, <2>4 DEF Knows, Held
  <2> QED BY <1>3, <2>3, <2>5
<1>9. ASSUME NEW w \in Workers, Hands(w) PROVE Goal
  <2>1. PICK ok, retry \in BOOLEAN : worker[w].pc = "send" /\ HandedOver(w, ok, retry)
    BY <1>9 DEF Hands
  <2>2. Knows(w) /\ UNCHANGED row
    BY <2>1 DEF Carried, HandedOver
  <2>3. /\ worker'[w].pc = "settle" /\ worker'[w].message = worker[w].message
        /\ worker'[w].job = worker[w].job /\ worker'[w].section = worker[w].section
        /\ worker'[w].batch = worker[w].batch /\ worker'[w].again = worker[w].again
        /\ Others(w)
    BY <2>1, HandsFacts
  <2>4. Knows(w)'
    BY <2>1, <2>2, <2>3 DEF Knows, Held
  <2> QED BY <1>3, <2>3, <2>4
<1>10. ASSUME NEW w \in Workers, Settle(w) PROVE Goal
  <2>1. Knows(w) /\ Held(w) \subseteq Deliveries
    BY HeldRows DEF Carried
  <2>2. /\ worker[w].pc = "settle" /\ worker'[w].pc = "loop" /\ worker'[w].message = None
        /\ worker'[w].job = worker[w].job /\ worker'[w].section = worker[w].section
        /\ DOMAIN worker'[w].batch = Held(w) \ {worker[w].message}
        /\ worker'[w].again = worker[w].again
        /\ Others(w)
    BY <1>10, SettleFacts
  <2>3. \A e \in Held(w) : row'[e].status # "ABSENT" /\ row'[e].kind = row[e].kind
    BY <2>1, RowsLast DEF Knows
  <2>4. Knows(w)'
    BY <2>1, <2>2, <2>3 DEF Knows, Held
  <2> QED BY <1>3, <2>2, <2>4
<1>11. ASSUME NEW w \in Workers, Begins(w) \/ Continues(w) PROVE Goal
  BY <1>5, <1>11 DEF Begins, Continues, Rest
<1>12. Goal
  BY <1>4, <1>6, <1>7, <1>8, <1>9, <1>10, <1>11, Steps DEF Aside, Writes, Ends, LockLost
<1> QED BY <1>1, <1>12 DEF Goal, Carried

-----------------------------------------------------------------------------
(* The locks *)

LEMMA Fewer ==
  ASSUME NEW T \in SUBSET Workers, NEW S \in SUBSET T
  PROVE  /\ Cardinality(S) \in Nat /\ Cardinality(T) \in Nat
         /\ Cardinality(S) <= Cardinality(T)
<1>1. IsFiniteSet(T)
  BY Finitely, FS_Subset
<1>2. IsFiniteSet(S) /\ Cardinality(S) <= Cardinality(T)
  BY <1>1, FS_Subset
<1> QED BY <1>1, <1>2, FS_CardinalityType

LEMMA OneLess ==
  ASSUME NEW T \in SUBSET Workers, NEW w \in T, NEW S \in SUBSET (T \ {w})
  PROVE  Cardinality(S) \in Nat /\ Cardinality(T) \in Nat /\ Cardinality(S) + 1 <= Cardinality(T)
<1>1. IsFiniteSet(T)
  BY Finitely, FS_Subset
<1>2. Cardinality(T \ {w}) = Cardinality(T) - 1
  BY <1>1, FS_RemoveElement
<1>3. Cardinality(S) \in Nat /\ Cardinality(T \ {w}) \in Nat /\ Cardinality(S) <= Cardinality(T \ {w})
  BY Fewer
<1>4. Cardinality(T) \in Nat
  BY <1>1, FS_CardinalityType
<1> QED BY <1>2, <1>3, <1>4

LEMMA OneMore ==
  ASSUME NEW T \in SUBSET Workers, NEW w \in Workers, NEW S \in SUBSET (T \cup {w})
  PROVE  Cardinality(S) \in Nat /\ Cardinality(T) \in Nat /\ Cardinality(S) <= Cardinality(T) + 1
<1>1. IsFiniteSet(T)
  BY Finitely, FS_Subset
<1>2. /\ Cardinality(T \cup {w}) \in {Cardinality(T), Cardinality(T) + 1}
  BY <1>1, FS_AddElement
<1>3. Cardinality(S) \in Nat /\ Cardinality(T \cup {w}) \in Nat /\ Cardinality(S) <= Cardinality(T \cup {w})
  <2>1. T \cup {w} \in SUBSET Workers
    OBVIOUS
  <2> QED BY <2>1, Fewer
<1>4. Cardinality(T) \in Nat
  BY <1>1, FS_CardinalityType
<1> QED BY <1>2, <1>3, <1>4

\* A run keeps its job from its first batch to its end.
SameJobs == \A v \in Workers : worker'[v].job = worker[v].job

LEMMA JobsStay ==
  ASSUME TypeOK, Carried, [Next]_vars
  PROVE  \/ SameJobs /\ UNCHANGED lock /\ UNCHANGED faults
         \/ \E w \in Workers : Begins(w) \/ Stops(w)
         \/ \E job \in Jobs : LockLost(job)
<1> DEFINE Goal == SameJobs /\ UNCHANGED lock /\ UNCHANGED faults
<1>1. ASSUME UNCHANGED worker, UNCHANGED lock, UNCHANGED faults PROVE Goal
  BY <1>1 DEF SameJobs
<1>2. ASSUME NEW w \in Workers, Others(w), worker'[w].job = worker[w].job,
             UNCHANGED lock, UNCHANGED faults
      PROVE  Goal
  BY <1>2 DEF SameJobs, Others
<1> HIDE DEF Goal
<1>3. ASSUME NEW w \in Workers, Continues(w) PROVE Goal
  <2>1. PICK kind \in Kinds : Reading(w, worker[w].job, kind)
    BY <1>3 DEF Continues
  <2>2. Others(w) /\ worker'[w].job = worker[w].job
    BY <2>1, ReadingFacts DEF Reading
  <2> QED BY <1>2, <1>3, <2>2 DEF Continues, Rest
<1>4. ASSUME NEW w \in Workers, TakesUp(w) PROVE Goal
  <2>1. Others(w) /\ worker'[w].job = worker[w].job
    BY <1>4, TakesFacts DEF TakesUp
  <2> QED BY <1>2, <1>4, <2>1 DEF TakesUp, Rest
<1>5. ASSUME NEW w \in Workers, PassesBy(w) PROVE Goal
  <2>1. Others(w) /\ worker'[w].job = worker[w].job
    BY <1>5, LeavesFacts DEF PassesBy
  <2> QED BY <1>2, <1>5, <2>1 DEF PassesBy
<1>6. ASSUME NEW w \in Workers, Hands(w) PROVE Goal
  <2>1. PICK ok, retry \in BOOLEAN : worker[w].pc = "send" /\ HandedOver(w, ok, retry)
    BY <1>6 DEF Hands
  <2>2. Others(w) /\ worker'[w].job = worker[w].job
    BY <2>1, HandsFacts
  <2> QED BY <1>2, <2>1, <2>2 DEF HandedOver
<1>7. ASSUME NEW w \in Workers, Settle(w) PROVE Goal
  <2>1. Others(w) /\ worker'[w].job = worker[w].job
    BY <1>7, SettleFacts
  <2> QED BY <1>2, <1>7, <2>1 DEF Settle
<1>8. ASSUME Aside \/ Writes \/ Ends PROVE Goal
  BY <1>1, <1>8 DEF Aside, Writes, Ends
<1>9. \/ Goal
      \/ \E w \in Workers : Begins(w) \/ Stops(w)
      \/ \E job \in Jobs : LockLost(job)
  BY <1>3, <1>4, <1>5, <1>6, <1>7, <1>8, Steps
<1> QED BY <1>9 DEF Goal

LEMMA LockedKept ==
  ASSUME TypeOK, Carried, Locked, [Next]_vars
  PROVE  Locked'
<1>0. faults \in Nat /\ lock \in [Jobs -> Workers \cup {None}]
  BY Bounds DEF TypeOK
<1>a. None \notin Workers /\ None \notin Jobs
  BY NothingIsNobody
<1>b. \A w \in Workers : worker[w].pc = "idle" => worker[w].job = None
  BY DEF Carried, Knows, Idle
<1> SUFFICES ASSUME NEW job \in Jobs
             PROVE  /\ lock'[job] # None => worker'[lock'[job]].job = job
                    /\ Cardinality(Astray(job)') <= faults'
  BY DEF Locked
<1> DEFINE Goal ==
      /\ lock'[job] # None => worker'[lock'[job]].job = job
      /\ Cardinality(Astray(job)') <= faults'
<1>1. Astray(job) \in SUBSET Workers /\ Cardinality(Astray(job)) <= faults
  BY DEF Locked, Astray
<1>2. ASSUME lock'[job] # None => worker'[lock'[job]].job = job,
             Astray(job)' \subseteq Astray(job), faults' \in Nat, faults' >= faults
      PROVE  Goal
  <2>1. Cardinality(Astray(job)') <= Cardinality(Astray(job))
        /\ Cardinality(Astray(job)') \in Nat /\ Cardinality(Astray(job)) \in Nat
    BY <1>1, <1>2, Fewer
  <2> QED BY <1>0, <1>1, <1>2, <2>1
<1>3. lock[job] # None => lock[job] \in Workers /\ worker[lock[job]].job = job
  BY <1>0 DEF Locked
<1> HIDE DEF Goal
<1>4. ASSUME SameJobs, UNCHANGED lock, UNCHANGED faults PROVE Goal
  BY <1>0, <1>2, <1>3, <1>4 DEF SameJobs, Astray
<1>5. ASSUME NEW w \in Workers, Begins(w) PROVE Goal
  <2>1. PICK j \in Jobs, kind \in Kinds :
          UNCHANGED faults /\ worker[w].pc = "idle" /\ Locks(w, j) /\ Reading(w, j, kind)
    BY <1>5 DEF Begins, Rest
  <2>2. worker'[w].job = j /\ Others(w)
    BY <2>1, ReadingFacts DEF Reading
  <2>3. lock[j] = None /\ lock'[j] = w /\ \A i \in Jobs : i # j => lock'[i] = lock[i]
    BY <1>0, <2>1 DEF Locks
  <2>4. worker[w].job = None
    BY <1>b, <2>1
  <2>5. lock'[job] # None => worker'[lock'[job]].job = job
    <3>1. CASE job = j
      BY <2>2, <2>3, <3>1
    <3>2. CASE job # j
      BY <1>3, <1>a, <2>2, <2>3, <2>4, <3>2 DEF Others
    <3> QED BY <3>1, <3>2
  <2>6. ASSUME NEW v \in Astray(job)' PROVE v \in Astray(job)
    BY <1>a, <2>2, <2>3 DEF Astray, Others
  <2> QED BY <1>0, <1>2, <2>1, <2>5, <2>6
<1>6. ASSUME NEW w \in Workers, Stops(w) PROVE Goal
  <2>1. worker'[w].job = None /\ Others(w)
    BY <1>6, StopsFacts DEF Idle
  <2>2. faults' \in Nat /\ faults' >= faults
    BY <1>0, <1>6 DEF Stops
  <2>3. /\ lock[job] = w => lock'[job] = None
        /\ lock[job] # w => lock'[job] = lock[job]
    <3>1. worker[w].job \in Jobs
      BY <1>6 DEF Stops, Carried, Knows
    <3>2. lock[job] = w => worker[w].job = job
      BY <1>3, <1>a
    <3>3. lock' = IF lock[worker[w].job] = w THEN [lock EXCEPT ![worker[w].job] = None] ELSE lock
      BY <1>6 DEF Stops, Frees
    <3> QED BY <1>0, <3>1, <3>2, <3>3
  <2>4. lock'[job] # None => worker'[lock'[job]].job = job
    BY <1>3, <2>1, <2>3 DEF Others
  <2>5. ASSUME NEW v \in Astray(job)' PROVE v \in Astray(job)
    BY <1>a, <2>1, <2>3 DEF Astray, Others
  <2> QED BY <1>2, <2>2, <2>4, <2>5
<1>7. ASSUME NEW j \in Jobs, LockLost(j) PROVE Goal
  <2>1. /\ lock[j] # None /\ lock'[j] = None /\ \A i \in Jobs : i # j => lock'[i] = lock[i]
        /\ faults' = faults + 1 /\ UNCHANGED worker
    BY <1>0, <1>7 DEF LockLost
  <2>2. CASE job # j
    BY <1>0, <1>2, <1>3, <2>1, <2>2 DEF Astray
  <2>3. CASE job = j
    <3>1. Astray(job)' \subseteq Astray(job) \cup {lock[job]}
      BY <2>1 DEF Astray
    <3>2. lock[job] \in Workers
      BY <1>3, <2>1, <2>3
    <3>3. Cardinality(Astray(job)') <= Cardinality(Astray(job)) + 1
          /\ Cardinality(Astray(job)') \in Nat /\ Cardinality(Astray(job)) \in Nat
      BY <1>1, <3>1, <3>2, OneMore
    <3> QED BY <1>0, <1>1, <2>1, <2>3, <3>3 DEF Goal
  <2> QED BY <2>2, <2>3
<1>8. Goal
  <2>1. \/ SameJobs /\ UNCHANGED lock /\ UNCHANGED faults
        \/ \E w \in Workers : Begins(w) \/ Stops(w)
        \/ \E j \in Jobs : LockLost(j)
    BY JobsStay
  <2> QED BY <1>4, <1>5, <1>6, <1>7, <2>1
<1> QED BY <1>8 DEF Goal

-----------------------------------------------------------------------------
(* What is marked as sent was taken *)

LEMMA AcceptedGrows ==
  ASSUME TypeOK, Carried, [Next]_vars, NEW d \in Deliveries
  PROVE  accepted[d] \in Nat /\ accepted'[d] \in Nat /\ accepted'[d] >= accepted[d]
<1>0. accepted[d] \in Nat
  BY DEF TypeOK
<1>1. CASE UNCHANGED accepted
  BY <1>0, <1>1
<1>2. ASSUME NEW w \in Workers, Hands(w)
      PROVE  accepted'[d] \in Nat /\ accepted'[d] >= accepted[d]
  <2>1. PICK ok, retry \in BOOLEAN : worker[w].pc = "send" /\ HandedOver(w, ok, retry)
    BY <1>2 DEF Hands
  <2> DEFINE e == worker[w].message
  <2>2. /\ \A f \in Deliveries \ {e} : accepted'[f] = accepted[f]
        /\ accepted'[e] = IF ok THEN accepted[e] + 1 ELSE accepted[e]
    BY <2>1, HandsFacts
  <2> HIDE DEF e
  <2> QED BY <1>0, <2>2
<1> QED BY <1>0, <1>1, <1>2, Changes

LEMMA TakenKept ==
  ASSUME TypeOK, Carried, Taken, [Next]_vars
  PROVE  Taken'
<1> DEFINE Sure(w) ==
      worker'[w].pc = "settle" /\ ~worker'[w].retry /\ worker'[w].job # "push" =>
        accepted'[worker'[w].message] > 0
<1>1. ASSUME NEW w \in Workers, worker'[w] = worker[w] PROVE Sure(w)
  <2>1. CASE worker[w].pc = "settle" /\ ~worker[w].retry /\ worker[w].job # "push"
    <3>1. worker[w].message \in Deliveries /\ accepted[worker[w].message] > 0
      BY <2>1, HeldRows DEF Taken, Carried, Knows
    <3> QED BY <1>1, <3>1, AcceptedGrows
  <2> QED BY <1>1, <2>1
<1>2. ASSUME NEW w \in Workers, Hands(w) PROVE \A v \in Workers : Sure(v)
  <2>1. PICK ok, retry \in BOOLEAN :
          /\ worker[w].pc = "send" /\ HandedOver(w, ok, retry)
          /\ worker[w].job # "push" => ok \/ retry
    BY <1>2 DEF Hands
  <2> DEFINE e == worker[w].message
  <2>2. /\ e \in Deliveries /\ accepted'[e] = IF ok THEN accepted[e] + 1 ELSE accepted[e]
        /\ worker'[w].retry = retry /\ worker'[w].job = worker[w].job /\ worker'[w].message = e
        /\ Others(w)
    BY <2>1, HandsFacts
  <2> HIDE DEF e
  <2>3. accepted[e] \in Nat
    BY <2>2 DEF TypeOK
  <2>4. Sure(w)
    BY <2>1, <2>2, <2>3
  <2> QED BY <1>1, <2>2, <2>4 DEF Others
<1>3. ASSUME NEW w \in Workers, Others(w), worker'[w].pc # "settle" PROVE \A v \in Workers : Sure(v)
  BY <1>1, <1>3 DEF Others
<1>4. ASSUME NEW w \in Workers, Begins(w) \/ Continues(w) PROVE \A v \in Workers : Sure(v)
  <2>1. PICK job, kind : Reading(w, job, kind)
    BY <1>4 DEF Begins, Continues
  <2>2. Others(w) /\ worker'[w].pc = "loop"
    BY <2>1, ReadingFacts DEF Reading
  <2> QED BY <1>3, <2>2
<1>5. ASSUME NEW w \in Workers, Stops(w) \/ TakesUp(w) \/ PassesBy(w) \/ Settle(w)
      PROVE  \A v \in Workers : Sure(v)
  <2>1. CASE Stops(w)
    BY <1>3, <2>1, StopsFacts DEF Idle
  <2>2. CASE TakesUp(w)
    BY <1>3, <2>2, TakesFacts DEF TakesUp
  <2>3. CASE PassesBy(w)
    BY <1>3, <2>3, LeavesFacts DEF PassesBy
  <2>4. CASE Settle(w)
    BY <1>3, <2>4, SettleFacts
  <2> QED BY <1>5, <2>1, <2>2, <2>3, <2>4
<1>6. ASSUME UNCHANGED worker PROVE \A v \in Workers : Sure(v)
  BY <1>1, <1>6
<1> HIDE DEF Sure
<1>7. \A v \in Workers : Sure(v)
  BY <1>2, <1>4, <1>5, <1>6, Steps DEF Aside, Writes, Ends, LockLost
<1> DEFINE Marked(d) == row'[d].status = "SENT" /\ row'[d].kind # "push" => accepted'[d] > 0
<1>8. ASSUME NEW d \in Deliveries, row'[d] = row[d] PROVE Marked(d)
  BY <1>8, AcceptedGrows DEF Taken, SentWasTaken
<1>9. ASSUME NEW d \in Deliveries, row'[d].status # "SENT" PROVE Marked(d)
  BY <1>9
<1> HIDE DEF Marked
<1>10. ASSUME NEW w \in Workers, Settle(w) PROVE \A d \in Deliveries : Marked(d)
  <2> DEFINE e == worker[w].message
  <2>1. /\ worker[w].pc = "settle" /\ e \in Held(w) /\ e \in Deliveries
        /\ \A f \in Deliveries \ {e} : row'[f] = row[f]
        /\ row'[e].kind = row[e].kind
        /\ row'[e].status \in IF worker[w].retry THEN {"PENDING", "FAILED"} ELSE {"SENT"}
    BY <1>10, SettleFacts
  <2> HIDE DEF e
  <2>2. CASE worker[w].retry
    BY <1>8, <1>9, <2>1, <2>2
  <2>3. CASE ~worker[w].retry
    <3>1. row[e].kind = worker[w].section /\ row[e].kind \in Kinds
          /\ worker[w].job = JobOf(worker[w].section)
      BY <2>1 DEF Carried, Knows, TypeOK, Row
    <3>2. row[e].kind # "push" => accepted[e] > 0
      BY <2>1, <2>3, <3>1, JobOfKinds DEF Taken, e
    <3>3. Marked(e)
      BY <2>1, <3>2, AcceptedGrows DEF Marked
    <3> QED BY <1>8, <2>1, <3>3
  <2> QED BY <2>2, <2>3
<1>11. ASSUME NEW w \in Workers, PassesBy(w) PROVE \A d \in Deliveries : Marked(d)
  <2>1. PICK e \in Held(w), status \in {"FAILED", "SKIPPED"} : Leaves(w, e, status)
    BY <1>11 DEF PassesBy
  <2>2. row'[e].status = status /\ \A f \in Deliveries \ {e} : row'[f] = row[f]
    BY <2>1, LeavesFacts
  <2> QED BY <1>8, <1>9, <2>2
<1>12. ASSUME Writes PROVE \A d \in Deliveries : Marked(d)
  BY <1>8, <1>9, <1>12 DEF Writes
<1>13. ASSUME UNCHANGED row PROVE \A d \in Deliveries : Marked(d)
  BY <1>8, <1>13
<1>14. \A d \in Deliveries : Marked(d)
  BY <1>10, <1>11, <1>12, <1>13, Changes
<1> QED BY <1>7, <1>14 DEF Sure, Marked, Taken, SentWasTaken

-----------------------------------------------------------------------------
(* A notice is taken once *)

\* Until a fault, a job has one run, the one with its lock.
LEMMA Alone ==
  ASSUME TypeOK, Locked, faults = 0, NEW job \in Jobs, NEW w \in Workers, worker[w].job = job
  PROVE  lock[job] = w
<1>1. Astray(job) \in SUBSET Workers /\ Cardinality(Astray(job)) <= 0
  BY DEF Locked, Astray
<1>2. Cardinality(Astray(job)) = 0 /\ IsFiniteSet(Astray(job))
  BY <1>1, Fewer, Finitely, FS_Subset
<1>3. Astray(job) = {}
  BY <1>2, FS_EmptySet
<1> QED BY <1>3 DEF Astray

LEMMA FaultsGrow ==
  ASSUME TypeOK, Carried, [Next]_vars, faults' = 0
  PROVE  faults = 0
<1>1. faults \in Nat
  BY Bounds DEF TypeOK
<1>2. faults' \in {faults, faults + 1}
  BY JobsStay DEF Begins, Stops, LockLost, Rest
<1> QED BY <1>1, <1>2

\* Nothing that the clause of a notice asks about changes.
LEMMA OnceUntouched ==
  ASSUME NEW d \in Deliveries, Once(d), row'[d].kind = row[d].kind, row'[d].status = row[d].status,
         accepted'[d] = accepted[d],
         \A v \in Workers :
           /\ d \in Held(v)' <=> d \in Held(v)
           /\ d \in Held(v) => (Closing(v, d)' <=> Closing(v, d))
  PROVE  Once(d)'
  BY DEF Once

\* One run does something that is not about the notice.
LEMMA OnceAside ==
  ASSUME NEW d \in Deliveries, Once(d), row'[d].kind = row[d].kind, row'[d].status = row[d].status,
         accepted'[d] = accepted[d], NEW w \in Workers, Others(w),
         d \in Held(w)' <=> d \in Held(w),
         d \in Held(w) => (Closing(w, d)' <=> Closing(w, d))
  PROVE  Once(d)'
<1>1. ASSUME NEW v \in Workers, v # w
      PROVE  (d \in Held(v)' <=> d \in Held(v)) /\ (Closing(v, d)' <=> Closing(v, d))
  BY <1>1 DEF Others, Held, Closing
<1> QED BY <1>1, OnceUntouched

\* What a run reads was not taken, or another run of the job would be going on.
LEMMA OnceRead ==
  ASSUME TypeOK, Carried, Locked, faults = 0, NEW w \in Workers, NEW job, NEW kind,
         Reading(w, job, kind), UNCHANGED Rest, Held(w) = {},
         lock[job] = None \/ (worker[w].job = job /\ worker[w].pc = "loop"),
         NEW d \in Deliveries, Once(d)
  PROVE  Once(d)'
<1>1. /\ job \in Jobs /\ kind \in Kinds /\ JobOf(kind) = job /\ worker'[w].pc = "loop" /\ Others(w)
      /\ \A e \in Held(w)' : e \in Due(kind)
  BY ReadingFacts DEF Reading, Held
<1>2. CASE d \notin Held(w)'
  BY <1>1, <1>2, OnceAside DEF Rest
<1>3. CASE d \in Held(w)' /\ row[d].kind = "push"
  <2>1. row[d].status = "PENDING" /\ kind = "push" /\ job = "push"
    BY <1>1, <1>3, JobOfKinds DEF Due
  <2>2. ASSUME NEW v \in Workers, d \in Held(v) PROVE worker[v].job = "push"
    BY <1>3, <2>2, JobOfKinds DEF Carried, Knows, Idle, NoMessages, Held
  <2>3. ASSUME NEW v \in Workers, d \in Held(v) PROVE FALSE
    <3>1. lock[job] = v
      BY <1>1, <2>1, <2>2, <2>3, Alone
    <3>2. lock[job] # None
      BY <3>1, NothingIsNobody
    <3>3. lock[job] = w
      BY <1>1, <3>2, Alone
    <3> QED BY <2>3, <3>1, <3>3
  <2>4. accepted[d] = 0
    BY <1>3, <2>1, <2>3 DEF Once
  <2>5. row'[d] = row[d] /\ accepted'[d] = 0
    BY <2>4 DEF Rest
  <2>6. \A v \in Workers : accepted'[d] = 0 /\ row'[d].status = "PENDING"
    BY <2>1, <2>5
  <2> QED BY <2>5, <2>6 DEF Once
<1>4. CASE row[d].kind # "push"
  BY <1>4 DEF Once, Rest
<1> QED BY <1>2, <1>3, <1>4

LEMMA PushedKept ==
  ASSUME TypeOK, Carried, Locked, Pushed, [Next]_vars
  PROVE  Pushed'
<1> SUFFICES ASSUME faults' = 0, NEW d \in Deliveries PROVE Once(d)'
  BY DEF Pushed
<1>0. faults = 0
  BY FaultsGrow
<1>a. \A e \in Deliveries : Once(e)
  BY <1>0 DEF Pushed
<1>b. ASSUME NEW v \in Workers, NEW w \in Workers, NEW e \in Deliveries, row[e].kind = "push",
             e \in Held(v), e \in Held(w)
      PROVE  v = w
  <2>1. worker[v].job = "push" /\ worker[w].job = "push"
    BY <1>b, JobOfKinds DEF Carried, Knows, Idle, NoMessages, Held
  <2>2. "push" \in Jobs
    BY DEF Jobs
  <2> QED BY <1>0, <2>1, <2>2, Alone
<1>1. ASSUME UNCHANGED worker, UNCHANGED accepted, row'[d].kind = row[d].kind,
             row'[d].status = row[d].status
      PROVE  Once(d)'
  BY <1>a, <1>1, OnceUntouched DEF Held, Closing
<1>2. ASSUME Writes PROVE Once(d)'
  <2>1. CASE row'[d] = row[d]
    BY <1>1, <1>2, <2>1 DEF Writes
  <2>2. CASE row[d].status = "ABSENT" /\ row'[d].status = "PENDING"
    <3>1. \A v \in Workers : d \notin Held(v)
      BY <2>2 DEF Carried, Knows
    <3>2. accepted[d] = 0
      BY <1>a, <2>2, <3>1 DEF Carried, Once
    <3>3. accepted'[d] = 0 /\ \A v \in Workers : d \notin Held(v)'
      BY <1>2, <3>1, <3>2 DEF Writes, Held
    <3> QED BY <3>3 DEF Once
  <2>3. CASE row'[d].status = "PENDING" /\ row'[d].kind = row[d].kind /\ row[d].status = "PENDING"
    BY <1>1, <1>2, <2>3 DEF Writes
  <2>4. CASE row'[d].kind = row[d].kind /\ row[d].kind = "invitation"
    BY <2>4 DEF Once
  <2> QED BY <1>2, <2>1, <2>2, <2>3, <2>4 DEF Writes
<1>3. ASSUME NEW w \in Workers, Begins(w) PROVE Once(d)'
  <2>1. PICK job \in Jobs, kind \in Kinds :
          UNCHANGED Rest /\ worker[w].pc = "idle" /\ Locks(w, job) /\ Reading(w, job, kind)
    BY <1>3 DEF Begins
  <2>2. Held(w) = {}
    BY <2>1 DEF Carried, Knows, Idle, NoMessages, Held
  <2> QED BY <1>0, <1>a, <2>1, <2>2, OnceRead DEF Locks
<1>4. ASSUME NEW w \in Workers, Continues(w) PROVE Once(d)'
  BY <1>0, <1>a, <1>4, OnceRead DEF Continues
<1>5. ASSUME NEW w \in Workers, Stops(w) PROVE Once(d)'
  <2>1. Held(w) = {} /\ UNCHANGED row /\ UNCHANGED accepted
    BY <1>0, <1>5 DEF Stops
  <2>2. Others(w) /\ Held(w)' = {}
    BY <1>5, StopsFacts DEF Idle, NoMessages, Held
  <2> QED BY <1>a, <2>1, <2>2, OnceAside
<1>6. ASSUME NEW w \in Workers, TakesUp(w) PROVE Once(d)'
  <2>1. PICK e \in Held(w), to \in SUBSET Devices :
          UNCHANGED Rest /\ worker[w].pc = "loop" /\ Takes(w, e, to)
    BY <1>6 DEF TakesUp
  <2>2. worker'[w].pc = "send" /\ worker'[w].batch = worker[w].batch /\ Others(w)
    BY <2>1, TakesFacts
  <2>3. Held(w)' = Held(w) /\ ~Closing(w, d) /\ ~Closing(w, d)'
    BY <2>1, <2>2 DEF Held, Closing
  <2> QED BY <1>a, <2>1, <2>2, <2>3, OnceAside DEF Rest
<1>7. ASSUME NEW w \in Workers, PassesBy(w) PROVE Once(d)'
  <2>1. PICK e \in Held(w), status \in {"FAILED", "SKIPPED"} :
          /\ UNCHANGED accepted
          /\ worker[w].pc = "loop" /\ worker[w].job # "push" /\ Leaves(w, e, status)
    BY <1>7 DEF PassesBy
  <2>2. /\ worker'[w].pc = "loop" /\ Held(w)' = Held(w) \ {e} /\ Others(w) /\ e \in Deliveries
        /\ \A f \in Deliveries \ {e} : row'[f] = row[f]
        /\ row'[e].kind = row[e].kind
    BY <2>1, LeavesFacts DEF Held
  <2>3. CASE d = e
    <3>1. row[e].kind # "push"
      BY <2>1, JobOfKinds DEF Carried, Knows
    <3> QED BY <2>2, <2>3, <3>1 DEF Once
  <2>4. CASE d # e
    <3>1. ~Closing(w, d) /\ ~Closing(w, d)'
      BY <2>1, <2>2 DEF Closing
    <3>2. row'[d] = row[d] /\ accepted'[d] = accepted[d] /\ (d \in Held(w)' <=> d \in Held(w))
      BY <2>1, <2>2, <2>4
    <3> QED BY <1>a, <2>2, <3>1, <3>2, OnceAside
  <2> QED BY <2>3, <2>4
<1>8. ASSUME NEW w \in Workers, Hands(w) PROVE Once(d)'
  <2>1. PICK ok, retry \in BOOLEAN :
          /\ worker[w].pc = "send" /\ HandedOver(w, ok, retry)
          /\ worker[w].job = "push" => ~ok \/ ~retry
    BY <1>8 DEF Hands
  <2> DEFINE e == worker[w].message
  <2>2. /\ worker'[w].pc = "settle" /\ worker'[w].message = e /\ worker'[w].retry = retry
        /\ Held(w)' = Held(w) /\ e \in Held(w) /\ e \in Deliveries /\ Others(w)
        /\ \A f \in Deliveries \ {e} : accepted'[f] = accepted[f]
        /\ accepted'[e] = IF ok THEN accepted[e] + 1 ELSE accepted[e]
    BY <2>1, HandsFacts DEF Held
  <2>3. UNCHANGED row
    BY <2>1 DEF HandedOver
  <2> HIDE DEF e
  <2>4. CASE d # e
    <3>1. ~Closing(w, d) /\ ~Closing(w, d)'
      BY <2>1, <2>2, <2>4 DEF Closing
    <3> QED BY <1>a, <2>2, <2>3, <2>4, <3>1, OnceAside
  <2>5. CASE d = e /\ row[e].kind = "push"
    <3>1. accepted[e] = 0 /\ row[e].status = "PENDING"
      BY <1>a, <2>1, <2>2, <2>5 DEF Once, Closing
    <3>2. worker[w].job = "push"
      BY <2>1, <2>2, <2>5, JobOfKinds DEF Carried, Knows
    <3>3. CASE ~ok
      <4>1. accepted'[d] = 0 /\ row'[d] = row[d]
        BY <2>2, <2>3, <2>5, <3>1, <3>3
      <4> QED BY <2>5, <3>1, <4>1 DEF Once
    <3>4. CASE ok
      <4>1. accepted'[d] = 1 /\ row'[d] = row[d] /\ d \in Held(w)'
        BY <2>2, <2>3, <2>5, <3>1, <3>4
      <4>2. Closing(w, d)'
        BY <2>1, <2>2, <2>5, <3>2, <3>4 DEF Closing
      <4>3. \A v \in Workers : d \in Held(v)' => v = w
        BY <1>b, <2>2, <2>5 DEF Others, Held
      <4> QED BY <2>5, <3>1, <4>1, <4>2, <4>3 DEF Once
    <3> QED BY <3>3, <3>4
  <2>6. CASE d = e /\ row[e].kind # "push"
    BY <2>3, <2>6 DEF Once
  <2> QED BY <2>4, <2>5, <2>6
<1>9. ASSUME NEW w \in Workers, Settle(w) PROVE Once(d)'
  <2> DEFINE e == worker[w].message
  <2>1. /\ worker[w].pc = "settle" /\ e \in Held(w) /\ e \in Deliveries
        /\ worker'[w].pc = "loop" /\ Held(w)' = Held(w) \ {e} /\ Others(w)
        /\ \A f \in Deliveries \ {e} : row'[f] = row[f]
        /\ row'[e].kind = row[e].kind
        /\ row'[e].status \in IF worker[w].retry THEN {"PENDING", "FAILED"} ELSE {"SENT"}
    BY <1>9, SettleFacts DEF Held
  <2>2. UNCHANGED accepted
    BY <1>9 DEF Settle
  <2>3. CASE d # e
    <3>1. ~Closing(w, d) /\ ~Closing(w, d)'
      BY <2>1, <2>3 DEF Closing
    <3> QED BY <1>a, <2>1, <2>2, <2>3, <3>1, OnceAside
  <2>4. CASE d = e /\ row[e].kind = "push"
    <3>1. \A v \in Workers : e \notin Held(v)'
      BY <1>b, <2>1, <2>4 DEF Others, Held
    <3>2. accepted[e] \in {0, 1} /\ (worker[w].retry => accepted[e] = 0)
      BY <1>a, <2>1, <2>4 DEF Once, Closing
    <3>3. accepted'[e] \in {0, 1} /\ (accepted'[e] = 0 \/ row'[e].status = "SENT")
      BY <2>1, <2>2, <3>2
    <3> HIDE DEF e
    <3> QED BY <2>4, <3>1, <3>3 DEF Once
  <2>5. CASE d = e /\ row[e].kind # "push"
    BY <2>1, <2>5 DEF Once
  <2> QED BY <2>3, <2>4, <2>5
<1>10. ASSUME NEW job \in Jobs, LockLost(job) PROVE Once(d)'
  BY <1>1, <1>10 DEF LockLost
<1>11. ASSUME Aside \/ Ends PROVE Once(d)'
  BY <1>1, <1>11 DEF Aside, Ends
<1> QED BY <1>2, <1>3, <1>4, <1>5, <1>6, <1>7, <1>8, <1>9, <1>10, <1>11, Steps

-----------------------------------------------------------------------------
(* Mails that are too late *)

\* What is over stays over.
LEMMA UselessStays ==
  ASSUME TypeOK, Carried, [Next]_vars, NEW d \in Deliveries, Useless(d)
  PROVE  Useless(d)'
<1>1. row[d].kind \in Mails /\ row[d].status # "ABSENT"
  BY MailKinds DEF Useless, Carried
<1>2. row'[d].kind = row[d].kind
  <2>1. row[d].status # "ABSENT" => row'[d].status # "ABSENT" /\ row'[d].kind = row[d].kind
    BY RowsLast
  <2> QED BY <1>1, <2>1
<1>3. (item'[d].open => item[d].open) /\ (item'[d].data => item[d].data)
  BY Changes DEF Ends
<1> QED BY <1>1, <1>2, <1>3 DEF Useless

\* All runs of a job but one have lost its lock.
LEMMA Crowd ==
  ASSUME NEW A \in SUBSET Workers, NEW l, NEW n \in Nat, Cardinality(A) <= n,
         NEW T \in SUBSET Workers, T \subseteq A \cup {l}
  PROVE  Cardinality(T) \in Nat /\ Cardinality(T) <= 1 + n
<1>1. CASE l \in Workers
  <2>1. T \in SUBSET (A \cup {l})
    OBVIOUS
  <2>2. Cardinality(T) \in Nat /\ Cardinality(A) \in Nat /\ Cardinality(T) <= Cardinality(A) + 1
    BY <1>1, <2>1, OneMore
  <2> QED BY <2>2
<1>2. CASE l \notin Workers
  <2>1. T \in SUBSET A
    BY <1>2
  <2>2. Cardinality(T) \in Nat /\ Cardinality(A) \in Nat /\ Cardinality(T) <= Cardinality(A)
    BY <2>1, Fewer
  <2> QED BY <2>2
<1> QED BY <1>1, <1>2

\* A verdict on less is not better.
LEMMA WorseVerdict ==
  ASSUME NEW kind, NEW seen, NEW is, NEW was, is.data => was.data,
         MailVerdict(kind, seen, is) = "SEND"
  PROVE  MailVerdict(kind, seen, was) = "SEND"
  BY DEF MailVerdict

LEMMA FreshVerdict ==
  ASSUME TypeOK, NEW d \in Deliveries, Useless(d)
  PROVE  MailVerdict(row[d].kind, item[d], item[d]) # "SEND"
<1>1. row[d].kind \in Mails /\ item[d].open \in BOOLEAN /\ item[d].data \in BOOLEAN
  BY DEF TypeOK, Item, Useless
<1>2. CASE row[d].kind \in {"notice", "badge"}
  BY <1>1, <1>2 DEF MailVerdict, Useless
<1>3. CASE row[d].kind \notin {"notice", "badge"}
  BY <1>1, <1>3 DEF MailVerdict, Useless
<1> QED BY <1>2, <1>3

\* A run that leaves what it knows of a mail alone.
LEMMA SendsStill ==
  ASSUME TypeOK, Carried, [Next]_vars, NEW d \in Deliveries, NEW v \in Workers, Sends(v, d)',
         worker'[v].job = worker[v].job, worker'[v].section = worker[v].section,
         d \in Held(v), worker'[v].batch[d] = worker[v].batch[d],
         \/ worker[v].message # d /\ worker'[v].message # d
         \/ worker[v].message = d /\ worker'[v].message = d /\ worker[v].pc = worker'[v].pc
  PROVE  Sends(v, d)
<1>1. item'[d].data => item[d].data
  BY Changes DEF Ends
<1>2. worker[v].job = "mail"
  BY DEF Sends
<1>3. CASE worker[v].message # d /\ worker'[v].message # d
  <2>1. MailVerdict(worker[v].section, worker[v].batch[d].item, item'[d]) = "SEND"
    BY <1>3 DEF Sends, MailVerdict
  <2>2. MailVerdict(worker[v].section, worker[v].batch[d].item, item[d]) = "SEND"
    BY <1>1, <2>1, WorseVerdict
  <2> QED BY <1>2, <1>3, <2>2 DEF Sends
<1>4. CASE worker[v].message = d /\ worker'[v].message = d /\ worker[v].pc = worker'[v].pc
  BY <1>2, <1>4 DEF Sends
<1> QED BY <1>3, <1>4

\* Once it is over, a mail is a threat only from the runs that had read it before.
LEMMA NoNewThreat ==
  ASSUME TypeOK, Carried, [Next]_vars, NEW d \in Deliveries, Useless(d), NEW v \in Workers,
         Sends(v, d)'
  PROVE  Sends(v, d)
<1>0. None # d
  BY NothingIsNobody
<1>1. CASE worker'[v] = worker[v]
  BY <1>1, SendsStill DEF Sends, Held
<1>2. ASSUME NEW job, NEW kind, Reading(v, job, kind), UNCHANGED Rest PROVE FALSE
  <2>1. /\ worker'[v].message = None /\ worker'[v].section = kind /\ item' = item
        /\ \A e \in Held(v)' : row[e].kind = kind /\ worker'[v].batch[e].item = item[e]
    BY <1>2 DEF Reading, Held, Due, Rest
  <2>2. d \in Held(v)' /\ MailVerdict(kind, item[d], item[d]) = "SEND" /\ row[d].kind = kind
    BY <1>0, <2>1 DEF Sends, MailVerdict
  <2> QED BY <2>2, FreshVerdict
<1>3. ASSUME Stops(v) PROVE FALSE
  BY <1>3, StopsFacts, NothingIsNobody DEF Sends, Idle, Jobs
<1>4. ASSUME TakesUp(v) PROVE Sends(v, d)
  <2>1. PICK e \in Held(v), to \in SUBSET Devices :
          /\ worker[v].pc = "loop" /\ Takes(v, e, to)
          /\ worker[v].job = "mail" =>
               MailVerdict(worker[v].section, worker[v].batch[e].item, item[e]) = "SEND"
    BY <1>4 DEF TakesUp
  <2>2. /\ worker'[v].message = e /\ worker'[v].job = worker[v].job
        /\ worker'[v].section = worker[v].section /\ worker'[v].batch = worker[v].batch
    BY <2>1, TakesFacts
  <2>3. worker[v].message = None
    BY <2>1 DEF Carried, Knows
  <2>4. CASE d = e
    BY <1>0, <2>1, <2>2, <2>3, <2>4 DEF Sends
  <2>5. CASE d # e
    BY <1>0, <2>2, <2>3, <2>5, SendsStill DEF Sends, Held
  <2> QED BY <2>4, <2>5
<1>5. ASSUME PassesBy(v) PROVE Sends(v, d)
  <2>1. PICK e \in Held(v), status \in {"FAILED", "SKIPPED"} : Leaves(v, e, status)
    BY <1>5 DEF PassesBy
  <2>2. /\ worker'[v].pc = worker[v].pc /\ worker'[v].message = worker[v].message
        /\ worker'[v].job = worker[v].job /\ worker'[v].section = worker[v].section
        /\ Held(v)' = Held(v) \ {e}
        /\ \A f \in Held(v) \ {e} : worker'[v].batch[f] = worker[v].batch[f]
    BY <2>1, LeavesFacts DEF Held
  <2>3. d \in Held(v) \ {e}
    BY <2>2 DEF Sends
  <2> QED BY <2>2, <2>3, SendsStill
<1>6. ASSUME Hands(v) PROVE Sends(v, d)
  <2>1. PICK ok, retry \in BOOLEAN : worker[v].pc = "send" /\ HandedOver(v, ok, retry)
    BY <1>6 DEF Hands
  <2>2. /\ worker'[v].pc = "settle" /\ worker'[v].message = worker[v].message
        /\ worker'[v].job = worker[v].job /\ worker'[v].section = worker[v].section
        /\ worker'[v].batch = worker[v].batch
    BY <2>1, HandsFacts
  <2>3. worker[v].message # d /\ d \in Held(v)
    BY <2>2 DEF Sends, Held
  <2> QED BY <2>2, <2>3, SendsStill
<1>7. ASSUME Settle(v) PROVE Sends(v, d)
  <2>1. /\ worker'[v].message = None
        /\ worker'[v].job = worker[v].job /\ worker'[v].section = worker[v].section
        /\ Held(v)' = Held(v) \ {worker[v].message}
        /\ \A f \in Held(v) \ {worker[v].message} : worker'[v].batch[f] = worker[v].batch[f]
    BY <1>7, SettleFacts DEF Held
  <2>2. d \in Held(v) /\ d # worker[v].message
    BY <2>1 DEF Sends
  <2> QED BY <1>0, <2>1, <2>2, SendsStill
<1>8. ASSUME NEW w \in Workers, w # v, worker'[v] # worker[v] PROVE ~Others(w)
  BY <1>8 DEF Others
<1>9. CASE worker'[v] # worker[v]
  <2>1. ASSUME NEW w \in Workers,
               Begins(w) \/ Continues(w) \/ Stops(w) \/ TakesUp(w) \/ PassesBy(w) \/ Hands(w) \/ Settle(w)
        PROVE  Others(w)
    <3>1. CASE Begins(w) \/ Continues(w)
      BY <3>1, ReadingFacts DEF Begins, Continues
    <3>2. CASE Stops(w)
      BY <3>2, StopsFacts
    <3>3. CASE TakesUp(w)
      BY <3>3, TakesFacts DEF TakesUp
    <3>4. CASE PassesBy(w)
      BY <3>4, LeavesFacts DEF PassesBy
    <3>5. CASE Hands(w)
      BY <3>5, HandsFacts DEF Hands
    <3>6. CASE Settle(w)
      BY <3>6, SettleFacts
    <3> QED BY <2>1, <3>1, <3>2, <3>3, <3>4, <3>5, <3>6
  <2>2. Begins(v) \/ Continues(v) \/ Stops(v) \/ TakesUp(v) \/ PassesBy(v) \/ Hands(v) \/ Settle(v)
    BY <1>8, <1>9, <2>1, Steps DEF Aside, Writes, Ends, LockLost
  <2>3. ~Begins(v) /\ ~Continues(v)
    BY <1>2 DEF Begins, Continues
  <2> QED BY <1>3, <1>4, <1>5, <1>6, <1>7, <2>2, <2>3
<1> QED BY <1>1, <1>9

LEMMA TardyKept ==
  ASSUME TypeOK, Carried, Locked, Tardy, [Next]_vars, TypeOK', Locked'
  PROVE  Tardy'
<1> SUFFICES ASSUME NEW d \in Deliveries
             PROVE  /\ late'[d] = 0 \/ Useless(d)'
                    /\ late'[d] + Cardinality(Threats(d)') <= 1 + faults'
  BY DEF Tardy
<1>0. /\ late[d] \in Nat /\ late'[d] \in Nat /\ faults \in Nat /\ faults' \in Nat
      /\ late[d] = 0 \/ Useless(d)
      /\ late[d] + Cardinality(Threats(d)) <= 1 + faults
  BY Bounds DEF TypeOK, Tardy
<1>1. faults' >= faults
  <2>1. faults' \in {faults, faults + 1}
    BY JobsStay DEF Begins, Stops, LockLost, Rest
  <2> QED BY <1>0, <2>1
<1>2. Threats(d) \in SUBSET Workers /\ Threats(d)' \in SUBSET Workers
  BY DEF Threats
<1>3. ASSUME NEW w \in Workers, Hands(w)
      PROVE  /\ d # worker[w].message => late'[d] = late[d]
             /\ d = worker[w].message => late'[d] = IF Useless(d) THEN late[d] + 1 ELSE late[d]
  <2>1. PICK ok, retry \in BOOLEAN : worker[w].pc = "send" /\ HandedOver(w, ok, retry)
    BY <1>3 DEF Hands
  <2> DEFINE e == worker[w].message
  <2>2. /\ \A f \in Deliveries \ {e} : late'[f] = late[f]
        /\ late'[e] = IF Useless(e) THEN late[e] + 1 ELSE late[e]
    BY <2>1, HandsFacts
  <2> QED BY <2>2
<1>4. CASE ~Useless(d)
  <2>1. late'[d] = 0
    <3>1. late[d] = 0
      BY <1>0, <1>4
    <3>2. UNCHANGED late \/ \E w \in Workers : Hands(w)
      BY Changes
    <3> QED BY <1>3, <1>4, <3>1, <3>2
  <2>2. /\ Astray("mail")' \in SUBSET Workers /\ Cardinality(Astray("mail")') <= faults'
        /\ Threats(d)' \subseteq Astray("mail")' \cup {lock'["mail"]}
    BY DEF Locked, Astray, Threats, Sends, Jobs
  <2>3. PICK n \in Nat : n = Cardinality(Threats(d)') /\ n <= 1 + faults'
    BY <1>0, <1>2, <2>2, Crowd
  <2>4. late'[d] + n <= 1 + faults'
    BY <1>0, <2>1, <2>3
  <2> QED BY <2>1, <2>3, <2>4
<1>5. CASE Useless(d)
  <2>1. Useless(d)'
    BY <1>5, UselessStays
  <2>2. Threats(d)' \in SUBSET Threats(d)
    BY <1>5, NoNewThreat DEF Threats
  <2>3. /\ Cardinality(Threats(d)') \in Nat /\ Cardinality(Threats(d)) \in Nat
        /\ Cardinality(Threats(d)') <= Cardinality(Threats(d))
    BY <1>2, <2>2, Fewer
  <2>4. CASE late'[d] = late[d]
    BY <1>0, <1>1, <2>1, <2>3, <2>4
  <2>5. CASE late'[d] # late[d]
    <3>1. PICK w \in Workers : Hands(w) /\ d = worker[w].message
      <4>1. PICK w \in Workers : Hands(w)
        BY <2>5, Changes
      <4>2. d # worker[w].message => late'[d] = late[d]
        BY <1>3, <4>1
      <4> QED BY <2>5, <4>1, <4>2
    <3>2. late'[d] = late[d] + 1
      BY <1>3, <1>5, <3>1
    <3>3. worker[w].pc = "send" /\ d \in Held(w) /\ worker[w].job = "mail"
      BY <1>5, <3>1, JobOfKinds DEF Hands, Carried, Knows, Useless, Kinds
    <3>4. w \in Threats(d)
      BY <3>1, <3>3 DEF Threats, Sends
    <3>5. w \notin Threats(d)'
      <4>1. PICK ok, retry \in BOOLEAN : worker[w].pc = "send" /\ HandedOver(w, ok, retry)
        BY <3>1 DEF Hands
      <4>2. worker'[w].pc = "settle" /\ worker'[w].message = d
        BY <3>1, <4>1, HandsFacts
      <4> QED BY <4>2 DEF Threats, Sends
    <3>6. Threats(d)' \in SUBSET (Threats(d) \ {w})
      BY <2>2, <3>5
    <3>7. Cardinality(Threats(d)') + 1 <= Cardinality(Threats(d))
      BY <1>2, <3>4, <3>6, OneLess
    <3> QED BY <1>0, <1>1, <2>1, <2>3, <3>2, <3>7
  <2> QED BY <2>4, <2>5
<1> QED BY <1>4, <1>5

-----------------------------------------------------------------------------
(* The theorems *)

LEMMA Initially == Init => IInv
<1> SUFFICES ASSUME Init PROVE IInv
  OBVIOUS
<1>1. /\ \A w \in Workers : worker[w] = Idle
      /\ \A d \in Deliveries : row[d] = [kind |-> "push", status |-> "ABSENT", attempts |-> 0, due |-> FALSE]
      /\ \A d \in Deliveries : accepted[d] = 0 /\ late[d] = 0
      /\ \A job \in Jobs : lock[job] = None
      /\ faults = 0
  BY DEF Init
<1>2. Idle.batch = NoMessages /\ DOMAIN NoMessages = {} /\ Idle.pc = "idle" /\ Idle.job = None /\ ~Idle.again
  BY DEF Idle, NoMessages
<1>3. TypeOK
  <2>1. [kind |-> "push", status |-> "ABSENT", attempts |-> 0, due |-> FALSE] \in Row
    BY KindSet DEF Row
  <2>2. row \in [Deliveries -> Row] /\ item \in [Deliveries -> Item]
    BY <2>1 DEF Init, Item
  <2>3. worker = [w \in Workers |-> worker[w]] /\ \A w \in Workers : IsRun(worker[w])
    BY <1>1, IdleIsRun DEF Init
  <2>4. lock \in [Jobs -> Workers \cup {None}] /\ accepted \in [Deliveries -> Nat] /\ late \in [Deliveries -> Nat]
    BY DEF Init
  <2>5. faults \in 0..MaxFaults /\ resends \in 0..MaxResends /\ edits \in 0..MaxEdits
    BY Bounds DEF Init
  <2> QED BY <2>2, <2>3, <2>4, <2>5 DEF Init, TypeOK
<1>4. Carried
  BY <1>1, <1>2 DEF Carried, Knows, Held
<1>5. Locked
  <2> SUFFICES ASSUME NEW job \in Jobs
               PROVE  lock[job] = None /\ Cardinality(Astray(job)) <= faults
    BY DEF Locked
  <2>1. Astray(job) = {}
    BY <1>1, <1>2, NothingIsNobody DEF Astray
  <2> QED BY <1>1, <2>1, FS_EmptySet
<1>6. Taken
  BY <1>1, <1>2 DEF Taken, SentWasTaken
<1>7. Pushed
  BY <1>1, <1>2 DEF Pushed, Once, Held
<1>8. Tardy
  <2> SUFFICES ASSUME NEW d \in Deliveries
               PROVE  late[d] = 0 /\ late[d] + Cardinality(Threats(d)) <= 1 + faults
    BY DEF Tardy
  <2>1. Threats(d) = {}
    BY <1>1, <1>2 DEF Threats, Sends, Held
  <2> QED BY <1>1, <2>1, FS_EmptySet
<1> QED BY <1>3, <1>4, <1>5, <1>6, <1>7, <1>8 DEF IInv

LEMMA Kept == IInv /\ [Next]_vars => IInv'
<1> SUFFICES ASSUME IInv, [Next]_vars PROVE IInv'
  OBVIOUS
<1>1. TypeOK /\ Carried /\ Locked /\ Taken /\ Pushed /\ Tardy
  BY DEF IInv
<1>2. TypeOK' /\ Carried'
  BY <1>1, TypeKept, CarriedKept
<1>3. Locked' /\ Taken'
  BY <1>1, LockedKept, TakenKept
<1>4. Pushed' /\ Tardy'
  BY <1>1, <1>2, <1>3, PushedKept, TardyKept
<1> QED BY <1>2, <1>3, <1>4 DEF IInv

LEMMA Invariantly == Spec => []IInv
  BY Initially, Kept, PTL DEF Spec

\* The rows, locks and runs of the outboxes (api, outboxes) always have their types, and
\* a run carries only rows of its section.
THEOREM TypeCorrect == Spec => []TypeOK
<1>1. IInv => TypeOK
  BY DEF IInv
<1> QED BY <1>1, Invariantly, PTL

\* The mark of a row and what the outside has seen agree, whatever runs die or lose
\* their lock (mail-outbox, webhook-outbox and push-outbox services).
THEOREM MarksAreDeliveries == Spec => []MarkedAsDelivered
<1>1. IInv => MarkedAsDelivered
  <2> SUFFICES ASSUME IInv PROVE MarkedAsDelivered
    OBVIOUS
  <2>1. SentWasTaken
    BY DEF IInv, Taken
  <2>2. faults \in Nat
    BY Bounds DEF IInv, TypeOK
  <2>3. ASSUME NEW d \in Deliveries, row[d].kind = "push", accepted[d] > 1 PROVE faults > 0
    <3>1. CASE faults = 0
      BY <2>3, <3>1 DEF IInv, Pushed, Once
    <3> QED BY <2>2, <3>1
  <2> QED BY <2>1, <2>3 DEF MarkedAsDelivered, PushedOnce
<1> QED BY <1>1, Invariantly, PTL

\* For a visit that has ended, an invitation that has gone or a person that was erased,
\* at most one mail goes out, and one more for each run that died or lost its lock.
THEOREM LateMailsAreFew == Spec => []FewLateMails
<1>1. IInv => FewLateMails
  <2> SUFFICES ASSUME IInv, NEW d \in Deliveries PROVE late[d] <= 1 + faults
    BY DEF FewLateMails
  <2>1. late[d] \in Nat /\ faults \in Nat /\ late[d] + Cardinality(Threats(d)) <= 1 + faults
    BY Bounds DEF IInv, TypeOK, Tardy
  <2>2. Threats(d) \in SUBSET Workers
    BY DEF Threats
  <2>3. Cardinality(Threats(d)) \in Nat
    BY <2>2, Fewer
  <2> QED BY <2>1, <2>3
<1> QED BY <1>1, Invariantly, PTL
=============================================================================
