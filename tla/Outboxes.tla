------------------------------ MODULE Outboxes ------------------------------
(***************************************************************************)
(* The three outboxes: mails, webhooks and push notices.  Whatever must    *)
(* be told to somebody is a row written in the transaction of the event;   *)
(* a worker takes the rows that are due, hands each one over and updates   *)
(* its row.  One replica at a time works on an outbox, under the named     *)
(* lock of the database.                                                   *)
(*                                                                         *)
(* A worker reads its batch once and stops at every await: a visit closes, *)
(* an invitation is sent again, a hook is turned off in between.  It may   *)
(* fail or die anywhere, and it may lose the connection that holds the     *)
(* lock and go on with the others of its pool.                             *)
(*                                                                         *)
(* A definition under a "Bug:" comment is not part of the specification:   *)
(* it is the definition that follows with a plausible mistake in it, which *)
(* the properties must notice.                                             *)
(***************************************************************************)
EXTENDS Integers, FiniteSets

CONSTANTS
  Workers,       \* runs of a job that may be going on at the same time
  Deliveries,    \* rows of the outboxes, each is used once
  Devices,       \* phones and browsers of the employee
  None,
  MaxAttempts,   \* MAX_ATTEMPTS of the mails
  HookBackoff,   \* length of BACKOFF_MIN of the webhooks
  PushBackoff,   \* length of BACKOFF_MIN of the push notices
  BatchSize,     \* rows read at once
  MaxFaults,     \* bound on the runs that die and the locks that are lost
  MaxTrouble,    \* bound on the rows (two each), faults and endings together
  MaxResends,    \* bound on the invitations sent again
  MaxEdits,      \* bound on the changes of the webhook
  Installations  \* what an organisation may tell, each a set of kinds

Sections == <<"notice", "badge", "arrival", "invitation", "parcel">>
Mails == {Sections[i] : i \in DOMAIN Sections}
Kinds == Mails \cup {"hook", "push"}
Jobs == {"mail", "hook", "push"}
JobOf(kind) == IF kind \in Mails THEN "mail" ELSE kind

ASSUME OutboxesAssumption ==
  /\ Installations \subseteq SUBSET Kinds
  /\ None \notin Workers \cup Devices /\ None \notin Deliveries /\ None \notin Kinds \cup Jobs
  /\ IsFiniteSet(Workers)
  /\ Deliveries \subseteq Nat
  /\ {MaxAttempts, BatchSize} \subseteq Nat \ {0}
  /\ {HookBackoff, PushBackoff, MaxFaults, MaxTrouble, MaxResends, MaxEdits} \subseteq Nat

VARIABLES
  uses,      \* the kinds of messages this organisation has any of
  row,       \* the rows: columns of visits, invitations, parcels; the deliveries
  item,      \* the visit, invitation or parcel a mail is about
  devices,   \* table push_devices: what is registered
  hook,      \* table webhooks: one hook
  edit,      \* the hook as a console request read it
  lock,      \* the named locks
  worker,    \* the runs
  accepted,  \* how many times each row's message was taken (history)
  late,      \* how many times it went out for nothing (history)
  faults, resends, edits

vars == <<uses, row, item, devices, hook, edit, lock, worker, accepted, late, faults, resends, edits>>

-----------------------------------------------------------------------------
(* Initial state *)

\* batch: the rows a run read, as they were, with the item of each; message: the one
\* on its way; to: the devices it is sent to; again: read another batch when this one
\* was full.
NoMessages == [d \in {} |-> 0]
Idle == [job |-> None, section |-> None, pc |-> "idle", batch |-> NoMessages,
         message |-> None, to |-> {}, retry |-> FALSE, again |-> FALSE]

\* A row is absent, pending, sent, failed or skipped.  An item is open while its visit,
\* invitation or parcel is, and has data while the row holds names and an address.
Init ==
  /\ uses \in Installations
  /\ row = [d \in Deliveries |-> [kind |-> "push", status |-> "ABSENT", attempts |-> 0, due |-> FALSE]]
  /\ item = [d \in Deliveries |-> [open |-> TRUE, data |-> TRUE]]
  /\ devices = IF "push" \in uses THEN Devices ELSE {}
  /\ hook = (IF "hook" \in uses THEN "on" ELSE "deleted") /\ edit = None
  /\ lock = [j \in Jobs |-> None]
  /\ worker = [w \in Workers |-> Idle]
  /\ accepted = [d \in Deliveries |-> 0] /\ late = [d \in Deliveries |-> 0]
  /\ faults = 0 /\ resends = 0 /\ edits = 0

-----------------------------------------------------------------------------
(* Events: the rows are written with what they tell about *)

Trouble == 2 * Cardinality({d \in Deliveries : row[d].status # "ABSENT"}) + faults
           + Cardinality({d \in Deliveries : ~item[d].open}) + Cardinality({d \in Deliveries : ~item[d].data})

Free == {d \in Deliveries : row[d].status = "ABSENT"}
Lowest(n) == {d \in Free : Cardinality({e \in Free : e < d}) < n}
Queued(d, kind) == [kind |-> kind, status |-> "PENDING", attempts |-> 0, due |-> TRUE]

\* Writes one row of each kind, or nothing when the transaction is rolled back.
Queue(kinds) ==
  /\ kinds \subseteq uses
  /\ "hook" \in kinds => hook = "on"
  /\ "push" \in kinds => devices # {}
  /\ Trouble + 2 * Cardinality(kinds) <= MaxTrouble
  /\ \E place \in [kinds -> Lowest(Cardinality(kinds))] :
       /\ \A j, k \in kinds : j # k => place[j] # place[k]
       /\ row' = [d \in Deliveries |->
            IF \E k \in kinds : place[k] = d THEN Queued(d, CHOOSE k \in kinds : place[k] = d) ELSE row[d]]
  /\ UNCHANGED <<uses, item, devices, hook, edit, lock, worker, accepted, late, faults, resends, edits>>

\* Which rows: the visitor's address and wish, the host's address, a hook that
\* listens, a device of the employee behind the host.
CheckIn == \E kinds \in (SUBSET {"notice", "badge", "arrival", "hook", "push"}) \ {{}} : Queue(kinds)
Parcel == \E kinds \in (SUBSET {"parcel", "push"}) \ {{}} : Queue(kinds)
Invite == Queue({"invitation"})
HookEvent == Queue({"hook"})

\* The visit ends, the invitation is used, cancelled or past, the parcel collected.
Close(d) ==
  /\ row[d].status # "ABSENT" /\ row[d].kind \in Mails /\ item[d].open /\ Trouble < MaxTrouble
  /\ item' = [item EXCEPT ![d].open = FALSE]
  /\ UNCHANGED <<uses, row, devices, hook, edit, lock, worker, accepted, late, faults, resends, edits>>

\* The visit is anonymised, the host or the recipient removed.
Forget(d) ==
  /\ row[d].status # "ABSENT" /\ row[d].kind \in Mails /\ item[d].data /\ Trouble < MaxTrouble
  /\ item' = [item EXCEPT ![d].data = FALSE]
  /\ UNCHANGED <<uses, row, devices, hook, edit, lock, worker, accepted, late, faults, resends, edits>>

\* The console sends an invitation again: it starts over, whoever is sending it.
Resend(d) ==
  /\ row[d].kind = "invitation" /\ row[d].status # "ABSENT"
  /\ item[d].open
  /\ resends < MaxResends /\ resends' = resends + 1
  /\ row' = [row EXCEPT ![d].status = "PENDING", ![d].attempts = 0]
  /\ UNCHANGED <<uses, item, devices, hook, edit, lock, worker, accepted, late, faults, edits>>

-----------------------------------------------------------------------------
(* The devices and the hook *)

\* The old row of the device goes, whoever's it was, and the new one comes.
Register(v) ==
  /\ "push" \in uses /\ v \notin devices
  /\ devices' = devices \cup {v}
  /\ UNCHANGED <<uses, row, item, hook, edit, lock, worker, accepted, late, faults, resends, edits>>

\* One device signs out, or the badge is revoked and all of them are forgotten.
Unregister ==
  /\ devices # {}
  /\ devices' \in {devices \ {v} : v \in devices} \cup {{}}
  /\ UNCHANGED <<uses, row, item, hook, edit, lock, worker, accepted, late, faults, resends, edits>>

HookLoad ==
  /\ hook # "deleted" /\ edit = None /\ edits < MaxEdits
  /\ edit' = hook /\ edits' = edits + 1
  /\ UNCHANGED <<uses, row, item, devices, hook, lock, worker, accepted, late, faults, resends>>

\* The whole entity is saved: a hook changed in between gets the old columns
\* back, and a hook deleted in between is inserted again.
HookSave ==
  /\ edit # None
  /\ hook' \in {edit, "on", "off"} /\ edit' = None
  /\ UNCHANGED <<uses, row, item, devices, lock, worker, accepted, late, faults, resends, edits>>

HookRemove ==
  /\ hook # "deleted" /\ edits < MaxEdits
  /\ hook' = "deleted" /\ edits' = edits + 1
  /\ UNCHANGED <<uses, row, item, devices, edit, lock, worker, accepted, late, faults, resends>>

-----------------------------------------------------------------------------
(* A run: take the lock, read the batch *)

Due(kind) == {d \in Deliveries : row[d].kind = kind /\ row[d].status = "PENDING" /\ row[d].due}

\* The rows of a run's batch with what it knows of them; which ones when there
\* are more than a batch holds depends on their order.
Batch(kind) ==
  {[d \in D |-> [attempts |-> row[d].attempts, item |-> item[d]]] :
     D \in {E \in SUBSET Due(kind) : \/ E = Due(kind) /\ Cardinality(E) <= BatchSize
                                     \/ Cardinality(E) = BatchSize}}

\* A section of a run with nothing due reads an empty batch and goes on.
Reads(w, job, kind, again) ==
  \E b \in Batch(kind) :
    worker' = [worker EXCEPT ![w] =
      [Idle EXCEPT !.job = job, !.section = kind, !.pc = "loop", !.batch = b,
                   !.again = again /\ Cardinality(DOMAIN b) = BatchSize]]

Locks(w, job) == lock[job] = None /\ lock' = [lock EXCEPT ![job] = w]

FirstSection(job) ==
  IF job # "mail" THEN job
  ELSE Sections[CHOOSE i \in DOMAIN Sections :
                  Due(Sections[i]) # {} /\ \A j \in 1..(i - 1) : Due(Sections[j]) = {}]

\* A run that finds nothing due changes nothing.  The minute's run of the
\* webhooks and of the push notices repeats while its batches are full.
RunBegins(w, job, again) ==
  /\ worker[w].pc = "idle"
  /\ \E d \in Deliveries : JobOf(row[d].kind) = job /\ d \in Due(row[d].kind)
  /\ again => job # "mail"
  /\ Locks(w, job)
  /\ Reads(w, job, FirstSection(job), again)
  /\ UNCHANGED <<uses, row, item, devices, hook, edit, accepted, late, faults, resends, edits>>

Scheduled(job) == \E w \in Workers : RunBegins(w, job, job # "mail")
Kick == \E w \in Workers : RunBegins(w, "push", FALSE)

Frees(w, job) == lock' = IF lock[job] = w THEN [lock EXCEPT ![job] = None] ELSE lock

Later(section) ==
  LET at == CHOOSE i \in DOMAIN Sections : Sections[i] = section
  IN {i \in DOMAIN Sections : i > at /\ Due(Sections[i]) # {}}

NextSection(w) ==
  LET me == worker[w] later == IF me.job = "mail" THEN Later(me.section) ELSE {} IN
  /\ me.pc = "loop" /\ DOMAIN me.batch = {}
  /\ \/ /\ later # {}
        /\ Reads(w, "mail", Sections[CHOOSE i \in later : \A j \in later : i <= j], FALSE)
        /\ UNCHANGED lock
     \/ /\ me.again
        /\ Reads(w, me.job, me.job, TRUE)
        /\ UNCHANGED lock
     \/ /\ ~me.again /\ later = {}
        /\ worker' = [worker EXCEPT ![w] = Idle]
        /\ Frees(w, me.job)
  /\ UNCHANGED <<uses, row, item, devices, hook, edit, accepted, late, faults, resends, edits>>

-----------------------------------------------------------------------------
(* One message *)

Drop(d, b) == [e \in DOMAIN b \ {d} |-> b[e]]
Takes(w, d, to) == worker' = [worker EXCEPT ![w].pc = "send", ![w].message = d, ![w].to = to]
Leaves(w, d, status) ==
  /\ row' = [row EXCEPT ![d].status = status]
  /\ worker' = [worker EXCEPT ![w].batch = Drop(d, @)]

\* Bug: a mail goes out whatever became of the visit.
MailVerdictAlways(kind, seen, is) == IF ~is.data THEN "FAILED" ELSE "SEND"

\* A notice goes out for a visit that is over; the rest is only of use while it
\* lasts.  The names of a visit come from the batch, the recipient of a parcel
\* and the host of a visit or of an invitation are read now.
MailVerdict(kind, seen, is) ==
  LET data == IF kind \in {"notice", "badge"} THEN seen.data ELSE is.data IN
  CASE kind # "notice" /\ ~seen.open -> "SKIPPED"
    [] kind = "arrival" /\ ~data -> "SKIPPED"
    [] kind # "arrival" /\ ~data -> "FAILED"
    [] OTHER -> "SEND"

\* Bug: the row is marked before the mail is handed over.
TakeMailMarks(w, d) ==
  LET verdict == MailVerdict(worker[w].section, worker[w].batch[d].item, item[d]) IN
  /\ worker[w].job = "mail"
  /\ IF verdict = "SEND" THEN Takes(w, d, {}) /\ row' = [row EXCEPT ![d].status = "SENT"]
                         ELSE Leaves(w, d, verdict)

TakeMail(w, d) ==
  LET verdict == MailVerdict(worker[w].section, worker[w].batch[d].item, item[d]) IN
  /\ worker[w].job = "mail"
  /\ IF verdict = "SEND" THEN Takes(w, d, {}) /\ UNCHANGED row ELSE Leaves(w, d, verdict)

TakeHook(w, d) ==
  /\ worker[w].job = "hook"
  /\ IF hook = "on" THEN Takes(w, d, {}) /\ UNCHANGED row ELSE Leaves(w, d, "FAILED")

TakePush(w, d) ==
  /\ worker[w].job = "push"
  /\ Takes(w, d, devices) /\ UNCHANGED row

Take(w) ==
  /\ worker[w].pc = "loop"
  /\ \E d \in DOMAIN worker[w].batch : TakeMail(w, d) \/ TakeHook(w, d) \/ TakePush(w, d)
  /\ UNCHANGED <<uses, item, devices, hook, edit, lock, accepted, late, faults, resends, edits>>

Useless(d) == row[d].kind \in Mails /\ (~item[d].data \/ (row[d].kind # "notice" /\ ~item[d].open))

\* A device that is gone does not ask for another try, and one that took the
\* notice is enough.  The mail server and the hook are one device that stays.
Retry(results) == "RETRY" \in results /\ "OK" \notin results

HandedOver(w, ok, retry) ==
  LET d == worker[w].message IN
  /\ accepted' = IF ok THEN [accepted EXCEPT ![d] = @ + 1] ELSE accepted
  /\ late' = IF Useless(d) THEN [late EXCEPT ![d] = @ + 1] ELSE late
  /\ worker' = [worker EXCEPT ![w].pc = "settle", ![w].retry = retry]
  /\ UNCHANGED <<uses, row, item, hook, edit, lock, faults, resends, edits>>

\* The server takes it or not; an answer that came too late counts as a refusal.
Send(w) ==
  /\ worker[w].pc = "send" /\ worker[w].job # "push"
  /\ \E took, answered \in BOOLEAN : (answered => took) /\ HandedOver(w, took, ~answered)
  /\ UNCHANGED devices

\* To all the devices at once; a device its service does not know any more goes.
SendPush(w) ==
  /\ worker[w].pc = "send" /\ worker[w].job = "push"
  /\ \E result \in [worker[w].to -> {"OK", "GONE", "RETRY"}] :
       LET results == {result[v] : v \in worker[w].to} IN
       /\ HandedOver(w, "OK" \in results, Retry(results))
       /\ devices' = devices \ {v \in worker[w].to : result[v] = "GONE"}

\* Bug: the attempts are not written back.
SettledForgets(job, d, attempts, retry) ==
  [row[d] EXCEPT !.status = IF retry THEN "PENDING" ELSE "SENT", !.due = (job = "mail") \/ ~retry]

\* After a refusal: try again later, or give up.
Settled(job, d, attempts, retry) ==
  LET last == CASE job = "mail" -> attempts >= MaxAttempts
                [] job = "hook" -> attempts > HookBackoff
                [] job = "push" -> attempts > PushBackoff
  IN [row[d] EXCEPT !.attempts = attempts,
        !.status = IF ~retry THEN "SENT" ELSE IF last THEN "FAILED" ELSE "PENDING",
        !.due = job = "mail" \/ ~retry \/ last]

Settle(w) ==
  LET me == worker[w] d == me.message IN
  /\ me.pc = "settle"
  /\ row' = [row EXCEPT ![d] = Settled(me.job, d, me.batch[d].attempts + 1, me.retry)]
  /\ worker' = [worker EXCEPT ![w].pc = "loop", ![w].batch = Drop(d, @),
                              ![w].message = None, ![w].to = {}, ![w].retry = FALSE]
  /\ UNCHANGED <<uses, item, devices, hook, edit, lock, accepted, late, faults, resends, edits>>

\* nextAt passes.
BackoffEnds(d) ==
  /\ row[d].status = "PENDING" /\ ~row[d].due
  /\ row' = [row EXCEPT ![d].due = TRUE]
  /\ UNCHANGED <<uses, item, devices, hook, edit, lock, worker, accepted, late, faults, resends, edits>>

-----------------------------------------------------------------------------
(* Faults *)

\* A query fails, keys cannot be read or the process dies: the run is over and
\* the database lets go of its lock.
RunFails(w) ==
  /\ worker[w].pc # "idle"
  /\ faults < MaxFaults /\ Trouble < MaxTrouble /\ faults' = faults + 1
  /\ worker' = [worker EXCEPT ![w] = Idle]
  /\ Frees(w, worker[w].job)
  /\ UNCHANGED <<uses, row, item, devices, hook, edit, accepted, late, resends, edits>>

\* The idle connection that holds the lock is cut; the run does not notice.
LockLost(job) ==
  /\ lock[job] # None
  /\ faults < MaxFaults /\ Trouble < MaxTrouble /\ faults' = faults + 1
  /\ lock' = [lock EXCEPT ![job] = None]
  /\ UNCHANGED <<uses, row, item, devices, hook, edit, worker, accepted, late, resends, edits>>

-----------------------------------------------------------------------------
(* The system *)

RunStep(w) == NextSection(w) \/ Take(w) \/ Send(w) \/ SendPush(w) \/ Settle(w)

Next ==
  \/ CheckIn \/ Parcel \/ Invite \/ HookEvent
  \/ \E d \in Deliveries : Close(d) \/ Forget(d) \/ Resend(d) \/ BackoffEnds(d)
  \/ \E v \in Devices : Register(v)
  \/ Unregister \/ HookLoad \/ HookSave \/ HookRemove
  \/ \E job \in Jobs : Scheduled(job) \/ LockLost(job)
  \/ Kick
  \/ \E w \in Workers : RunStep(w) \/ RunFails(w)

Spec == Init /\ [][Next]_vars

\* The cron comes every minute, its runs go on, and a time that is set passes.
Fairness ==
  /\ \A job \in Jobs : WF_vars(Scheduled(job))
  /\ \A w \in Workers : WF_vars(RunStep(w))
  /\ \A d \in Deliveries : WF_vars(BackoffEnds(d))

FairSpec == Spec /\ Fairness

-----------------------------------------------------------------------------
(* Properties *)

\* A mail or webhook marked as sent was taken by its server: no order of a run
\* that dies, a lock that is lost and a second run makes a row say so before.
SentWasTaken ==
  \A d \in Deliveries : row[d].status = "SENT" /\ row[d].kind # "push" => accepted[d] > 0

\* A notice that reached a phone of the employee is not pushed again, though
\* other phones did not answer and several runs are going on, unless a run dies
\* or loses its lock.
PushedOnce ==
  \A d \in Deliveries : row[d].kind = "push" /\ accepted[d] > 1 => faults > 0

\* The mark of a row and what the outside has seen agree: no mark without a delivery, and no second
\* delivery of what one phone had already shown.
MarkedAsDelivered == SentWasTaken /\ PushedOnce

\* At most one mail goes out for a visit that has ended, an invitation that has
\* gone or a person that was erased, by the run that had read it before; and one
\* more for each fault.
FewLateMails == \A d \in Deliveries : late[d] <= 1 + faults

\* Whatever the servers answer and the console does, every row is settled.
EveryRowIsSettled ==
  \A d \in Deliveries : row[d].status = "PENDING" ~> row[d].status \in {"SENT", "FAILED", "SKIPPED"}
=============================================================================
