# Verification of the digital reception

TLA+ modules of the digital reception, with the instances TLC checks and the proofs TLAPS checks.
The code is in `src/`: an API (NestJS, TypeORM, MySQL, several replicas over one database), a web
application (tablet, reader, guest, badge, console), a mobile application and a load test. Paths
below are relative to the repository.

Run a check with `tlc -config Reception_guest.cfg MCReception`, a proof with
`tlapm ReceptionProofs.tla`.

## The system

Every tenant has its own data in one database and keys of its own. A request is handled by one
replica; between two `await`s of its handler any other request, on this replica or another, may run.
What keeps requests apart is the database alone: conditional UPDATEs (`UPDATE ... WHERE status =
'PENDING'`, then `affected`), unique indexes, transactions at REPEATABLE READ, and named locks
(`GET_LOCK`) for background jobs. The object storage and the servers of mail and push are outside
every transaction. A screen, in a browser or on a phone, sees all this through answers that come
late, out of order or never.

### Components

| Component | State | Operations | Hard about it | Correct when |
| --- | --- | --- | --- | --- |
| Front desk: `kiosk/`, `invitations/`, `admin/visits.service.ts`, `common/files.service.ts`, `common/visit-lifecycle.service.ts`, `retention/retention.service.ts` | `invitations`, `visits`, `stored_files`, object storage | create and cancel an invitation, guest submission, check-in from the form or from a pre-registration, check-out at the tablet and from the console, erase, purge, retention run | two tablets, the phone and the console on one invitation; images moved and purged at once; blobs not covered by the transaction; a job that dies half-way | one visit per invitation; a visit ends once; images follow their visit and go on their date; erasure is final |
| Parking: `parking/`, parts of `access/` | `parking_spots`, `parking_bookings`, `parking_weeks`, benefit in `employees` | book a day or several, give back, change the benefit, the applications, spots on, off and deleted, a person leaves, weekly run of cron and console | checks and INSERTs in separate queries, weekly run with and without its lock, midnight | no spot and no person twice a day; a day given back stays free; a recorded week is complete; the past stays |
| Outboxes: mail, webhooks, push | `mail_outbox` columns, `webhook_deliveries`, `push_deliveries`, the named locks | queue in the transaction, worker under a lock, retry with a limit, resend, devices and hooks that come and go | a crash between sending and marking; a batch read once and updated later; a lock lost with its connection | marked only if delivered, settled in the end, few mails for what is over |
| Employee access: badges, readers, phones | `employees`, rules, doors, projects, login codes, `push_devices` | activate by code or company account, issue, verify, revoke, remove, notices, cards, projects | checks of a card and writes of it in separate queries; guesses against new codes; revocation against registration and verification | guesses bounded, one holder per card, no notices to a lost phone, a door opens on facts that held |
| HR integration API | the same tables | upsert and delete from outside | in parallel with itself and the console | as above |
| Console sign-in and sessions | users: failed count, lock, session version, second factor | sign in, TOTP, recovery codes, sign out, change and reset password, enrol | counts read and written back; a session against its version; one code twice | guesses bounded, ended sessions stay ended, a code opens once |
| Single sign-on | attempts, the link to the directory | begin, callback, finish, link, unlink | an answer presented twice, another browser, a link removed meanwhile | one attempt opens one session, for the linked directory |
| Console management | users, sites, devices, hosts, organisation | create, change, demote, pair, revoke | rows saved whole from an earlier read; the plan's counts taken before the write | somebody can always sign in; the plan is kept but for what crossed |
| Site documents and privacy notices | versions | publish, create, switch, accept | published while a guest signs | what is accepted was shown and in force |
| Parcels | `parcels` and a photo | receive, collect, remove, retention | the photo is purged before the conditional DELETE | one collection, the photo goes with the row |
| Evacuation | `evacuations`, checks | start, tick, end | two starts, a tick during the end, three reads that are not one | no tick is lost, the counts add up |
| Tenant keys and operator commands | wrapped keys, caches of a minute and of five | create, suspend, delete, rewrap, restart with another keyring | a stale cache, a deletion crossed by a rewrap | shredded keys stay shredded |
| Rate limiting | shared counters | upsert, read, block | the window ends between two queries | no more than the limit pass |
| Tenant resolution and applications | a cache of a minute | look up the host, the applications that are on | - | - |
| Reading side of the console | audit (append only) | dashboards, history, CSV, statistics | - | - |
| Schema, configuration, start-up | - | - | - | - |
| Tablet, guest page, reader, badge, invitations, console pages (web and mobile) | screens, forms, timers, what the phone stores | the screens' flows | a timer against a late answer, a lost answer and a second try, a row changed behind a form | one visit per guest, nothing accepted that was not shown, a removed badge stays removed, a saved form is what was typed |
| NFC module | APDU state | select, exchange | - | - |
| Load test | - | - | - | - |

`PROJECT.json` has the same list under "components", with what is left out of each.

### How they interact

The tablet, the guest's phone and the console call the front desk; a check-in writes, in its own
transaction, the rows of the mail, webhook and push outboxes, which a worker delivers later. The
retention run walks over files, visits, invitations, parcels and the counters of the rate limit.
Deleting an employee (console or HR) deletes their parking bookings, rules and badge, and takes the
link off the person to visit. The evacuation reads the open visits and the passages at the doors.
All share the files service, the keys and the audit.

## Modules

| Module | What it is |
| --- | --- |
| `Admission` | What the front desk promises, without requests, transactions, files or clocks |
| `Reception`, `MCReception` | The front desk in detail; `Promise == INSTANCE Admission WITH ...` is its refinement mapping |
| `ReceptionProofs`, `ImageProofs` | Theorems of `Reception`: the visits and the refinement, the images |
| `Parking`, `MCParking`, `ParkingProofs` | The parking of one site and its theorems |
| `Outboxes`, `MCOutboxes`, `OutboxProofs` | Mails, webhooks and push over one database, and the theorems |
| `Badges`, `MCBadges`, `BadgeProofs` | Employees, badges, readers, the HR API, and the theorems |
| `Accounts`, `MCAccounts`, `AccountsProofs` | Sign-in, second factor, sessions, single sign-on, the administrators, and the theorems |
| `Premises`, `MCPremises` | Composes the smaller parts of the server: `Parcels`, `RollCall`, `Pairing`, `Texts`, `Directory`, `Operator`, `Throttle`, `Calendar` |
| `PremisesProofs` | Theorems of `Premises`: an invariant for each part |
| `Screens`, `MCScreens`, `ScreensProofs` | Composes the applications: `Kiosk`, `GuestPage`, `Reader`, `Phone`, `BadgePage`, `Inviting`, `Console`, `Entry`, and the theorems |

The parts of `Premises` have no table in common that one writes and another reads, nor have the
applications a screen in common; so a behaviour follows one part at a time (`focus`, `screenUsed`)
and TLC adds their state spaces instead of multiplying them. `Phone` also has a run of its own.

A definition under a `\* Bug:` comment belongs to no specification: it is the next definition with
a plausible mistake. Put in its place, it makes TLC find a violation of the property
`PROJECT.json` names beside it under "mutants", which shows that the property says something.
"map" there gives the lines of the code behind every definition.

In every module of the server a request is a process that performs an operation. A handler is one
action where nothing can come between its queries to any effect, and several where it can. Names,
addresses, ciphers, texts and layout are left out or named by the request, form or number that
brought them. History variables (`made`, `accepted`, `late`, `guesses`, `held`, `crossed`, ...)
record what happened for the properties; no guard reads one.

### Reception

| Operation | Code | Actions |
| --- | --- | --- |
| create | `invitations.service.ts` create | `CreateInvitation` |
| cancel | `invitations.service.ts` cancel | `CancelLoad`, `CancelUpdate`, `CancelFind`, then the purge |
| submit | `guest.controller.ts` submit | `SubmitLoad` (checks and snapshot), `SubmitCommit` or `SubmitRefused`, then the purge of the replaced images |
| check-in, form | `kiosk.service.ts` checkIn, persist | `FormLoad`, `CheckInBegin` (exit code, snapshot), `CheckInCommit` or `CheckInRollback` |
| check-in, pre-registered | `kiosk.service.ts` checkInPreregistered, persist | `PreregisteredLoad`, then the same |
| check-out | `kiosk.service.ts` checkOut | `CheckOutLoad`, `CheckOutCommit` or `CheckOutRefused` |
| check-out, console | `visits.service.ts` | `ManualCheckout` |
| erase | `visits.service.ts`, `visit-lifecycle.service.ts` anonymize | `EraseLoad`, the purge, `EraseForget` |
| purge | `files.service.ts` purge | `PurgeBlob` (the storage), `PurgeMark` (the row), file by file |
| retention | `retention.service.ts` points 1 to 4 | `JobStart`, the purge, `JobFindVisits`, `JobAnonymise`, the purge, `JobForget`, `JobClose`, `JobDeleteInvitations` |

A SELECT inside a transaction reads the snapshot its first SELECT took; a conditional UPDATE reads
the latest committed row. So `req[r].found`, the images a transaction listed, may be stale at its
commit, while its guard is not: that is where the interesting interleavings are. A crash
(`RequestFails`, `JobFails`) rolls a transaction back and leaves in the object storage any subset of
what had been written. A visit is named by the request that creates it and a file by its request and
its kind, so that no allocator is needed. The data of a form is the name of the request that brought it.

Abstracted: contents of forms and images, ciphers, the audit, the notices and documents accepted
(`Texts`), the surname lookup at the exit, resending (`Outboxes`), the pairing of the tablet
(`Pairing`). The clock counts ticks, `DayLength` of them a day.

### Parking

| Operation | Code | Actions |
| --- | --- | --- |
| book a day | `parking.service.ts` book | `Book`, `DayLoad` (every check and read) or `DayRefused`, `Insert` or `Duplicate` |
| book several | `parking.service.ts` bookMany | `BookMany`, then the same for each day |
| give back | `parking.service.ts` cancel | `Cancel` |
| benefit | `access-admin.controller.ts` employeeParking, `parking.service.ts` benefitChanged | `BenefitLoad`, `BenefitUpdate`, `BenefitFind`, `BenefitDrop`, `BenefitDays`, `BenefitManagers`, `BenefitAssign` |
| applications | `access-admin.controller.ts` employeeApps | `AppsChange` |
| departure | `access.service.ts` deleteEmployee | `Leave` |
| spot on, off | `parking-admin.controller.ts` updateSpot, spotOff | `UpdateSpotLoad`, `UpdateSpotWrite`, `SpotOff` |
| spot deleted | `parking-admin.controller.ts` deleteSpot | `DeleteSpotLoad`, `DeleteSpot` |
| weekly run | `parking.service.ts` weekly, from the cron under its lock (`Job`) and from the console without | `WeeklyLoad`, `WeeklyKnown` or `WeeklyManagers`, `WeeklyCommit` |

The reads before an INSERT are one step and the INSERT is another: what was read may be stale, and
only the unique indexes (`Unique`) refuse. The weekly transaction inserts the week first, so a second
run of the same week waits for the first; `WeeklyManagers` states that as its guard. `Tick` is
midnight and may fall inside a request. `made` is a history variable, every booking ever inserted,
and `by` names the inserter (for the weekly runs, of cron and console, always `Job`).

Abstracted: several sites (they share the person only), the time zone, the reading side, creating
and renaming a spot (an INSERT under a unique index). A week has `WeekLength` days, the first
`WorkingDaysInWeek` of them worked.

### Outboxes

| Operation | Code | Actions |
| --- | --- | --- |
| events that queue | `kiosk.service.ts`, `parcels.controller.ts`, `invitations.service.ts`, `evacuations.controller.ts` | `CheckIn`, `Parcel`, `Invite`, `HookEvent` |
| what ends an item | `visits.service.ts` checkOut, `visit-lifecycle.service.ts` anonymize | `Close`, `Forget` |
| send again | `invitations.service.ts` resend | `Resend` |
| devices, hook | `push.service.ts` register, unregister; `webhooks.controller.ts` update, remove | `Register`, `Unregister`, `HookLoad`, `HookSave`, `HookRemove` |
| a run | `mail-outbox.service.ts`, `webhooks.service.ts`, `push.service.ts` deliverDue, `db-lock.ts` | `Scheduled` or `Kick`, `NextSection` (query and next batch), `Take`, `Send` or `SendPush`, `Settle` |
| time, faults | `nextAt`; catch; the cut connection | `BackoffEnds`, `RunFails`, `LockLost` |

A row is taken, sent and settled in three steps; a run knows its rows from the batch it read once.

### Badges, Accounts

| Operation | Actions of `Badges` |
| --- | --- |
| employees from the console and the HR API (`access.service.ts` upsertEmployee, deleteEmployee) | `ConsoleCreates`, `ConsoleUpdates`, `ApiPuts`, `PutReads`, `PutWrites` or `PutRetries`, `DeleteReads`, `DeleteCommits` |
| projects, doors, settings, applications | `ProjectReads`, `ProjectDeletes`, `DoorChanges`, `SettingChanges`, `AppsChange` |
| codes (requestLoginCode, activateBadge) | `AskReads`, `AskWrites`, `ActivateReads`, `ActivateTakes`, `WindowEnds` |
| badge (activateBadgeBySso, issueBadge, revokePhone, revoke) | `ActivateBySso`, `IssueForgets`, `IssueStores`, `RevokePhone`, `RevokeForgets`, `RemoveStarts`, `RemoveCommits` |
| notices | `RegisterStarts`, `RegisterWrites`, `Unregister` |
| verification (`access.service.ts` verify) | `VerifyReads`, `VerifyDoor`, `VerifyRules`, `VerifyEnds`, with `TimePasses` |

| Operation | Actions of `Accounts` |
| --- | --- |
| sign-in (`auth.controller.ts` login, loginMfa) | `LoginReads`, `LoginFails`, `LoginRefused`, `LoginTickets`, `LoginOpens`, `MfaReads`, `MfaFails`, `MfaOpens` |
| second factor (mfaSetup, mfaEnable, mfaRecoveryCodes, mfaDisable, checkSecondFactor) | `SetupStarts`, `EnableStarts`, `CodesStarts`, `DisableStarts`, `OwnReads`, `FactorUsed` or `FactorRefused`, `SetupWrites`, `EnableWrites`, `CodesWrites`, `DisableWrites` |
| sessions and passwords | `Logout`, `LogoutWrites`, `PasswordReads`, `PasswordWrites`, `ResetReads`, `ResetWrites`, `ResetMfaReads`, `ResetMfaWrites` |
| users, organisation (`management.controller.ts`) | `UpdateReads`, `UpdateChecks`, `UpdateSaves`, `CreateReads`, `CreateSaves`, `OrganisationReads`, `OrganisationWrites`, `Unlink`, `UnlinkTenant`, `UnlinkUsers` |
| single sign-on (`sso.controller.ts`, `oidc.ts`) | `SignInBegins`, `LinkBegins`, `BadgeBegins`, `CallbackReads`, `CallbackRedeems`, `CallbackWrites`, `FinishReads`, `FinishTakes`, `LinkCommits`, `BadgeRedeems`, `SignInReads`, `SignInOpens`, `SsoExpires` |

Several UPDATEs of these two modules write back what an earlier read found, and nothing in the code
forbids it. The properties say what holds all the same, and where it does not hold they name the
crossing that is to blame: `overlaps` counts the writes of a count that was no longer the one read,
`raced` and `crossed` name what two requests had both read when one of them wrote it. A property
that excuses a crossing is violated by its mutant without one.

### Premises, Screens

| Module | Code | Actions |
| --- | --- | --- |
| `Parcels` | `parcels.controller.ts`, `files.service.ts` purge, points of `retention.service.ts` | receive, collect, remove, purge and retention, each split at its awaits, and failures |
| `RollCall` | `evacuations.controller.ts` | start, tick, end (three reads, one write), arrivals, departures, passages, midnight |
| `Pairing` | `management.controller.ts`, `kiosk.service.ts` and `reader.controller.ts` pair | codes counted, saved, used, expired; tablets revoked; sites created, reopened, closed |
| `Texts` | `documents.controller.ts`, `site-documents.service.ts`, `guest.controller.ts`, `kiosk.service.ts` | publish, create, switch; load, read the notice, the documents, their texts; accept |
| `Directory` | `management.controller.ts` hosts, `access.service.ts` | create and save a host from an earlier read, employees put and deleted |
| `Operator` | `cli/tenants.ts`, `tenant-keys.service.ts`, `tenant-resolver.middleware.ts` | the commands, restarts with another keyring, the caches |
| `Throttle` | `db-throttler.storage.ts` | upsert, SELECT, block, forget, time |
| `Calendar` | `BadgeParking.tsx`, `app/parking.tsx`, `parking.service.ts` | change site, pick, choose, book, give back; calendars and answers that come in any order |
| `Kiosk`, `GuestPage`, `Reader` | `web/src/kiosk`, `web/src/guest`, `ReaderApp.tsx` | the steps of a form, requests and their answers, idle resets, verdicts and their timers |
| `Phone`, `BadgePage`, `Inviting` | `mobile/src`, `BadgeApp.tsx`, `BadgeInvites.tsx` | activation, removal, notices, colours; codes drawn; invitations made, shown, cancelled |
| `Console`, `Entry` | `web/src/admin` | lists, forms and saves in several calls; sign-in, account page, enrolment |

## What is checked

| Run | Asks | Properties |
| --- | --- | --- |
| `guest` | three requests among submissions, cancellations and both check-ins race for one invitation; one crash | `ImagesFollowOwner`, `ImagesStay`, `ImplementsAdmission` |
| `retention` | two requests of any kind against the retention run, retentions of zero days so that every date passes; one crash | `ImagesAccountedFor`, `VisitLifecycle` |
| `retention_liveness` | does everything due happen, though two processes die | `RetentionKept` |
| `erased` | violation: an erased visit keeps a photo of its check-out | `ErasedKeepsNoImage` |
| `parking_weekly` | the cron's weekly run against the console's, bookings, cancellations, departures, a run that dies | `RecordedWeekIsBooked`, `SpotsAsOffered`, `GivenBackStaysFree` |
| `parking_liveness` | every administrative operation and bookings of one day or several over two weeks, a failure | `WeekIsHandedOut`, `PastBookingsStay` |
| `outboxes_delivery` | two rows of any kind, two runs, refusals and late answers, devices and hooks that come and go, a run that dies or loses its lock | `MarkedAsDelivered`, `FewLateMails`, `EveryRowIsSettled` |
| `badges_doors` | two requests at a time in five kinds of days | `TypeOK`, `GuessesBounded`, `WhatIsShared`, `NoticesFollowBadge`, `GrantedHeld` |
| `accounts_console` | two requests at a time in eleven kinds of days | `TypeOK`, `EntriesBounded`, `EndedStaysEnded`, `SecondFactorHolds`, `WayInStays` |
| `premises_day` | the eight parts of `Premises`, each with all its requests crossing | `TypeOK` and one property for each part |
| `screens_day` | the eight applications of `Screens`, each with its answers in any order | one property for each but the guest's page, which shares `ShownBeforeAccepted` with the tablet |
| `phone_removed` | violation: an answer under way puts a removed badge back on the phone | `RemovedStaysRemoved` |

What the passing runs show, beyond their names:

- A conditional UPDATE on the invitation is enough to admit once, whatever was read before it, and
  `cancel`, which ignores the outcome of its UPDATE, purges nothing a visit has taken over
  (`ImagesFollowOwner`), since it lists the images after it.
- `ImagesAccountedFor` is weak on purpose: between the deletion of a blob and the marking of its row,
  or when a purge died there, a row says STORED of a blob that is gone. Never the other way round;
  and an erased visit keeps no image of the person unless a check-out crossed the erasure.
- The limit of parking bookings can be overrun by requests in parallel, by at most one booking for
  each request but the last (`SpotsAsOffered`). `RecordedWeekIsBooked` is stated while benefits,
  applications and spots are left alone: a benefit given later does not change a week handed out
  before, except through `benefitChanged`.
- A row of an outbox says sent only of what was taken. A push is repeated only when a run died or
  lost its lock; a mail for something that is over goes out once, by the run that had read it before,
  and once more for each fault. The lock is what bounds this, and the status is not.
- The unique index keeps an employee's external id; nothing but the order of requests keeps a card
  with one person (`WhatIsShared` says when it may be lost). A grant rests on facts each of which held
  while the reader waited, though perhaps never all at once (`GrantedHeld`).
- The lock after wrong passwords bounds guesses up to one more round for each write of a count that
  was no longer the one read (`EntriesBounded`).

### Bounds

Every bound is a constant of its module, given in the `.cfg`.

Reception: two or three requests (every hazard listed needs two operations and the check-in that
made the visit, three in all), one invitation (requests of two invitations share only codes and the
job), one exit code (two draws may coincide), `DayLength` 1 and a clock of one or two ticks
(every date compared with the clock is reached on both sides; the retentions are 0 or 1 day), up to
two crashes.

Parking: one or two requests and the cron, one or two people, one or two spots (a swap needs two),
weeks of two days with one worked (weeks that end, days that are not worked, this week and the next),
a calendar of two or four days (`MaxDay` 1 or 3), `MaxActive` 1, one failure. `WeekLength` is 7 in the
code and `WorkingDaysInWeek` 5; the proofs hold for any.

Outboxes: two runs (a job that has lost its lock and the one that has taken it), two rows read one at
a time (`BatchSize` 1, so that the cursor moves), one or two attempts, one fault, and `MaxTrouble` over rows,
faults and endings together; the kinds an organisation uses come in five groups (`Installations`).

Badges, Accounts: two requests at a time, two people, and `Agendas`: which kinds of requests one
behaviour mixes and how many begin. Every pair of operations that write a common column, or of which
one writes what the other reads, is in an agenda. The codes have a range of two, the lock
comes after two failures, and the clock of the codes moves once.

Premises, Screens: two requests, devices, marshals, lots or sites at a time, windows and lifetimes
of one to four ticks, two versions of a text; one answer of each kind that is late, and two pages of most
(`LastLoad`, `LastForm`, ...), so that an answer to an earlier question meets a later one.

Symmetry is used only where no liveness property is checked: requests, people, phones, browsers and
devices are interchangeable wherever no constant singles one out.

Deadlock is checked in the runs of the front desk (but `erased`'s property ends it first) and in
`parking_weekly`, where the cron always has something to do. The other systems may stop: when the
bounded requests, codes, rows and failures are used up, and when a calendar has ended with every spot off.

### Fairness

`Reception!FairSpec`: weak fairness of the retention run, since the cron starts it again and nothing
it waits for can block it, and of each request that has begun, since the event loop goes on with it
(or the process dies, which is `RequestFails`). No fairness for arrivals, crashes or time.
`Parking!FairSpec`: weak fairness of the cron's weekly run, and of the commit of a console's run,
since the cron's waits for it: a transaction ends. `Outboxes!FairSpec`: weak fairness of the cron of
each job, of each run's steps (a server answers or times out, which is an answer too) and of a
`nextAt` that passes. Nothing else is assumed, and no server is assumed ever to accept.

## What is proved

Each theorem holds for every value of the constants that satisfies the `ASSUME` of its module (the
ones a tool can check are checked on every run): the sets are disjoint from the value that stands
for null, lengths and limits are natural numbers, requests, users or runs are finite where they are counted.
For any number of requests, then, and any interleaving of them.

| Module | Theorem | Property | Says |
| --- | --- | --- | --- |
| `ReceptionProofs` | `TypeCorrect` | - | every variable of the front desk keeps its type, for any number of requests and invitations |
| `ReceptionProofs` | `InvitationUsedOnce` | - | an invitation is checked in by at most one visit, and stays marked as used |
| `ReceptionProofs` | `VisitsEndOnce` | `VisitLifecycle` | a visit that has ended or was erased never changes back, whoever ends it |
| `ReceptionProofs` | `FrontDeskImplementsAdmission` | `ImplementsAdmission` | every step of the front desk is a step of the abstract admission or a stutter |
| `ImageProofs` | `ImagesKeepTheirVisit` | `ImagesStay` | an image that belongs to a visit stays with this visit and a purged one never returns, whatever races for it |
| `ImageProofs` | `ImagesGoWithOwner` | `ImagesFollowOwner` | images go with their owner, to the visit that was let in or away with the invitation that was withdrawn, whichever of check-in, cancellation, submission and purge comes last |
| `ImageProofs` | `NoImageForgotten` | `ImagesAccountedFor` | rows and object storage agree, an image does not outlive its invitation, and an erased visit keeps no image of the person, while purges die half-way |
| `AccountsProofs` | `TypeCorrect` | `TypeOK` | users, tokens, attempts, requests and histories keep their types, and what a request overlooks it has read, for any number of requests, users, browsers and attempts |
| `AccountsProofs` | `EntriesAreBounded` | `EntriesBounded` | wrong passwords and codes stay below what the lock allows, but for one round for each write of a count that was no longer the one read; an attempt of single sign-on opens one thing, in the browser it began in |
| `AccountsProofs` | `EndedSessionsStayEnded` | `EndedStaysEnded` | a session that was refused, or that has an old password, is not accepted again unless its version was written over by a request that had read an older one |
| `AccountsProofs` | `SecondFactorIsKept` | `SecondFactorHolds` | a code is accepted once, and an account asks for codes of a secret a code has confirmed, unless the factor was changed under a request that had read it |
| `AccountsProofs` | `WayInIsKept` | `WayInStays` | while the directory is required it exists and an administrator can sign in without it, and accounts are bound to the directory that is linked, unless requests crossed on the administrators or the link |
| `BadgeProofs` | `TypeCorrect` | `TypeOK` | every table, request and history variable of the badges keeps its type, for any number of requests, employees, phones and codes |
| `BadgeProofs` | `CodesGuessedSeldom` | `GuessesBounded` | a window sees at most the allowed number of guesses, but for those that requests for a code gave back by crossing a guess, once each |
| `BadgeProofs` | `SharedOnlyByCrossing` | `WhatIsShared` | two employees share a card, or one is on a deleted project, only if two requests crossed between their read and their write |
| `BadgeProofs` | `NoticesGoToBadge` | `NoticesFollowBadge` | notices go to the phone that holds the badge, whatever issues, revocations, removals and registrations interleave |
| `BadgeProofs` | `GrantsAreEarned` | `GrantedHeld` | a door opens only if each condition of access held at some time while the reader waited |
| `OutboxProofs` | `TypeCorrect` | - | the rows, items, locks and runs of the outboxes keep their types, for any number of runs, rows and devices |
| `OutboxProofs` | `MarksAreDeliveries` | `MarkedAsDelivered` | a mail or webhook marked as sent was taken, and a notice that reached a phone is not pushed again unless a run died or lost its lock, whatever runs, kicks and replicas overlap |
| `OutboxProofs` | `LateMailsAreFew` | `FewLateMails` | at most one mail goes out for something that is over, and one more for each run that died or lost its lock, for any number of runs: the lock is what bounds it |
| `ParkingProofs` | `TypeCorrect` | - | every variable of the parking keeps its type, and the bookings respect the two unique indexes |
| `ParkingProofs` | `GivenBackDaysStayFree` | `GivenBackStaysFree` | no weekly run books again a day a manager has given back |
| `ParkingProofs` | `SpotsAreAsOffered` | `SpotsAsOffered` | a chosen spot is never swapped, and requests that race exceed the limit of active bookings by at most one each but the last |
| `ParkingProofs` | `RecordedWeeksAreBooked` | `RecordedWeekIsBooked` | at a site whose benefits and spots are left alone a recorded week was handed out whole, whatever died |
| `ParkingProofs` | `PastIsKept` | `PastBookingsStay` | no request removes a booking older than the day the request began, but the departure of its person |
| `PremisesProofs` | `TypeCorrect` | `TypeOK` | the tables, requests, caches and counters of the seven server-side parts keep their types, for any number of each |
| `PremisesProofs` | `ParcelPhotos` | `PhotosFollowParcels` | a parcel's photo and record stay as long as they must and no longer, whatever handovers, removals and retention runs cross, and wherever a request dies |
| `PremisesProofs` | `RollCallHolds` | `RollCallKept` | the counts an ended roll call keeps are those of its ticks, for any number of guests, employees and marshals |
| `PremisesProofs` | `PlanRespected` | `PlanHolds` | a code enrols one device, and tablets and sites stay within the plan but for requests that crossed |
| `PremisesProofs` | `GuestsAccept` | `AcceptedInForce` | what a check-in records as accepted was in force during the request and leaves out no document asked for all that while |
| `PremisesProofs` | `DirectoryRight` | `DirectoryHolds` | saves of a host cut no link their request could not see, and one person stands for an employee, under the employee's name |
| `PremisesProofs` | `ShreddingHolds` | `ShreddedForGood` | shredded keys stay away and caches run out in time, through restarts and the rotation of the master key, for any number of replicas |
| `PremisesProofs` | `LimitRespected` | `LimitHolds` | at most Limit of the requests counted in a window pass, for any number of callers and replicas |
| `PremisesProofs` | `CalendarBooks` | `BookedWherePicked` | a day is booked at the site on whose calendar it was picked, for any number of calendars that come late |
| `ScreensProofs` | `TabletKeepsGuests` | `OneGuestOneVisit` | until an answer crosses a change of guest the tablet shows nobody another's name, invitation or visit, and a submission makes two visits only when an answer was lost, for any number of visitors and requests under way |
| `ScreensProofs` | `AcceptedAsShown` | `ShownBeforeAccepted` | whoever accepted a text at the tablet or on a guest's link had it on the screen when ticking, but where the page itself asks for no new tick, whatever is published meanwhile |
| `ScreensProofs` | `ReaderSendsOnce` | `PassagesOnce` | a card or a code that stays at the door is sent once, unless another of its kind is read between or the reader of a screen that is gone still hears, for any number of screens, cards and codes |
| `ScreensProofs` | `RemovedStaysDead` | `RemovedIsDead` | a badge whose phone was told that it is removed is not in force, for any number of badges and requests under way, unless the server never heard of it and the phone said so |
| `ScreensProofs` | `InvitesOnce` | `InvitedOnce` | one form makes one invitation unless an answer was lost, and the code to forward is of the invitation shown, which is open, unless it was cancelled or replaced while the screen was loading it, for any number of forms and requests |
| `ScreensProofs` | `ConsoleTellsTruth` | `ConsoleKeepsWord` | what a page of the console says it saved is what the server holds unless somebody wrote after, a form makes one row unless it was sent again, and the recovery codes shown are those in force, for any number of pages, loads and requests |
| `ScreensProofs` | `CodeNeverGoesBack` | `CodeFollowsClock` | the code drawn is of the badge shown and its step never goes back, however late a drawing ends: an action property, for any clock |

**Front desk.** `ReceptionProofs!IInv` is `TypeOK`, `RequestsOK`, `JobOK` and
`OneVisitPerInvitation`. `RequestsOK` says what a handler has loaded at each point: without it the
commit of a check-in is not even well typed, and nothing says that the visit it inserts was not there.
`OneVisitPerInvitation` is inductive with these: the commit demands PENDING in the latest row, and no
other action leaves PENDING for USED or changes `visit` in an invitation. The refinement takes one
abstract action for each action that writes `invitation` or `visit`; all others stutter.

**Images.** `ImageInv` adds where each image points (`Bearings`), what each purge has listed
(`ListedOK`), how far a cancellation, an erasure and the run have come (`CancelOK`, `EraseOK`,
`RunOK`), and the dates: the purge date of an image is no later than what leads to it, which makes
the two cut-offs of the retention run agree. It rests on the arithmetic of days (`Multiples`).

**Parking.** `IInv` is `TypeOK`, `RequestsOK` (what a request carries at each point) and `WeeksOK`:
the Mondays recorded are whole multiples of the week; a week on its way is not recorded, and has
one run; a weekly booking ever made is on a day of a recorded week, unless a benefit change made
it. Only a weekly commit inserts a row of the runs; its week is not recorded; so none of the rows it
inserts was ever made, since two weeks share no working day (`WeeksAreDisjoint`): a booking given back
never comes back from a run. `BInv` adds what each handler has read (`ChosenOK`) and counts
the active bookings of a person against the requests in flight (`LimitOK`).

**Outboxes.** `IInv` is `TypeOK` and: what a run knows of its batch (`Carried`); the runs of a job
beside the owner of the lock are no more than the faults (`Locked`); a message about to be marked
was taken (`Taken`); without faults a notice that was taken is marked or about to be (`Pushed`); and the mails
that went out for nothing, with the runs that may still send one, are at most one and one for each
fault (`Tardy`). This last one is why the bound holds: only a run that read its batch while the item was open
can still send, and only the owner of the lock reads.

**Badges.** `IInv` is `TypeOK` and: what each request carries (`Carried`), one row for each external id
(`OneRowEach`), a card or project found free is free or was crossed (`StillFree`), guesses
against the attempts of the row and of those who have read them (`Counted`), registrations and
verifications under way (`Uncrossed`, `Verified`).

**Accounts.** The requests of the console read a row, wait, and write columns of it from what they
read. `IInv` takes the columns one by one: the count of failures (`CountState`), the version of the
sessions (`VersionState`), the second factor (`FactorState`), the roles and the directory
(`WayState`), the attempts of single sign-on (`AttemptState`). Each says what is true of the column,
and `Knows` says what a request that has read the column still knows of it: its copy is the row's,
unless the request is marked (`over`) as one under which somebody has written. So a write of an unmarked
request moves the column from where it is, and a write of a marked one is what the histories `overlaps` and
`crossed` record, which the properties except. The step lemmas then share a few facts: a write
marks whoever has read what it writes (`WriteMoves`, `OthersKnow`), a row that is written whole
(`RowWriteKeeps`), one column of it (`FactorWriteKeeps`), or the organisation's (`TenantWrite`).
Two parts were missing in the first form, and TLC or the prover showed it: that nobody has failed at an
account that does not exist yet (`Untried`), without which the creation of a user could start
with a count, and which answer of the provider a callback carries (`AttemptCarried`).

**Premises.** `StepOfParts` says that a step is one part's and leaves the others alone, so `AllInv` is
the conjunction of eight invariants, each preserved by the steps of its part.

- `ParcelInv`: what a request about a parcel knows at each step (`ParcelsCarried`), when a photo is due
  (`PhotosDated`: a parcel handed over has its photo due a week later, or the handover was cut or
  crossed, or its second step is still to come), and that a purge under way of a parcel handed over
  has crossed the handover or comes after the week (`PurgesCrossed`). `AfterCollect < PhotoDays <
  KeepDays` is needed: the record goes only after the photo.
- `RollInv`: a request to end has counted what is ticked now, unless it is `blurred`; every tick of an
  employee is of one who has passed a door. Guests and employees are finite sets, since they are counted.
- `PairInv`: a code that may still enrol a tablet is the only one made when none was out, and while there
  is one, there is room (`Redeemable`, `Enrolled`); what a request counted is true until another crosses.
- `TextInv`: what a guest's request has seen contains what is in force at each of its steps, and
  what it must accept is in force all the while (`GuestKnows`).
- `DirectoryInv`: what a request is about to save is what the HR system says, unless it changed since
  (`SavesFresh`). The first form of the history variable `outdated` was too generous: it kept a person
  forever who had been outdated once, and a save spoilt the other requests under way. The proof did
  not need it, and now the property excuses a person until the next save of fresh data only.
- `OperatorInv`: where the rotation has come (`Rotation`), and that a cache's remaining time and the time
  since the suspension or the shredding add up to no more than its lifetime (`CachesEnd`).
- `ThrottleInv`: the counter is the number of requests counted in its window (`HitsCounted`). The
  requests are a finite set.
- `CalendarInv`: a day picked in quiet is of the calendar shown, and every calendar on its way is of that
  site too (`PickedOnView`).

**Screens.** `ScreensInv` is one invariant for each application; a step of one leaves what the others
keep unchanged (`StepOfScreens`), so each is preserved by its own steps alone. They all have to say what
an answer that is still on its way may do, which the properties never mention:

- `KioskInv`: a request whose screen is still there is of the guest and the screen in front
  (`LiveCall`), one registration waits at a time (`OneFlow`), and the ticks are for the texts the tablet
  holds unless these were swapped under the form (`TickedOK`). `GuestPageInv`: what is posted was
  ticked as shown (`AsShown`).
- `ReaderInv`: the screen in front remembers what was sent last, as long as no screen that is gone
  hears (`SentOK`). `PhoneInv`: what was issued and what was removed agree between the server, the phone
  and the requests between them (`IssuedOK`, `RemovalOK`). `BadgePageInv`: the code drawn is of
  the badge in hand and of no later step than the clock has reached, and an activation waits only where
  there is no badge (`CodeOK`).
- `InvitingInv`: an invitation is made by one request of one form (`MadeOK`, `FormsOK`), and what
  is shown was loaded for the screen that shows it (`OfScreen`, `ShownOK`).
- `ConsoleInv`: of each save that nobody has written after, the server holds what has been sent
  so far (`SaveOK`, `Holds`); a form whose row is not made yet has one request that makes it, unless it was
  sent again (`JobsOK`). `EntryInv`: unless an answer was lost or has lost its page, at most one request makes recovery codes;
  it brings the last ones made, and while it is under way no codes are on the page
  (`CodesOnTheirWay`). These two were checked as invariants of runs before they were proved, since a
  save of several calls and codes made twice leave the most ways to be wrong.

**Model-checked only:** the liveness properties `RetentionKept`, `WeekIsHandedOut` and
`EveryRowIsSettled`, which are out of the prover's reach since they rest on fairness (and so is ENABLED;
no module has a recursive definition, so nothing else is); and the violated properties of the runs `erased` and `phone_removed`.

## Where the code does not do what it says

- `visit-lifecycle.service.ts:16`: an erasure lists the images, then marks the visit; a check-out in
  between adds a photo that stays until its retention, though the comment promises that only site,
  times and purpose survive (`erased`).
- `mobile/src/lib/badge-context.tsx:50`: the answer with the organisation's colours saves the badge
  its request left with; a badge removed meanwhile is in the phone's storage again (`phone_removed`).

Further interleavings the models contain and no property forbids, since nothing in the code resists
them: two submissions at once keep both sets of images until their date; details of one submission
may be let in with the signature of another; two check-ins may draw the same exit code; a check-in
that is rolled back leaves the blob of its signature with no row, and no run deletes it (the one
entry under "hazards" without a property); a booking lands on a spot turned off meanwhile; two
administrators at once give one fixed spot to two managers; an update of a webhook puts back a hook
that was turned off; a request for a code gives back the attempts it had read.

## Not modelled

- The reading side of the console (dashboard, history, statistics, CSV) and the audit: queries over
  the tables that the modules write, and rows that nothing reads back.
- The ciphers, hashes and tokens of `crypto.service.ts` and of the provider's answer in `oidc.ts`: a
  ciphertext is named by the key that opens it, a token by what it was issued for.
- The schema, the migrations, validation of the requests' fields, configuration and start-up, but for
  the unique indexes and the keyring, which the modules use.
- Layout, translations, charts, camera and printing of the screens, and the tag's command protocol on
  the phone, which answers one file and keeps nothing.
- The load test and the command that makes up employees.
- Several sites of one tenant in `Parking` (they share the person only), several tenants
  anywhere: every query has the tenant's id, and nothing a module does crosses it.
