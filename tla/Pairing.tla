------------------------------ MODULE Pairing ------------------------------
(***************************************************************************)
(* Tablets and door readers enrol with a one-time code of fifteen minutes. *)
(* The plan's number of tablets is looked at when a code is made, not when *)
(* it is used.  Sites have a number in the plan, too, counted before a     *)
(* site is made or put back in use.  Each request stops at its awaits.     *)
(*                                                                         *)
(* A definition under a "Bug:" comment is not part of the specification:   *)
(* it is the definition that follows with a plausible mistake in it, which *)
(* the properties must notice.                                             *)
(***************************************************************************)
EXTENDS Integers, FiniteSets

CONSTANTS
  Installers,   \* requests about devices and sites that may be in progress together
  Codes,        \* rows of the table pairing_codes, used in their order
  Devices,      \* rows of the tables devices and door_readers, used in their order
  Places,       \* rows of the table sites
  MaxDevices, MaxSites  \* limits of the plan

ASSUME PairingAssumption ==
  /\ {MaxDevices, MaxSites} \cup Codes \cup Devices \subseteq Nat \ {0} /\ 0 \notin Places
  /\ IsFiniteSet(Devices) /\ IsFiniteSet(Places)

VARIABLES
  code,        \* table pairing_codes
  device,      \* tables devices and door_readers
  place,       \* table sites
  installer,   \* the requests
  promised,    \* codes made while another was out or being used (history)
  crowded      \* sites counted before a crossing request put one in use (history)

pairVars == <<code, device, place, installer, promised, crowded>>

Off == [op |-> "idle", kind |-> "tablet", of |-> 0, over |-> FALSE]

PairTypeOK ==
  /\ code \in [Codes -> [state : {"absent", "issued", "used", "expired"}, kind : {"tablet", "reader"}]]
  /\ device \in [Devices -> [row : {"absent", "live", "revoked"}, kind : {"tablet", "reader"}, of : Codes \cup {0}]]
  /\ place \in [Places -> {"absent", "active", "off"}]
  /\ installer \in [Installers -> [op : {"idle", "code", "pair", "site", "reopen"}, kind : {"tablet", "reader"},
                                   of : Codes \cup Places \cup {0}, over : BOOLEAN]]
  /\ promised \subseteq Codes /\ crowded \subseteq Places

PairInit ==
  /\ code = [c \in Codes |-> [state |-> "absent", kind |-> "tablet"]]
  /\ device = [d \in Devices |-> [row |-> "absent", kind |-> "tablet", of |-> 0]]
  /\ place = [s \in Places |-> "absent"]
  /\ installer = [r \in Installers |-> Off]
  /\ promised = {} /\ crowded = {}

Tablets == {d \in Devices : device[d].row = "live" /\ device[d].kind = "tablet"}
Outstanding == {c \in Codes : code[c].kind = "tablet"
                               /\ (code[c].state = "issued" \/ \E r \in Installers : installer[r].of = c)}
InUse == {s \in Places : place[s] = "active"}
Begins(r, values) == installer[r].op = "idle" /\ installer' = [installer EXCEPT ![r] = values]

\* Request r is over; the others of that kind were crossed by it.
Closes(r, op) ==
  installer' = [q \in Installers |->
    IF q = r THEN Off ELSE IF installer[q].op \in op THEN [installer[q] EXCEPT !.over = TRUE] ELSE installer[q]]

-----------------------------------------------------------------------------
(* Codes and devices *)

\* Bug: the tablet that makes the number is let through.
RoomForTablets == Cardinality(Tablets) <= MaxDevices

RoomForTablet == Cardinality(Tablets) < MaxDevices

CodeCounts(r) ==
  /\ RoomForTablet /\ InUse # {}
  /\ Begins(r, [Off EXCEPT !.op = "code"])
  /\ UNCHANGED <<code, device, place, promised, crowded>>

\* A reader's code asks for no room.
ReaderCode(r) ==
  /\ Begins(r, [Off EXCEPT !.op = "code", !.kind = "reader"])
  /\ UNCHANGED <<code, device, place, promised, crowded>>

CodeSaves(r) ==
  LET q == installer[r] IN
  /\ q.op = "code"
  /\ \E c \in Codes :
       /\ code[c].state = "absent" /\ (\A x \in Codes : x < c => code[x].state # "absent")
       /\ code' = [code EXCEPT ![c] = [state |-> "issued", kind |-> q.kind]]
       /\ promised' = IF q.kind = "tablet" /\ (Outstanding # {} \/ q.over) THEN promised \cup {c} ELSE promised
  /\ installer' = [installer EXCEPT ![r] = Off]
  /\ UNCHANGED <<device, place, crowded>>

CodeExpires(c) ==
  /\ code[c].state = "issued" /\ code' = [code EXCEPT ![c].state = "expired"]
  /\ UNCHANGED <<device, place, installer, promised, crowded>>

\* A tablet finds the codes without a door, a reader those with one.
PairReads(r, kind) ==
  /\ \E c \in Codes : code[c] = [state |-> "issued", kind |-> kind]
                      /\ Begins(r, [Off EXCEPT !.op = "pair", !.kind = kind, !.of = c])
  /\ UNCHANGED <<code, device, place, promised, crowded>>

Unused(c) == code[c].state # "used"

\* The code is taken with a conditional UPDATE in the transaction that makes the
\* device; the fifteen minutes were looked at before.
PairCommits(r) ==
  LET q == installer[r] IN
  /\ q.op = "pair"
  /\ IF Unused(q.of)
     THEN /\ code' = [code EXCEPT ![q.of].state = "used"]
          /\ \E d \in Devices : device[d].row = "absent" /\ (\A x \in Devices : x < d => device[x].row # "absent")
                                /\ device' = [device EXCEPT ![d] = [row |-> "live", kind |-> q.kind, of |-> q.of]]
          /\ Closes(r, {"code"})
     ELSE installer' = [installer EXCEPT ![r] = Off] /\ UNCHANGED <<code, device>>
  /\ UNCHANGED <<place, promised, crowded>>

Revokes(d) ==
  /\ device[d].row = "live" /\ device' = [device EXCEPT ![d].row = "revoked"]
  /\ UNCHANGED <<code, place, installer, promised, crowded>>

-----------------------------------------------------------------------------
(* Sites *)

RoomForSite == Cardinality(InUse) < MaxSites

SiteCounts(r, s) ==
  /\ RoomForSite /\ place[s] = "absent" /\ Begins(r, [Off EXCEPT !.op = "site", !.of = s])
  /\ UNCHANGED <<code, device, place, promised, crowded>>

\* PATCH with active true: the number is looked at only if the site is off.
ReopenCounts(r, s) ==
  /\ RoomForSite /\ place[s] = "off" /\ Begins(r, [Off EXCEPT !.op = "reopen", !.of = s])
  /\ UNCHANGED <<code, device, place, promised, crowded>>

\* The code of a site is unique: the second of two rows is refused.
SiteSaves(r) ==
  LET q == installer[r] IN
  /\ q.op \in {"site", "reopen"}
  /\ q.op = "site" => place[q.of] = "absent"
  /\ place' = [place EXCEPT ![q.of] = "active"]
  /\ crowded' = IF q.over THEN crowded \cup {q.of} ELSE crowded \ {q.of}
  /\ Closes(r, {"site", "reopen"})
  /\ UNCHANGED <<code, device, promised>>

SiteRefused(r) ==
  LET q == installer[r] IN
  /\ q.op = "site" /\ place[q.of] # "absent"
  /\ installer' = [installer EXCEPT ![r] = Off]
  /\ UNCHANGED <<code, device, place, promised, crowded>>

SiteCloses(s) ==
  /\ place[s] = "active" /\ place' = [place EXCEPT ![s] = "off"]
  /\ UNCHANGED <<code, device, installer, promised, crowded>>

PairNext ==
  \/ \E c \in Codes : CodeExpires(c)
  \/ \E d \in Devices : Revokes(d)
  \/ \E s \in Places : SiteCloses(s)
  \/ \E r \in Installers :
       \/ CodeCounts(r) \/ ReaderCode(r) \/ CodeSaves(r) \/ PairCommits(r) \/ SiteSaves(r) \/ SiteRefused(r)
       \/ \E kind \in {"tablet", "reader"} : PairReads(r, kind)
       \/ \E s \in Places : SiteCounts(r, s) \/ ReopenCounts(r, s)

-----------------------------------------------------------------------------
(* The plan holds: a code enrols one device, and one of its kind; the        *)
(* tablets enrolled with codes made when no other was out, and the sites     *)
(* put in use by requests that crossed no other, are within the plan.        *)
PlanHolds ==
  /\ \A d \in Devices : device[d].row # "absent" =>
       /\ code[device[d].of].kind = device[d].kind
       /\ \A e \in Devices \ {d} : device[e].row # "absent" => device[e].of # device[d].of
  /\ Cardinality({d \in Tablets : device[d].of \notin promised}) <= MaxDevices
  /\ Cardinality(InUse \ crowded) <= MaxSites
=============================================================================
