----------------------------- MODULE RollCall ------------------------------
(***************************************************************************)
(* The evacuation of a site.  Who is inside is read from the open visits   *)
(* and from the doors passed today; the marshals tick who reached the      *)
(* assembly point, several of them at once; the end of the roll call keeps *)
(* the counts.  No index makes a running evacuation unique, and a tick is  *)
(* a request of its own: each reads the evacuation, then writes.           *)
(*                                                                         *)
(* A definition under a "Bug:" comment is not part of the specification:   *)
(* it is the definition that follows with a plausible mistake in it, which *)
(* the properties must notice.                                             *)
(***************************************************************************)
EXTENDS Integers, FiniteSets

CONSTANTS
  Marshals,    \* requests about roll calls that may be in progress together
  Guests,      \* visits of the site
  Staffers,    \* employees
  Alarms       \* rows of the table evacuations, used in their order

ASSUME RollCallAssumption ==
  /\ Alarms \subseteq Nat \ {0} /\ "none" \notin Guests \cup Staffers
  /\ IsFiniteSet(Guests) /\ IsFiniteSet(Staffers)

VARIABLES
  visit,       \* the status of the visits
  entered,     \* employees with a granted passage today
  alarm,       \* table evacuations
  ticks,       \* table evacuation_checks, unique by evacuation and person
  marshal,     \* the requests
  blurred      \* evacuations a second alarm, a tick past its check of the end, a
               \* passage during the end, or midnight has crossed (history)

rollVars == <<visit, entered, alarm, ticks, marshal, blurred>>

People == Guests \cup Staffers
Resting == [op |-> "idle", pc |-> "idle", of |-> 0, who |-> "none", listed |-> {}, people |-> 0, safe |-> 0]

RollTypeOK ==
  /\ visit \in [Guests -> {"none", "open", "closed"}] /\ entered \subseteq Staffers
  /\ alarm \in [Alarms -> [row : {"none", "running", "ended"}, people : 0..Cardinality(People), safe : 0..Cardinality(People)]]
  /\ ticks \subseteq Alarms \X People
  /\ blurred \subseteq Alarms
  /\ marshal \in [Marshals -> [op : {"idle", "start", "check", "end"}, pc : {"idle", "insert", "write", "visits", "doors", "checks", "update"},
                               of : Alarms \cup {0}, who : People \cup {"none"}, listed : SUBSET People,
                               people : 0..Cardinality(People), safe : 0..Cardinality(People)]]

RollInit ==
  /\ visit = [g \in Guests |-> "none"] /\ entered = {}
  /\ alarm = [a \in Alarms |-> [row |-> "none", people |-> 0, safe |-> 0]]
  /\ ticks = {} /\ blurred = {}
  /\ marshal = [m \in Marshals |-> Resting]

Doing(m, op, pc) == marshal[m].op = op /\ marshal[m].pc = pc
Does(m, values) == marshal[m].op = "idle" /\ marshal' = [marshal EXCEPT ![m] = values]
HasDone(m) == marshal' = [marshal EXCEPT ![m] = Resting]
Running == {a \in Alarms : alarm[a].row = "running"}

-----------------------------------------------------------------------------
(* The people of the site *)

GuestArrives(g) ==
  /\ visit[g] = "none" /\ visit' = [visit EXCEPT ![g] = "open"]
  /\ UNCHANGED <<entered, alarm, ticks, marshal, blurred>>

GuestLeaves(g) ==
  /\ visit[g] = "open" /\ visit' = [visit EXCEPT ![g] = "closed"]
  /\ UNCHANGED <<entered, alarm, ticks, marshal, blurred>>

PassesDoor(s) ==
  /\ entered' = entered \cup {s} /\ s \notin entered
  /\ UNCHANGED <<visit, alarm, ticks, marshal, blurred>>

\* Today's passages are none: whoever was ticked as an employee leaves the list.
Midnight ==
  /\ entered # {} /\ entered' = {}
  /\ blurred' = blurred \cup Running \cup {a \in Alarms : \E m \in Marshals : marshal[m].of = a}
  /\ UNCHANGED <<visit, alarm, ticks, marshal>>

-----------------------------------------------------------------------------
(* The list and the alarm *)

\* Bug: whoever was ticked and left is not on the list.
TickedAgain(a) == {}

\* Guests who left after the alarm stay on the list once ticked.
Ticked(a) == {g \in Guests : <<a, g>> \in ticks}

StartReads(m) ==
  /\ Running = {}
  /\ Does(m, [Resting EXCEPT !.op = "start", !.pc = "insert"])
  /\ UNCHANGED <<visit, entered, alarm, ticks, blurred>>

\* The row and the message to the webhooks, which are one transaction.
StartCommits(m) ==
  /\ Doing(m, "start", "insert")
  /\ \E a \in Alarms :
       /\ alarm[a].row = "none" /\ (\A b \in Alarms : b < a => alarm[b].row # "none")
       /\ alarm' = [alarm EXCEPT ![a].row = "running"]
       /\ blurred' = IF Running # {} THEN blurred \cup {a} ELSE blurred
  /\ HasDone(m)
  /\ UNCHANGED <<visit, entered, ticks>>

-----------------------------------------------------------------------------
(* Ticks *)

\* On the list a marshal looks at, which may be older than a guest's exit.
Known == {g \in Guests : visit[g] # "none"} \cup entered

CheckReads(m) ==
  /\ \E a \in Running, p \in Known : Does(m, [Resting EXCEPT !.op = "check", !.pc = "write", !.of = a, !.who = p])
  /\ UNCHANGED <<visit, entered, alarm, ticks, blurred>>

\* Past the count of an end: its numbers do not know of a tick that comes now.
Counted(a) == alarm[a].row = "ended" \/ \E m \in Marshals : Doing(m, "end", "update") /\ marshal[m].of = a

\* A tick, or one taken back.
CheckWrites(m) ==
  LET q == marshal[m] IN
  /\ Doing(m, "check", "write")
  /\ ticks' \in {ticks \cup {<<q.of, q.who>>}, ticks \ {<<q.of, q.who>>}}
  /\ blurred' = IF Counted(q.of) THEN blurred \cup {q.of} ELSE blurred
  /\ HasDone(m)
  /\ UNCHANGED <<visit, entered, alarm>>

-----------------------------------------------------------------------------
(* The end *)

EndReads(m) ==
  /\ \E a \in Running : Does(m, [Resting EXCEPT !.op = "end", !.pc = "visits", !.of = a])
  /\ UNCHANGED <<visit, entered, alarm, ticks, blurred>>

EndReadsVisits(m) ==
  /\ Doing(m, "end", "visits")
  /\ marshal' = [marshal EXCEPT ![m].pc = "doors", ![m].listed = {g \in Guests : visit[g] = "open"}]
  /\ UNCHANGED <<visit, entered, alarm, ticks, blurred>>

EndReadsDoors(m) ==
  /\ Doing(m, "end", "doors")
  /\ marshal' = [marshal EXCEPT ![m].pc = "checks", ![m].listed = @ \cup entered]
  /\ UNCHANGED <<visit, entered, alarm, ticks, blurred>>

\* The checks, then the guests ticked who are not in the first list: somebody
\* who passed a door since that read, and was ticked, is not counted.
EndCounts(m) ==
  LET a == marshal[m].of
      listed == marshal[m].listed \cup Ticked(a)
  IN
  /\ Doing(m, "end", "checks")
  /\ marshal' = [marshal EXCEPT ![m].pc = "update", ![m].listed = {}, ![m].people = Cardinality(listed),
                                ![m].safe = Cardinality({p \in listed : <<a, p>> \in ticks})]
  /\ blurred' = IF \E s \in entered \ listed : <<a, s>> \in ticks THEN blurred \cup {a} ELSE blurred
  /\ UNCHANGED <<visit, entered, alarm, ticks>>

\* The UPDATE asks nothing: a second end writes over the first.
EndUpdates(m) ==
  LET q == marshal[m] IN
  /\ Doing(m, "end", "update")
  /\ alarm' = [alarm EXCEPT ![q.of] = [row |-> "ended", people |-> q.people, safe |-> q.safe]]
  /\ HasDone(m)
  /\ UNCHANGED <<visit, entered, ticks, blurred>>

\* Bound: what follows once every evacuation is blurred is left out.
RollNext ==
  /\ blurred # Alarms
  /\ \/ \E g \in Guests : GuestArrives(g) \/ GuestLeaves(g)
     \/ \E s \in Staffers : PassesDoor(s)
     \/ Midnight
     \/ \E m \in Marshals :
          \/ StartReads(m) \/ StartCommits(m) \/ CheckReads(m) \/ CheckWrites(m)
          \/ EndReads(m) \/ EndReadsVisits(m) \/ EndReadsDoors(m) \/ EndCounts(m) \/ EndUpdates(m)

-----------------------------------------------------------------------------
(* One roll call runs at a site unless two alarms were given at once.  The  *)
(* counts kept at the end are those of                                      *)
(* the ticks, guests who left included: nobody ticked vanishes between the  *)
(* assembly point and the record, unless a tick came after the count.       *)
RollCallKept ==
  /\ Cardinality(Running \ blurred) <= 1
  /\ \A a \in Alarms \ blurred : alarm[a].row = "ended" =>
       /\ alarm[a].safe = Cardinality({p \in People : <<a, p>> \in ticks})
       /\ alarm[a].safe <= alarm[a].people
=============================================================================
