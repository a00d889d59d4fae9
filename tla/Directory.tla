----------------------------- MODULE Directory -----------------------------
(***************************************************************************)
(* The directory of the people to visit.  A manager of every site manages  *)
(* all of it; a manager of some sites the people linked to them.  A person *)
(* may be an employee of the HR system, whose name then comes from there:  *)
(* the sync writes it on the person, and takes the link off when the       *)
(* employee is deleted.  Saving a person writes back everything that was   *)
(* read with it, links included.                                           *)
(*                                                                         *)
(* A definition under a "Bug:" comment is not part of the specification:   *)
(* it is the definition that follows with a plausible mistake in it, which *)
(* the properties must notice.                                             *)
(***************************************************************************)
EXTENDS Integers

CONSTANTS
  Managers,     \* requests about the directory that may be in progress together
  HostIds,      \* rows of the table hosts
  Edited,       \* bound: those among them that are edited after their creation
  Offices,      \* the sites
  Workers,      \* rows of the table employees
  MaxName       \* bound on the names the HR system gives a worker

ASSUME DirectoryAssumption ==
  MaxName \in Nat /\ Edited \subseteq HostIds /\ "none" \notin HostIds \cup Workers /\ "keep" \notin Workers

VARIABLES
  worker,    \* table employees
  host,      \* tables hosts and host_sites
  manager,   \* the requests
  outdated,   \* hosts saved by a request that an HR change outdated (history)
  unlinked   \* links a save removed, known to its request and out of its sites (history)

directoryVars == <<worker, host, manager, outdated, unlinked>>

Quiet == [op |-> "idle", pc |-> "idle", id |-> "none", sees |-> {}, read |-> [sites |-> {}, employee |-> "none", name |-> 0],
          employee |-> "keep", name |-> 0, over |-> FALSE]
NoHost == [row |-> FALSE, sites |-> {}, employee |-> "none", name |-> 0]

\* sees: the sites of the caller; read: the host; employee: the one the request asks
\* for ("keep": none in particular); name: the employee's, once read.  An unlinked
\* person's own name is of no account here.
DirectoryTypeOK ==
  /\ worker \in [Workers -> [row : BOOLEAN, name : 0..MaxName]]
  /\ host \in [HostIds -> [row : BOOLEAN, sites : SUBSET Offices, employee : Workers \cup {"none"}, name : 0..MaxName]]
  /\ \A m \in Managers : LET q == manager[m] IN
       /\ q.op \in {"idle", "create", "update"} /\ q.pc \in {"idle", "employee", "save"}
       /\ q.id \in HostIds \cup {"none"} /\ q.sees \subseteq Offices
       /\ q.employee \in Workers \cup {"keep"} /\ q.name \in 0..MaxName /\ q.over \in BOOLEAN
  /\ outdated \subseteq HostIds /\ unlinked \subseteq HostIds \X Offices

DirectoryInit ==
  /\ worker = [w \in Workers |-> [row |-> FALSE, name |-> 0]]
  /\ host = [h \in HostIds |-> NoHost]
  /\ manager = [m \in Managers |-> Quiet]
  /\ outdated = {} /\ unlinked = {}

Managing(m, pc) == manager[m].pc = pc
Manages(m, values) == manager[m].op = "idle" /\ manager' = [manager EXCEPT ![m] = values]

\* The requests that have read w, or a host that is w, before the HR system changed it.
Crossing(w) == [m \in Managers |-> IF manager[m].pc = "save" /\ w \in {manager[m].read.employee, manager[m].employee}
                                   THEN [manager[m] EXCEPT !.over = TRUE] ELSE manager[m]]

-----------------------------------------------------------------------------
(* The HR system *)

\* The host that is this employee takes the name in the same transaction.
PutWorker(w) ==
  LET name == IF worker[w].row THEN worker[w].name + 1 ELSE worker[w].name IN
  /\ name <= MaxName
  /\ worker' = [worker EXCEPT ![w] = [row |-> TRUE, name |-> name]]
  /\ host' = [h \in HostIds |-> IF host[h].employee = w THEN [host[h] EXCEPT !.name = name] ELSE host[h]]
  /\ outdated' = {h \in outdated : host[h].employee # w}
  /\ manager' = Crossing(w)
  /\ UNCHANGED unlinked

\* The person stays, no longer linked.
DeleteWorker(w) ==
  /\ worker[w].row /\ worker' = [worker EXCEPT ![w].row = FALSE]
  /\ host' = [h \in HostIds |-> IF host[h].employee = w THEN [host[h] EXCEPT !.employee = "none", !.name = 0] ELSE host[h]]
  /\ outdated' = {h \in outdated : host[h].employee # w}
  /\ manager' = Crossing(w)
  /\ UNCHANGED unlinked

-----------------------------------------------------------------------------
(* The console *)

Given == {"keep"} \cup Workers

\* Who sees every site may give any; a manager of fewer gives fewer.
CreateHost(m, h) ==
  /\ ~host[h].row /\ \A q \in Managers : manager[q].id # h
  /\ \E e \in Given :
       Manages(m, [Quiet EXCEPT !.op = "create", !.pc = IF e = "keep" THEN "save" ELSE "employee",
                                !.id = h, !.sees = Offices, !.employee = e])
  /\ UNCHANGED <<worker, host, outdated, unlinked>>

\* A manager finds only the hosts of their sites.
UpdateReads(m, h, sees) ==
  /\ h \in Edited
  /\ host[h].row /\ host[h].sites \cap sees # {}
  /\ \E e \in Given :
       Manages(m, [Quiet EXCEPT !.op = "update", !.pc = IF e \in Workers THEN "employee" ELSE "save", !.id = h, !.sees = sees,
                                !.read = [sites |-> host[h].sites, employee |-> host[h].employee, name |-> host[h].name],
                                !.employee = e, !.over = (e = "keep" /\ h \in outdated)])
  /\ UNCHANGED <<worker, host, outdated, unlinked>>

\* The employee must be nobody's entry, except this host's; one who is not active, or
\* out of the caller's reach, is refused, too.
ReadsWorker(m) ==
  LET q == manager[m]
      w == q.employee IN
  /\ Managing(m, "employee")
  /\ \/ /\ worker[w].row /\ \A h \in HostIds \ {q.id} : host[h].employee # w
        /\ manager' = [manager EXCEPT ![m].pc = "save", ![m].name = worker[w].name]
     \/ manager' = [manager EXCEPT ![m] = Quiet]
  /\ UNCHANGED <<worker, host, outdated, unlinked>>

\* Bug: the sites the caller does not see are forgotten.
HiddenForgotten(q) == {}

\* Sites the caller cannot see stay as they are.
Hidden(q) == q.read.sites \ q.sees

\* The sites, if they are given, are the caller's; an employee already linked may be
\* kept or taken off.
Saved(q) ==
  {[row |-> TRUE, sites |-> sites, employee |-> link.employee, name |-> link.name] :
     sites \in {Hidden(q) \cup given : given \in SUBSET q.sees} \cup {q.read.sites},
     link \in IF q.employee # "keep" THEN {[employee |-> q.employee, name |-> q.name]}
              ELSE {[employee |-> "none", name |-> 0], [employee |-> q.read.employee, name |-> q.read.name]}}

\* One transaction that writes every column and link that differs from the row; the
\* index on the employee refuses a second entry.
Saves(m, now) ==
  LET q == manager[m]
      h == q.id
      removed == {s \in q.read.sites \cap host[h].sites : s \notin now.sites /\ s \notin q.sees}
      taken == now.employee # "none" /\ \E g \in HostIds \ {h} : host[g].employee = now.employee
  IN
  /\ Managing(m, "save") /\ now.sites # {}
  /\ IF taken THEN UNCHANGED <<host, outdated, unlinked>>
     ELSE /\ host' = [host EXCEPT ![h] = now]
          /\ unlinked' = unlinked \cup {<<h, s>> : s \in removed}
          /\ outdated' = IF q.over THEN outdated \cup {h} ELSE outdated \ {h}
  /\ manager' = [manager EXCEPT ![m] = Quiet]
  /\ UNCHANGED worker

Sights == {Offices} \cup {{s} : s \in Offices}

DirectoryNext ==
  \/ \E w \in Workers : DeleteWorker(w) \/ PutWorker(w)
  \/ \E m \in Managers :
       \/ ReadsWorker(m) \/ \E now \in Saved(manager[m]) : Saves(m, now)
       \/ \E h \in HostIds : CreateHost(m, h) \/ \E sees \in Sights : UpdateReads(m, h, sees)

-----------------------------------------------------------------------------
(* Whatever two managers and the HR system do at once, a save never takes    *)
(* away a link to a site out of its caller's that the request knew of, a     *)
(* person stays linked to some site, an employee is the entry of one person  *)
(* at most, and a linked person has the employee's name, and an employee,    *)
(* unless a save outdated a change of the HR system.                          *)
DirectoryHolds ==
  /\ unlinked = {}
  /\ \A h \in HostIds : host[h].row => host[h].sites # {}
  /\ \A g, h \in HostIds : g # h /\ host[g].employee # "none" => host[g].employee # host[h].employee
  /\ \A h \in HostIds \ outdated : host[h].employee # "none" =>
       worker[host[h].employee].row /\ worker[host[h].employee].name = host[h].name
=============================================================================
