------------------------------ MODULE Operator ------------------------------
(***************************************************************************)
(* The commands of the operator on one tenant, against the replicas of the *)
(* API: suspend, activate, delete with the destruction of the keys, and    *)
(* the rotation of the master key, which is a restart of every replica     *)
(* with the new key added, the rewrap command, and a restart without the   *)
(* old key.  A replica keeps who the tenant is for a minute and its        *)
(* unwrapped keys for five.                                                *)
(*                                                                         *)
(* A definition under a "Bug:" comment is not part of the specification:   *)
(* it is the definition that follows with a plausible mistake in it, which *)
(* the properties must notice.                                             *)
(***************************************************************************)
EXTENDS Integers

CONSTANTS
  Replicas,             \* the processes of the API
  ResolverTTL, KeysTTL  \* 1 and 5 minutes

ASSUME OperatorAssumption ==
  {ResolverTTL, KeysTTL} \subseteq Nat /\ 0 < ResolverTTL /\ ResolverTTL < KeysTTL

VARIABLES
  tenant,    \* row of the table tenants; wrapped: the master key of its keys
  replica,   \* master keys configured, and the two caches with the minutes they have left
  stage,     \* master keys in the environment: 0 the old, 1 both, 2 the new
  command,   \* the commands in progress: delete, rewrap, create
  since,     \* minutes since the suspension and the destruction of the keys (history)
  revived    \* the keys were written back by a rewrap that crossed a delete (history)

operatorVars == <<tenant, replica, stage, command, since, revived>>

Never == -1
Long == KeysTTL + 1
Commands == {"delete", "rewrap", "create"}

OperatorTypeOK ==
  /\ stage \in 0..2 /\ revived \in BOOLEAN
  /\ tenant \in [status : {"absent", "active", "suspended", "gone"}, wrapped : {"none", "old", "new"}]
  /\ replica \in [Replicas -> [stage : 0..2, known : {"none", "active", "suspended"}, left : 0..ResolverTTL,
                               keysLeft : 0..KeysTTL]]
  /\ command \in [Commands -> [pc : {"idle", "shred", "erase", "save", "done"}, read : {"none", "old", "new"}]]
  /\ since \in [suspended : Never..Long, shredded : Never..Long]

Fresh(st) == [stage |-> st, known |-> "none", left |-> 0, keysLeft |-> 0]

OperatorInit ==
  /\ stage = 0 /\ revived = FALSE
  /\ tenant = [status |-> "absent", wrapped |-> "none"]
  /\ replica = [r \in Replicas |-> Fresh(0)]
  /\ command = [c \in Commands |-> [pc |-> "idle", read |-> "none"]]
  /\ since = [suspended |-> Never, shredded |-> Never]

\* The master keys of a stage; new keys are wrapped with the last one.
Opens(st) == CASE st = 0 -> {"old"} [] st = 1 -> {"old", "new"} [] OTHER -> {"new"}
Active(st) == IF st = 0 THEN "old" ELSE "new"
Commanding(c, pc) == command[c].pc = pc

Older(age) == IF age \in {Never, Long} THEN age ELSE age + 1
MinutePasses ==
  /\ replica' = [r \in Replicas |->
       [replica[r] EXCEPT !.known = IF replica[r].left = 0 THEN "none" ELSE @,
                          !.left = IF @ = 0 THEN 0 ELSE @ - 1, !.keysLeft = IF @ = 0 THEN 0 ELSE @ - 1]]
  /\ since' = [suspended |-> Older(since.suspended), shredded |-> Older(since.shredded)]
  /\ UNCHANGED <<tenant, stage, command, revived>>

-----------------------------------------------------------------------------
(* Commands: each is a process with the environment of its moment *)

\* One transaction; the keys are bound to the new row.  No tenant is made while the
\* replicas restart with the new key: those still without it could not serve it.
Create ==
  /\ tenant.status = "absent" /\ Commanding("create", "idle")
  /\ stage = 1 => \A r \in Replicas : replica[r].stage = 1
  /\ tenant' = [status |-> "active", wrapped |-> Active(stage)]
  /\ command' = [command EXCEPT !["create"].pc = "done"]
  /\ UNCHANGED <<replica, stage, since, revived>>

Suspend ==
  /\ tenant.status = "active" /\ tenant' = [tenant EXCEPT !.status = "suspended"]
  /\ since' = [since EXCEPT !.suspended = 0]
  /\ UNCHANGED <<replica, stage, command, revived>>

Activate ==
  /\ tenant.status = "suspended" /\ tenant' = [tenant EXCEPT !.status = "active"]
  /\ since' = [since EXCEPT !.suspended = Never]
  /\ UNCHANGED <<replica, stage, command, revived>>

DeleteReads ==
  /\ tenant.status \in {"active", "suspended"} /\ Commanding("delete", "idle")
  /\ command' = [command EXCEPT !["delete"].pc = "shred"]
  /\ UNCHANGED <<tenant, replica, stage, since, revived>>

\* Bug: the keys are left for the last step.
ShredsLate == [tenant EXCEPT !.status = "suspended"]

Shreds == [status |-> "suspended", wrapped |-> "none"]

\* 1) the keys go first; a command that dies has destroyed them already.
DeleteShreds ==
  /\ Commanding("delete", "shred") /\ tenant' = Shreds
  /\ since' = [suspended |-> IF since.suspended = Never THEN 0 ELSE since.suspended, shredded |-> 0]
  /\ command' = [command EXCEPT !["delete"].pc = "erase"]
  /\ revived' = FALSE
  /\ UNCHANGED <<replica, stage>>

\* 2) the images, then every row in one transaction.
DeleteErases ==
  /\ Commanding("delete", "erase") /\ tenant' = [status |-> "gone", wrapped |-> "none"]
  /\ command' = [command EXCEPT !["delete"].pc = "done"]
  /\ UNCHANGED <<replica, stage, since, revived>>

DeleteDies ==
  /\ Commanding("delete", "erase") /\ command' = [command EXCEPT !["delete"].pc = "done"]
  /\ UNCHANGED <<tenant, replica, stage, since, revived>>

-----------------------------------------------------------------------------
(* The rotation, in the order of the handbook *)

KeyAdded ==
  /\ stage = 0 /\ stage' = 1
  /\ UNCHANGED <<tenant, replica, command, since, revived>>

Restarts(r) ==
  /\ replica' = [replica EXCEPT ![r] = Fresh(stage)]
  /\ UNCHANGED <<tenant, stage, command, since, revived>>

\* The list of the tenants with their keys; one without keys is skipped.
RewrapReads ==
  /\ stage = 1 /\ \A r \in Replicas : replica[r].stage = 1
  /\ Commanding("rewrap", "idle")
  /\ command' = [command EXCEPT !["rewrap"] =
       IF tenant.wrapped = "none" THEN [pc |-> "done", read |-> "none"] ELSE [pc |-> "save", read |-> tenant.wrapped]]
  /\ UNCHANGED <<tenant, replica, stage, since, revived>>

\* The UPDATE by id finds the row as the command read it, whatever happened since.
RewrapSaves ==
  /\ Commanding("rewrap", "save")
  /\ tenant' = IF tenant.status = "gone" THEN tenant ELSE [tenant EXCEPT !.wrapped = Active(stage)]
  /\ revived' = (tenant.status # "gone" /\ tenant.wrapped = "none")
  /\ command' = [command EXCEPT !["rewrap"] = [pc |-> "done", read |-> "none"]]
  /\ UNCHANGED <<replica, stage, since>>

KeyRemoved ==
  /\ stage = 1 /\ Commanding("rewrap", "done") /\ stage' = 2
  /\ UNCHANGED <<tenant, replica, command, since, revived>>

-----------------------------------------------------------------------------
(* The replicas *)

HasKeys(r) == replica[r].keysLeft > 0

Resolves(r) ==
  /\ replica[r].known = "none" /\ tenant.status \in {"active", "suspended"}
  /\ replica' = [replica EXCEPT ![r].known = tenant.status, ![r].left = ResolverTTL]
  /\ UNCHANGED <<tenant, stage, command, since, revived>>

\* A request past the resolver, or a job, unwraps the keys; without them, or without
\* their master key, it fails.
Unwraps(r) ==
  /\ ~HasKeys(r) /\ tenant.wrapped \in Opens(replica[r].stage)
  /\ replica' = [replica EXCEPT ![r].keysLeft = KeysTTL]
  /\ UNCHANGED <<tenant, stage, command, since, revived>>

OperatorNext ==
  \/ MinutePasses \/ Create \/ Suspend \/ Activate
  \/ DeleteReads \/ DeleteShreds \/ DeleteErases \/ DeleteDies
  \/ KeyAdded \/ RewrapReads \/ RewrapSaves \/ KeyRemoved
  \/ \E r \in Replicas : Restarts(r) \/ Resolves(r) \/ Unwraps(r)

-----------------------------------------------------------------------------
(* Once a delete has destroyed the keys they never come back, unless a       *)
(* rewrap crossed it, and no replica has them after KeysTTL; a tenant        *)
(* suspended for more than ResolverTTL is served by none; and through the    *)
(* whole rotation every replica can open the keys of a tenant that has them. *)
ShreddedForGood ==
  /\ since.shredded # Never /\ ~revived =>
       /\ tenant.wrapped = "none"
       /\ \A r \in Replicas : HasKeys(r) => since.shredded < KeysTTL
  /\ since.suspended # Never =>
       \A r \in Replicas : replica[r].known = "active" => since.suspended <= ResolverTTL
  /\ tenant.wrapped # "none" => \A r \in Replicas : tenant.wrapped \in Opens(replica[r].stage)
=============================================================================
