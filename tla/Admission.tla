----------------------------- MODULE Admission -----------------------------
(***************************************************************************)
(* What the reception promises, without requests, transactions, files or   *)
(* clocks: an invitation is good for one admission, a visitor is inside    *)
(* from the admission until they leave, and personal data, once forgotten, *)
(* is never known again.                                                   *)
(*                                                                         *)
(* Module Reception is shown to implement this specification.              *)
(***************************************************************************)
CONSTANTS
  Invitations,   \* invitations that may ever be issued
  Visits,        \* visits that may ever be registered
  Nobody         \* the holder of an invitation nobody has used, no visit

VARIABLES
  pass,       \* pass[i]: what invitation i is worth
  holder,     \* holder[i]: the visit invitation i admitted, or Nobody
  presence,   \* presence[v]: where the visitor of v is
  known       \* the visits whose personal data can still be read

avars == <<pass, holder, presence, known>>

ATypeOK ==
  /\ pass \in [Invitations -> {"none", "open", "used", "withdrawn", "gone"}]
  /\ holder \in [Invitations -> Visits \cup {Nobody}]
  /\ presence \in [Visits -> {"outside", "inside", "left"}]
  /\ known \in SUBSET Visits

AInit ==
  /\ pass = [i \in Invitations |-> "none"]
  /\ holder = [i \in Invitations |-> Nobody]
  /\ presence = [v \in Visits |-> "outside"]
  /\ known = {}

Invite(i) ==
  /\ pass[i] = "none"
  /\ pass' = [pass EXCEPT ![i] = "open"]
  /\ UNCHANGED <<holder, presence, known>>

Withdraw(i) ==
  /\ pass[i] = "open"
  /\ pass' = [pass EXCEPT ![i] = "withdrawn"]
  /\ UNCHANGED <<holder, presence, known>>

\* Old invitations go, whatever became of them.
Discard(I) ==
  /\ \A i \in I : pass[i] # "none"
  /\ pass' = [i \in Invitations |-> IF i \in I THEN "gone" ELSE pass[i]]
  /\ UNCHANGED <<holder, presence, known>>

Enter(v) ==
  /\ presence[v] = "outside"
  /\ presence' = [presence EXCEPT ![v] = "inside"]
  /\ known' = known \cup {v}

WalkIn(v) ==
  /\ Enter(v)
  /\ UNCHANGED <<pass, holder>>

\* The invitation is spent in the same step that lets its guest in.
Admit(v, i) ==
  /\ Enter(v)
  /\ pass[i] = "open"
  /\ pass' = [pass EXCEPT ![i] = "used"]
  /\ holder' = [holder EXCEPT ![i] = v]

Leave(V) ==
  /\ \A v \in V : presence[v] = "inside"
  /\ presence' = [v \in Visits |-> IF v \in V THEN "left" ELSE presence[v]]
  /\ UNCHANGED <<pass, holder, known>>

\* Retention anonymises in place; an erasure also ends the visit.
Forget(v) ==
  /\ presence[v] # "outside"
  /\ known' = known \ {v}
  /\ \/ UNCHANGED presence
     \/ presence' = [presence EXCEPT ![v] = "left"]
  /\ UNCHANGED <<pass, holder>>

ANext ==
  \/ \E i \in Invitations : Invite(i) \/ Withdraw(i)
  \/ \E I \in SUBSET Invitations : Discard(I)
  \/ \E v \in Visits : WalkIn(v) \/ Forget(v)
  \/ \E v \in Visits, i \in Invitations : Admit(v, i)
  \/ \E V \in SUBSET Visits : Leave(V)

ASpec == AInit /\ [][ANext]_avars
=============================================================================
