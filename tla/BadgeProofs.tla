---------------------------- MODULE BadgeProofs ----------------------------
(***************************************************************************)
(* Theorems about employees and their badges, for any number of requests,  *)
(* employees, phones and codes: the types, the bound on guessed codes, who *)
(* shares a card or a project, where notices go, and what a door asks.     *)
(***************************************************************************)
EXTENDS Badges, TLAPS

-----------------------------------------------------------------------------
(* The inductive invariant *)

\* What a request knows at each of its steps.
Carried ==
  \A r \in Requests :
    LET q == request[r]
    IN /\ q.op = "put" => q.input \in Inputs /\ q.pc \in {"read", "write"}
       /\ q.op \in {"delete", "ask", "activate", "revoke", "remove", "register", "verify"} =>
            q.row \in Employees /\ person[q.row].row # "absent"
       /\ q.op \in {"activate", "remove", "register"} => q.phone \in Phones
       /\ q.op = "project" => q.owns \in Projects
       /\ q.op = "register" => q.owns \in 0..(MaxBadges + 1)

\* The unique index, and the row that a PUT has found.
OneRowEach ==
  /\ \A e \in Employees : person[e].row = "absent" => person[e] = NewPerson
  /\ \A e, f \in Here : person[e].ext = person[f].ext => e = f
  /\ \A r \in Requests : At(r, "put", "write") /\ request[r].row # None =>
       /\ person[request[r].row].row # "absent"
       /\ request[r].row \in Here => person[request[r].row].ext = request[r].ext

\* What a PUT, or the deletion of a project, has read still holds unless it was crossed.
StillFree ==
  /\ \A r \in Requests : At(r, "put", "write") =>
       LET q == request[r]
       IN /\ \A e \in Here : person[e].card = q.input.card /\ q.input.card \in Cards =>
               person[e].ext = q.ext \/ q.input.card \in raced
          /\ q.input.project \in projects \cup raced \cup {None, Keep}
  /\ \A r \in Requests : request[r].op = "project" =>
       request[r].over \/ Unused(request[r].owns)

\* The attempts of the window, but those that crossing requests for a code gave back.
Attempts(l) == IF l.open THEN l.attempts ELSE 0
Counted ==
  /\ \A e \in Employees : login[e].open \/ guesses[e] = 0
  /\ \A e \in Employees : guesses[e] <= login[e].attempts + MaxAttempts * overlaps[e]
  /\ \A r \in Requests : request[r].op = "ask" =>
       LET q == request[r]
       IN q.over \/ guesses[q.row] <= Attempts(q.seen) + MaxAttempts * overlaps[q.row]

\* A registration has the secret of the badge, an issue has no notices, unless crossed.
Uncrossed ==
  \A r \in Requests :
    LET q == request[r]
    IN /\ q.op = "register" => q.over \/ person[q.row].secret = q.owns
       /\ At(r, "activate", "store") => q.over \/ devices[q.row] = {}

\* What a verification has seen to be true.
Seen(pc) ==
  CASE pc = "door" -> Facts \ {"door", "rule"}
    [] pc = "rules" -> Facts \ {"rule"}
    [] pc = "granted" -> Facts
    [] OTHER -> {}
Verified == \A r \in Requests : request[r].op = "verify" => Seen(request[r].pc) \subseteq held[r]

IInv ==
  /\ TypeOK /\ Carried /\ OneRowEach /\ StillFree /\ Counted /\ Uncrossed /\ Verified
  /\ WhatIsShared /\ NoticesFollowBadge

-----------------------------------------------------------------------------
(* What is used of the assumptions *)

LEMMA NothingIsNobody ==
  /\ None \notin Employees /\ None \notin Phones /\ None \notin Cards /\ None \notin Projects
  /\ None # Keep /\ Keep \notin Cards /\ Keep \notin Projects
  BY BadgesAssumption

LEMMA Bounds == MaxAttempts \in Nat /\ MaxCodes \in Nat /\ MaxBadges \in Nat /\ MaxStarts \in Nat
  BY BadgesAssumption

LEMMA InputTypes ==
  \A input \in Inputs :
    /\ input.card \in Cards \cup {None, Keep} /\ input.email \in Emails \cup {None}
    /\ input.active \in BOOLEAN /\ input.valid \in BOOLEAN /\ input.rule \in Rules
    /\ input.project \in Projects \cup {None, Keep}
<1>1. Inputs \subseteq [card : Cards \cup {None, Keep}, email : Emails \cup {None}, active : BOOLEAN,
                        valid : BOOLEAN, rule : Rules, project : Projects \cup {None, Keep}]
  BY BadgesAssumption
<1> QED BY <1>1

-----------------------------------------------------------------------------
(* Requests that begin *)

Begins(r) ==
  \/ PutStarts(r) \/ DeleteReads(r) \/ ProjectReads(r) \/ AskReads(r) \/ ActivateReads(r)
  \/ ActivateBySso(r) \/ RemoveStarts(r) \/ RegisterStarts(r) \/ VerifyReads(r)

\* What a request knows when it begins.
Begun(q) ==
  /\ q.op = "put" => q.input \in Inputs /\ q.pc = "read"
  /\ q.op \in {"delete", "ask", "activate", "remove", "register", "verify"} => q.row \in Here
  /\ q.op \in {"activate", "remove", "register"} => q.phone \in Phones
  /\ q.op = "project" => q.owns \in Projects /\ Unused(q.owns)
  /\ q.op = "register" => q.owns \in 0..(MaxBadges + 1) /\ person[q.row].secret = q.owns
  /\ q.op = "ask" => q.seen = login[q.row]
  /\ q.op = "activate" => q.pc \in {"take", "forget"}
  /\ q.op = "verify" =>
       \/ q.pc = "denied"
       \/ /\ q.pc = "door" /\ q.owns \in {person[q.row].secret, person[q.row].card}
          /\ person[q.row].active /\ ~person[q.row].accessOff /\ person[q.row].valid
  /\ q.op # "revoke"

Tables == <<person, login, phone, devices, projects, open, selfRemove, codes, badges,
            guesses, overlaps, raced>>

LEMMA Beginnings ==
  ASSUME TypeOK, NEW r \in Requests, Begins(r)
  PROVE  /\ request[r].op = "idle" /\ UNCHANGED Tables
         /\ request' = [request EXCEPT ![r] = request'[r]]
         /\ request'[r] \in Request /\ Begun(request'[r])
         /\ starts' \in 0..MaxStarts
<1> DEFINE Goal ==
      /\ request[r].op = "idle" /\ UNCHANGED Tables
      /\ request' = [request EXCEPT ![r] = request'[r]]
      /\ request'[r] \in Request /\ Begun(request'[r])
      /\ starts' \in 0..MaxStarts
<1>0. /\ request \in [Requests -> Request] /\ person \in [Employees -> Person]
      /\ login \in [Employees -> Login] /\ starts \in 0..MaxStarts /\ projects \subseteq Projects
      /\ phone \in [Phones -> [of : Employees \cup {None}, secret : 0..(MaxBadges + 1)]]
      /\ codes \in 0..MaxCodes
  BY DEF TypeOK
<1>a. Idle \in Request
  BY Bounds DEF Idle, Request, NoLogin, Login
<1>b. ASSUME NEW new, Starts(r, new), new \in Request, Begun(new), UNCHANGED Tables PROVE Goal
  <2>1. request'[r] = new /\ request' = [request EXCEPT ![r] = new]
    BY <1>0, <1>b DEF Starts
  <2>2. starts' \in 0..MaxStarts
    BY <1>0, <1>b, Bounds DEF Starts
  <2> QED BY <1>b, <2>1, <2>2 DEF Starts
<1> HIDE DEF Goal
<1>1. ASSUME PutStarts(r) PROVE Goal
  <2>1. UNCHANGED Tables
    BY <1>1 DEF PutStarts, Tables
  <2>2. PICK x \in Externals \cup {None}, input \in Inputs :
          Starts(r, [Idle EXCEPT !.op = "put", !.pc = "read", !.ext = x, !.input = input])
    BY <1>0, <1>1 DEF PutStarts, ConsoleCreates, ConsoleUpdates, ApiPuts, Here, Person
  <2> DEFINE new == [Idle EXCEPT !.op = "put", !.pc = "read", !.ext = x, !.input = input]
  <2>3. new \in Request
    BY <1>a DEF Request
  <2>4. Begun(new)
    BY DEF Begun, Idle
  <2> QED BY <1>b, <2>1, <2>2, <2>3, <2>4
<1>2. ASSUME DeleteReads(r) PROVE Goal
  <2>1. UNCHANGED Tables
    BY <1>2 DEF DeleteReads, Tables
  <2>2. PICK e \in Here : Starts(r, [Idle EXCEPT !.op = "delete", !.pc = "write", !.row = e])
    BY <1>2 DEF DeleteReads
  <2> DEFINE new == [Idle EXCEPT !.op = "delete", !.pc = "write", !.row = e]
  <2>3. new \in Request /\ Begun(new)
    BY <1>a, ZenonT(40) DEF Request, Begun, Idle, Here
  <2> QED BY <1>b, <2>1, <2>2, <2>3
<1>3. ASSUME ProjectReads(r) PROVE Goal
  <2>1. UNCHANGED Tables
    BY <1>3 DEF ProjectReads, Tables
  <2>2. PICK j \in projects :
          Unused(j) /\ Starts(r, [Idle EXCEPT !.op = "project", !.pc = "write", !.owns = j])
    BY <1>3 DEF ProjectReads
  <2> DEFINE new == [Idle EXCEPT !.op = "project", !.pc = "write", !.owns = j]
  <2>3. new \in Request /\ Begun(new)
    BY <1>0, <1>a, <2>2, ZenonT(40) DEF Request, Begun, Idle
  <2> QED BY <1>b, <2>1, <2>2, <2>3
<1>4. ASSUME AskReads(r) PROVE Goal
  <2>1. UNCHANGED Tables
    BY <1>4 DEF AskReads, Tables
  <2>2. PICK e \in Here :
          Starts(r, [Idle EXCEPT !.op = "ask", !.pc = "write", !.row = e, !.seen = login[e]])
    BY <1>4 DEF AskReads, ByEmail
  <2> DEFINE new == [Idle EXCEPT !.op = "ask", !.pc = "write", !.row = e, !.seen = login[e]]
  <2>3. e \in Employees /\ login[e] \in Login
    BY <1>0 DEF Here
  <2>4. new \in Request
    BY <1>a, <2>3 DEF Request
  <2>5. Begun(new)
    BY DEF Begun, Idle
  <2> QED BY <1>b, <2>1, <2>2, <2>4, <2>5
<1>5. ASSUME ActivateReads(r) PROVE Goal
  <2>1. UNCHANGED Tables
    BY <1>5 DEF ActivateReads, Tables
  <2>2. PICK e \in Here, p \in Phones, guess \in 0..codes :
          Starts(r, [Idle EXCEPT !.op = "activate", !.pc = "take", !.row = e, !.phone = p,
                                 !.guess = guess, !.seen = login[e]])
    BY <1>5 DEF ActivateReads, ByEmail
  <2> DEFINE new == [Idle EXCEPT !.op = "activate", !.pc = "take", !.row = e, !.phone = p,
                                 !.guess = guess, !.seen = login[e]]
  <2>3. e \in Employees /\ login[e] \in Login /\ guess \in 0..MaxCodes
    BY <1>0, Bounds DEF Here
  <2>4. new \in Request
    BY <1>a, <2>3 DEF Request
  <2>5. Begun(new)
    BY DEF Begun, Idle
  <2> QED BY <1>b, <2>1, <2>2, <2>4, <2>5
<1>6. ASSUME ActivateBySso(r) PROVE Goal
  <2>1. UNCHANGED Tables
    BY <1>6 DEF ActivateBySso, Tables
  <2>2. PICK e \in Here, p \in Phones :
          Starts(r, [Idle EXCEPT !.op = "activate", !.pc = "forget", !.row = e, !.phone = p])
    BY <1>6 DEF ActivateBySso, ByEmail
  <2> DEFINE new == [Idle EXCEPT !.op = "activate", !.pc = "forget", !.row = e, !.phone = p]
  <2>3. new \in Request /\ Begun(new)
    BY <1>a, ZenonT(40) DEF Request, Begun, Idle, Here
  <2> QED BY <1>b, <2>1, <2>2, <2>3
<1>7. ASSUME RemoveStarts(r) PROVE Goal
  <2>1. UNCHANGED Tables
    BY <1>7 DEF RemoveStarts, Tables
  <2>2. PICK p \in Phones : /\ Passes(p)
          /\ Starts(r, [Idle EXCEPT !.op = "remove", !.pc = "write", !.row = phone[p].of, !.phone = p])
    BY <1>7 DEF RemoveStarts
  <2> DEFINE new == [Idle EXCEPT !.op = "remove", !.pc = "write", !.row = phone[p].of, !.phone = p]
  <2>3. phone[p].of \in Here
    BY <2>2 DEF Passes
  <2>4. new \in Request /\ Begun(new)
    BY <1>a, <2>3, ZenonT(40) DEF Request, Begun, Idle, Here
  <2> QED BY <1>b, <2>1, <2>2, <2>4
<1>8. ASSUME RegisterStarts(r) PROVE Goal
  <2>1. UNCHANGED Tables
    BY <1>8 DEF RegisterStarts, Tables
  <2>2. PICK p \in Phones : /\ Passes(p)
          /\ Starts(r, [Idle EXCEPT !.op = "register", !.pc = "write", !.row = phone[p].of,
                                    !.phone = p, !.owns = phone[p].secret])
    BY <1>8 DEF RegisterStarts
  <2> DEFINE new == [Idle EXCEPT !.op = "register", !.pc = "write", !.row = phone[p].of,
                                 !.phone = p, !.owns = phone[p].secret]
  <2>3. /\ phone[p].of \in Here /\ person[phone[p].of].secret = phone[p].secret
        /\ phone[p].secret \in 0..(MaxBadges + 1)
    BY <1>0, <2>2 DEF Passes
  <2>4. new \in Request /\ Begun(new)
    BY <1>a, <2>3, ZenonT(40) DEF Request, Begun, Idle, Here
  <2> QED BY <1>b, <2>1, <2>2, <2>4
<1>9. ASSUME VerifyReads(r) PROVE Goal
  <2>1. UNCHANGED Tables
    BY <1>9 DEF VerifyReads, Tables
  <2>2. PICK e \in Here, s \in 0..(MaxBadges + 1) \cup Cards, l \in {"door", "denied"} :
          /\ s \in {person[e].secret, person[e].card}
          /\ (l = "door" => Allowed(e))
          /\ Starts(r, [Idle EXCEPT !.op = "verify", !.row = e, !.owns = s, !.pc = l])
    BY <1>0, <1>9, ZenonT(40) DEF VerifyReads, Signed
  <2> DEFINE new == [Idle EXCEPT !.op = "verify", !.row = e, !.owns = s, !.pc = l]
  <2>3. new \in Request
    BY <1>a DEF Request, Here
  <2>4. new.op = "verify" /\ new.row = e /\ new.owns = s /\ new.pc = l
    BY DEF Idle
  <2>5. Begun(new)
    <3> HIDE DEF new
    <3>1. l = "door" => person[e].active /\ ~person[e].accessOff /\ person[e].valid
      BY <2>2 DEF Allowed
    <3> QED BY <2>2, <2>4, <3>1 DEF Begun
  <2> QED BY <1>b, <2>1, <2>2, <2>3, <2>5
<1>10. Goal
  BY <1>1, <1>2, <1>3, <1>4, <1>5, <1>6, <1>7, <1>8, <1>9 DEF Begins
<1> QED BY <1>10 DEF Goal

-----------------------------------------------------------------------------
(* What a step does to the requests *)

\* The others keep what they know, or learn that they were crossed.
Others(r) ==
  \A s \in Requests \ {r} :
    request'[s] = request[s] \/ request'[s] = [request[s] EXCEPT !.over = TRUE]

\* The one that moves ends, begins, or gets on.
Advances(r) ==
  LET q == request[r] new == request'[r]
  IN \/ new = Idle
     \/ q.op = "idle" /\ Begun(new) /\ UNCHANGED Tables
     \/ \E e \in Here : q.op = "idle" /\ new = [Idle EXCEPT !.op = "revoke", !.pc = "forget", !.row = e]
     \/ /\ q.op = "put" /\ q.pc = "read" /\ UNCHANGED Tables
        /\ \E e \in WithExternal(q.ext) \cup {None} : new = [q EXCEPT !.pc = "write", !.row = e]
        /\ q.input.project \in projects \cup {None, Keep} /\ CardFree(q.input.card, q.ext)
     \/ q.op = "put" /\ new = [q EXCEPT !.pc = "read", !.row = None]
     \/ q.op = "activate" /\ new = [q EXCEPT !.pc = "forget"]
     \/ q.op = "activate" /\ new = [q EXCEPT !.pc = "store"] /\ devices' = [devices EXCEPT ![q.row] = {}]
     \/ /\ q.op = "verify" /\ UNCHANGED Tables
        /\ \/ new = [q EXCEPT !.pc = "denied"]
           \/ q.pc = "door" /\ open /\ new = [q EXCEPT !.pc = "rules"]
           \/ q.pc = "rules" /\ person[q.row].rule = "inside" /\ new = [q EXCEPT !.pc = "granted"]

LEMMA Crossing ==
  ASSUME TypeOK, NEW r \in Requests, NEW crossed, NEW new \in Request, Crosses(crossed, r, new)
  PROVE  request' \in [Requests -> Request] /\ Others(r) /\ request'[r] = new
<1>1. request \in [Requests -> Request]
  BY DEF TypeOK
<1>2. \A s \in Requests : [request[s] EXCEPT !.over = TRUE] \in Request
  BY <1>1, ZenonT(40) DEF Request
<1>3. request' = [q \in Requests |->
         IF q = r THEN new ELSE IF q \in crossed THEN [request[q] EXCEPT !.over = TRUE] ELSE request[q]]
  BY DEF Crosses
<1> QED BY <1>1, <1>2, <1>3 DEF Others

LEMMA Moving ==
  ASSUME TypeOK, NEW r \in Requests, NEW new \in Request, request' = [request EXCEPT ![r] = new]
  PROVE  request' \in [Requests -> Request] /\ Others(r) /\ request'[r] = new
  BY DEF TypeOK, Others

LEMMA Progress ==
  ASSUME TypeOK, NEW r \in Requests, RequestStep(r)
  PROVE  request' \in [Requests -> Request] /\ Others(r) /\ Advances(r)
<1> DEFINE Goal == request' \in [Requests -> Request] /\ Others(r) /\ Advances(r)
           q == request[r]
<1>a. request \in [Requests -> Request] /\ q \in Request /\ Idle \in Request
  BY Bounds DEF TypeOK, Idle, Request, NoLogin, Login
<1>b. ASSUME request' = [request EXCEPT ![r] = Idle] PROVE Goal
  BY <1>a, <1>b, Moving DEF Advances
<1>c. ASSUME NEW crossed, Crosses(crossed, r, Idle) PROVE Goal
  BY <1>a, <1>c, Crossing DEF Advances
<1>d. \A pc \in {"write", "forget", "store", "denied", "rules", "granted"} : [q EXCEPT !.pc = pc] \in Request
  BY <1>a DEF Request
<1>e. ASSUME NEW crossed, NEW pc, q.op = "activate",
             pc = "forget" \/ (pc = "store" /\ devices' = [devices EXCEPT ![q.row] = {}]),
             Crosses(crossed, r, [q EXCEPT !.pc = pc]) PROVE Goal
  <2> DEFINE new == [q EXCEPT !.pc = pc]
  <2>1. new \in Request
    BY <1>d, <1>e
  <2>2. request'[r] = new /\ request' \in [Requests -> Request] /\ Others(r)
    BY <1>e, <2>1, Crossing
  <2>3. Advances(r)
    BY <1>e, <2>2 DEF Advances
  <2> QED BY <2>2, <2>3
<1>f. ASSUME NEW pc, q.op = "verify", UNCHANGED Tables,
             \/ pc = "denied"
             \/ q.pc = "door" /\ open /\ pc = "rules"
             \/ q.pc = "rules" /\ person[q.row].rule = "inside" /\ pc = "granted",
             Moves(r, pc) PROVE Goal
  <2>1. request' = [request EXCEPT ![r] = [q EXCEPT !.pc = pc]]
    BY <1>a, <1>f DEF Moves
  <2>2. [q EXCEPT !.pc = pc] \in Request
    BY <1>d, <1>f
  <2>3. request'[r] = [q EXCEPT !.pc = pc] /\ request' \in [Requests -> Request] /\ Others(r)
    BY <2>1, <2>2, Moving
  <2>4. Advances(r)
    BY <1>f, <2>3 DEF Advances
  <2> QED BY <2>3, <2>4
<1> HIDE DEF Goal
<1>1. ASSUME Begins(r) PROVE Goal
  <2>1. /\ q.op = "idle" /\ UNCHANGED Tables /\ request' = [request EXCEPT ![r] = request'[r]]
        /\ request'[r] \in Request /\ Begun(request'[r])
    BY <1>1, Beginnings
  <2>2. request' \in [Requests -> Request] /\ Others(r)
    BY <2>1, Moving
  <2>3. Advances(r)
    BY <2>1 DEF Advances
  <2> QED BY <2>2, <2>3 DEF Goal
<1>2. ASSUME PutReads(r) PROVE Goal
  <2>1. q.op = "put" /\ q.pc = "read" /\ UNCHANGED Tables
    BY <1>2 DEF PutReads, At, Tables
  <2>2. CASE /\ q.input.project \in projects \cup {None, Keep} /\ CardFree(q.input.card, q.ext)
    <3>1. PICK e : /\ e \in WithExternal(q.ext) \cup {None}
                   /\ request' = [request EXCEPT ![r].pc = "write", ![r].row = e]
      BY <1>2, <2>2 DEF PutReads
    <3> DEFINE new == [q EXCEPT !.pc = "write", !.row = e]
    <3>2. request' = [request EXCEPT ![r] = new]
      BY <1>a, <3>1
    <3>3. new \in Request
      BY <1>a, <3>1 DEF Request, WithExternal, Here
    <3>4. request'[r] = new /\ request' \in [Requests -> Request] /\ Others(r)
      BY <3>2, <3>3, Moving
    <3>5. Advances(r)
      BY <2>1, <2>2, <3>1, <3>4 DEF Advances
    <3> QED BY <3>4, <3>5 DEF Goal
  <2>3. CASE ~(/\ q.input.project \in projects \cup {None, Keep} /\ CardFree(q.input.card, q.ext))
    BY <1>b, <1>2, <2>3 DEF PutReads, Ends
  <2> QED BY <2>2, <2>3
<1>3. ASSUME PutWrites(r) PROVE Goal
  BY <1>c, <1>3 DEF PutWrites
<1>4. ASSUME PutRetries(r) PROVE Goal
  <2> DEFINE new == [q EXCEPT !.pc = "read", !.row = None]
  <2>1. q.op = "put" /\ request' = [request EXCEPT ![r] = new]
    BY <1>a, <1>4 DEF PutRetries, At
  <2>2. new \in Request
    BY <1>a DEF Request
  <2>3. request'[r] = new /\ request' \in [Requests -> Request] /\ Others(r)
    BY <2>1, <2>2, Moving
  <2>4. Advances(r)
    BY <2>1, <2>3 DEF Advances
  <2> QED BY <2>3, <2>4 DEF Goal
<1>5. ASSUME DeleteCommits(r) PROVE Goal
  BY <1>c, <1>5 DEF DeleteCommits
<1>6. ASSUME ProjectDeletes(r) PROVE Goal
  BY <1>b, <1>6 DEF ProjectDeletes, Ends
<1>7. ASSUME AskWrites(r) PROVE Goal
  BY <1>b, <1>7 DEF AskWrites, Ends
<1>8. ASSUME ActivateTakes(r) PROVE Goal
  <2>1. CASE q.row \in Here /\ TakesOne(q.row) /\ q.guess = q.seen.code
    BY <1>e, <1>8, <2>1 DEF ActivateTakes, At
  <2>2. CASE ~(q.row \in Here /\ TakesOne(q.row) /\ q.guess = q.seen.code)
    BY <1>b, <1>c, <1>8, <2>2 DEF ActivateTakes, Ends
  <2> QED BY <2>1, <2>2
<1>9. ASSUME IssueForgets(r) PROVE Goal
  BY <1>e, <1>9 DEF IssueForgets, At
<1>10. ASSUME IssueStores(r) PROVE Goal
  BY <1>c, <1>10 DEF IssueStores
<1>11. ASSUME RevokePhone(r) PROVE Goal
  <2>1. PICK e \in Here : Crosses(Of("register", e), r, [Idle EXCEPT !.op = "revoke", !.pc = "forget", !.row = e])
    BY <1>11 DEF RevokePhone
  <2> DEFINE new == [Idle EXCEPT !.op = "revoke", !.pc = "forget", !.row = e]
  <2>5. q.op = "idle"
    BY <1>11 DEF RevokePhone
  <2>6. e \in Employees
    BY DEF Here
  <2>2. new \in Request
    BY <1>a, <2>6, ZenonT(40) DEF Request
  <2>3. request'[r] = new /\ request' \in [Requests -> Request] /\ Others(r)
    BY <2>1, <2>2, Crossing
  <2>4. Advances(r)
    BY <2>5, <2>3 DEF Advances
  <2> QED BY <2>3, <2>4 DEF Goal
<1>12. ASSUME RevokeForgets(r) PROVE Goal
  BY <1>b, <1>12 DEF RevokeForgets, Ends
<1>13. ASSUME RemoveCommits(r) PROVE Goal
  BY <1>b, <1>c, <1>13 DEF RemoveCommits, Ends
<1>14. ASSUME RegisterWrites(r) PROVE Goal
  BY <1>c, <1>14 DEF RegisterWrites
<1>15. ASSUME VerifyDoor(r) PROVE Goal
  <2>1. /\ Moves(r, IF open THEN "rules" ELSE "denied")
        /\ q.op = "verify" /\ q.pc = "door"
        /\ UNCHANGED Tables
    BY <1>15 DEF VerifyDoor, At, Tables
  <2> QED BY <1>f, <2>1
<1>16. ASSUME VerifyRules(r) PROVE Goal
  <2>1. /\ Moves(r, IF person[q.row].rule = "inside" THEN "granted" ELSE "denied")
        /\ q.op = "verify" /\ q.pc = "rules" /\ UNCHANGED Tables
    BY <1>16 DEF VerifyRules, At, Tables
  <2> QED BY <1>f, <2>1
<1>17. ASSUME VerifyEnds(r) PROVE Goal
  BY <1>b, <1>17 DEF VerifyEnds, Ends
<1>18. Goal
  BY <1>1, <1>2, <1>3, <1>4, <1>5, <1>6, <1>7, <1>8, <1>9, <1>10, <1>11, <1>12, <1>13, <1>14,
     <1>15, <1>16, <1>17
     DEF RequestStep, Begins
<1> QED BY <1>18 DEF Goal

-----------------------------------------------------------------------------
(* Types *)

Data ==
  /\ person \in [Employees -> Person] /\ login \in [Employees -> Login]
  /\ phone \in [Phones -> [of : Employees \cup {None}, secret : 0..(MaxBadges + 1)]]
  /\ devices \in [Employees -> SUBSET (Phones \X (0..(MaxBadges + 1)))]
  /\ projects \subseteq Projects /\ open \in BOOLEAN /\ selfRemove \in BOOLEAN
  /\ codes \in 0..MaxCodes /\ badges \in 0..MaxBadges /\ starts \in 0..MaxStarts
  /\ guesses \in [Employees -> Nat] /\ overlaps \in [Employees -> Nat]
  /\ raced \subseteq Cards \cup Projects \cup Phones

LEMMA Persons ==
  /\ NewPerson \in Person /\ [NewPerson EXCEPT !.row = "gone"] \in Person
  /\ \A p \in Person :
       /\ \A s \in 0..(MaxBadges + 1) : [p EXCEPT !.secret = s] \in Person
       /\ \A b \in BOOLEAN : [p EXCEPT !.accessOff = b] \in Person /\ [p EXCEPT !.valid = b] \in Person
       /\ \A rule \in Rules : [p EXCEPT !.rule = rule] \in Person
<1>1. 0 \in 0..(MaxBadges + 1)
  BY Bounds
<1>2. NewPerson \in Person /\ [NewPerson EXCEPT !.row = "gone"] \in Person
  BY <1>1 DEF NewPerson, Person, Rules
<1>3. \A p \in Person : \A s \in 0..(MaxBadges + 1) : [p EXCEPT !.secret = s] \in Person
  BY DEF Person
<1>4. \A p \in Person : \A b \in BOOLEAN :
         [p EXCEPT !.accessOff = b] \in Person /\ [p EXCEPT !.valid = b] \in Person
  BY DEF Person
<1>5. \A p \in Person : \A rule \in Rules : [p EXCEPT !.rule = rule] \in Person
  BY DEF Person
<1> QED BY <1>2, <1>3, <1>4, <1>5

LEMMA PutGives ==
  ASSUME NEW old \in Person, NEW x \in Externals \cup {None}, NEW input \in Inputs
  PROVE  /\ Put(old, x, input) \in Person /\ Put(old, x, input).row = "here"
         /\ Put(old, x, input).ext = x /\ Put(old, x, input).secret = old.secret
         /\ Put(old, x, input).card = IF input.card = Keep THEN old.card ELSE input.card
         /\ Put(old, x, input).project = IF input.project = Keep THEN old.project ELSE input.project
<1> DEFINE card == IF input.card = Keep THEN old.card ELSE input.card
           project == IF input.project = Keep THEN old.project ELSE input.project
<1>1. /\ input.email \in Emails \cup {None} /\ input.active \in BOOLEAN
      /\ input.valid \in BOOLEAN /\ input.rule \in Rules
  BY InputTypes
<1>2. card \in Cards \cup {None} /\ project \in Projects \cup {None}
  BY InputTypes DEF Person
<1>3. Put(old, x, input) =
        [old EXCEPT !.row = "here", !.ext = x, !.active = input.active, !.valid = input.valid,
           !.email = input.email, !.rule = input.rule, !.card = card, !.project = project]
  BY DEF Put, Person
<1> HIDE DEF card, project
<1>4. Put(old, x, input) \in Person
  BY <1>1, <1>2, <1>3, ZenonT(40) DEF Person
<1>5. /\ Put(old, x, input).row = "here" /\ Put(old, x, input).ext = x
      /\ Put(old, x, input).secret = old.secret
      /\ Put(old, x, input).card = card /\ Put(old, x, input).project = project
  BY <1>3 DEF Person
<1> QED BY <1>4, <1>5 DEF card, project

LEMMA Logins ==
  /\ NoLogin \in Login
  /\ \A l \in Login :
       /\ \A n \in 0..MaxCodes : CodeSet(l, n) \in Login
       /\ \A n \in 0..MaxAttempts : [l EXCEPT !.attempts = n] \in Login
  BY Bounds DEF NoLogin, Login, CodeSet

LEMMA StepTypes ==
  ASSUME TypeOK, Carried, Next
  PROVE  TypeOK'
<1>a. /\ person \in [Employees -> Person] /\ login \in [Employees -> Login]
      /\ phone \in [Phones -> [of : Employees \cup {None}, secret : 0..(MaxBadges + 1)]]
      /\ devices \in [Employees -> SUBSET (Phones \X (0..(MaxBadges + 1)))]
      /\ projects \subseteq Projects /\ open \in BOOLEAN /\ selfRemove \in BOOLEAN
      /\ codes \in 0..MaxCodes /\ badges \in 0..MaxBadges /\ starts \in 0..MaxStarts
      /\ guesses \in [Employees -> Nat] /\ overlaps \in [Employees -> Nat]
      /\ raced \subseteq Cards \cup Projects \cup Phones
      /\ request \in [Requests -> Request]
  BY DEF TypeOK
<1>b. /\ 0 \in 0..(MaxBadges + 1)
      /\ \A e \in Employees : /\ person[e].accessOff \in BOOLEAN /\ person[e].valid \in BOOLEAN
                             /\ login[e].attempts \in 0..MaxAttempts
  BY <1>a, Bounds DEF Person, Login
<1>1. ASSUME NEW r \in Requests, Begins(r) PROVE Data'
  BY <1>a, <1>1, Beginnings DEF Tables, Data
<1>2. ASSUME NEW r \in Requests, PutReads(r) PROVE Data'
  BY <1>a, <1>2 DEF PutReads, Data
<1>3. ASSUME NEW r \in Requests, PutWrites(r) PROVE Data'
  <2> DEFINE q == request[r]
  <2>1. At(r, "put", "write") /\ q.input \in Inputs /\ q.ext \in Externals \cup {None} /\ q.row \in Employees \cup {None}
    BY <1>a, <1>3 DEF PutWrites, At, Carried, Request
  <2>2. person' \in [Employees -> Person]
    <3>1. \/ person' = person
          \/ \E e \in Employees : person' = [person EXCEPT ![e] = Put(person[e], q.ext, q.input)]
      BY <1>3, <2>1 DEF PutWrites
    <3>2. \A e \in Employees : Put(person[e], q.ext, q.input) \in Person
      BY <1>a, <2>1, PutGives
    <3> QED BY <1>a, <3>1, <3>2
  <2>3. raced' \subseteq Cards \cup Projects \cup Phones
    BY <1>a, <1>3 DEF PutWrites, PutsCrossing
  <2> QED BY <1>a, <1>3, <2>2, <2>3 DEF PutWrites, Data
<1>4. ASSUME NEW r \in Requests, PutRetries(r) PROVE Data'
  BY <1>a, <1>4 DEF PutRetries, Data
<1>5. ASSUME NEW r \in Requests, DeleteCommits(r) PROVE Data'
  BY <1>a, <1>5, Persons, Logins, SMTT(30) DEF DeleteCommits, Data, Carried, At
<1>6. ASSUME NEW r \in Requests, ProjectDeletes(r) PROVE Data'
  <2>1. request[r].owns \in Projects
    BY <1>6 DEF ProjectDeletes, At, Carried
  <2> QED BY <1>a, <1>6, <2>1 DEF ProjectDeletes, Data
<1>7. ASSUME NEW r \in Requests, AskWrites(r) PROVE Data'
  <2> DEFINE q == request[r]
  <2>1. q.row \in Employees /\ q.seen \in Login /\ q.over \in BOOLEAN
    BY <1>a, <1>7 DEF AskWrites, At, Carried, Request
  <2>2. codes' \in 0..MaxCodes
    BY <1>a, <1>7, Bounds DEF AskWrites
  <2>3. CodeSet(q.seen, codes + 1) \in Login
    BY <2>1, <2>2, <1>7, Logins DEF AskWrites
  <2>4. login' \in [Employees -> Login]
    BY <1>a, <1>7, <2>3 DEF AskWrites
  <2>5. overlaps' \in [Employees -> Nat]
    BY <1>a, <1>7, <2>1 DEF AskWrites
  <2> QED BY <1>a, <1>7, <2>2, <2>4, <2>5 DEF AskWrites, Data
<1>8. ASSUME NEW r \in Requests, ActivateTakes(r) PROVE Data'
  <2> DEFINE e == request[r].row
  <2>1. e \in Employees
    BY <1>a, <1>8 DEF ActivateTakes, At, Carried
  <2>5. TakesOne(e) => login[e].attempts + 1 \in 0..MaxAttempts
    BY <1>b, <2>1, Bounds DEF TakesOne
  <2>6. \/ login' = login
        \/ TakesOne(e) /\ login' = [login EXCEPT ![e] = [login[e] EXCEPT !.attempts = login[e].attempts + 1]]
    BY <1>a, <1>8 DEF ActivateTakes
  <2>3. login' \in [Employees -> Login]
    <3>1. ASSUME TakesOne(e) PROVE [login[e] EXCEPT !.attempts = login[e].attempts + 1] \in Login
      <4> DEFINE n == login[e].attempts + 1
      <4>1. n \in 0..MaxAttempts /\ login[e] \in Login
        BY <1>a, <2>1, <2>5, <3>1
      <4> HIDE DEF n
      <4>2. [login[e] EXCEPT !.attempts = n] \in Login
        BY <4>1, Logins
      <4> QED BY <4>2 DEF n
    <3> QED BY <1>a, <2>6, <3>1
  <2>4. guesses' \in [Employees -> Nat]
    BY <1>a, <1>8, <2>1 DEF ActivateTakes
  <2> QED BY <1>a, <1>8, <2>3, <2>4 DEF ActivateTakes, Data
<1>9. ASSUME NEW r \in Requests, IssueForgets(r) PROVE Data'
  <2>1. devices' \in [Employees -> SUBSET (Phones \X (0..(MaxBadges + 1)))]
    BY <1>a, <1>9 DEF IssueForgets
  <2> QED BY <1>a, <1>9, <2>1 DEF IssueForgets, Data
<1>10. ASSUME NEW r \in Requests, IssueStores(r) PROVE Data'
  <2> DEFINE e == request[r].row  p == request[r].phone
  <2>1. e \in Employees /\ p \in Phones
    BY <1>a, <1>10 DEF IssueStores, At, Carried
  <2>2. badges + 2 \in 0..(MaxBadges + 1) /\ badges' \in 0..MaxBadges
    BY <1>a, <1>10, Bounds DEF IssueStores
  <2>3. person' \in [Employees -> Person]
    BY <1>a, <1>10, <2>1, <2>2, Persons DEF IssueStores
  <2>4. login' \in [Employees -> Login]
    BY <1>a, <1>10, <2>1, Logins DEF IssueStores
  <2>5. guesses' \in [Employees -> Nat] /\ overlaps' \in [Employees -> Nat]
    BY <1>a, <1>10, <2>1 DEF IssueStores
  <2>6. phone' \in [Phones -> [of : Employees \cup {None}, secret : 0..(MaxBadges + 1)]]
    BY <1>a, <1>10, <2>1, <2>2 DEF IssueStores
  <2>7. \A d \in devices[e] : d[1] \in Phones
    BY <1>a, <2>1
  <2>8. raced' \subseteq Cards \cup Projects \cup Phones
    BY <1>a, <1>10, <2>7 DEF IssueStores
  <2> QED BY <1>a, <1>10, <2>2, <2>3, <2>4, <2>5, <2>6, <2>8 DEF IssueStores, Data
<1>11. ASSUME NEW r \in Requests, RevokePhone(r) PROVE Data'
  <2>1. person' \in [Employees -> Person]
    <3>1. \/ person' = person
          \/ \E e \in Employees : person' = [person EXCEPT ![e] = [person[e] EXCEPT !.secret = 0]]
      BY <1>a, <1>11 DEF RevokePhone, Revoked, Here
    <3>2. \A e \in Employees : [person[e] EXCEPT !.secret = 0] \in Person
      BY <1>a, <1>b, Persons
    <3> QED BY <1>a, <3>1, <3>2
  <2>2. starts' \in 0..MaxStarts
    BY <1>a, <1>11, Bounds DEF RevokePhone
  <2> QED BY <1>a, <1>11, <2>1, <2>2 DEF RevokePhone, Data
<1>12. ASSUME NEW r \in Requests, RevokeForgets(r) PROVE Data'
  <2>1. devices' \in [Employees -> SUBSET (Phones \X (0..(MaxBadges + 1)))]
    BY <1>a, <1>12 DEF RevokeForgets
  <2> QED BY <1>a, <1>12, <2>1 DEF RevokeForgets, Data
<1>13. ASSUME NEW r \in Requests, RemoveCommits(r) PROVE Data'
  <2>1. person' \in [Employees -> Person]
    <3>1. \/ person' = person
          \/ \E e \in Employees : person' = [person EXCEPT ![e] = [person[e] EXCEPT !.secret = 0]]
      BY <1>a, <1>13 DEF RemoveCommits, Revoked, Here
    <3>2. \A e \in Employees : [person[e] EXCEPT !.secret = 0] \in Person
      BY <1>a, <1>b, Persons
    <3> QED BY <1>a, <3>1, <3>2
  <2>2. devices' \in [Employees -> SUBSET (Phones \X (0..(MaxBadges + 1)))]
    BY <1>a, <1>13, SMTT(30) DEF RemoveCommits
  <2>3. phone' \in [Phones -> [of : Employees \cup {None}, secret : 0..(MaxBadges + 1)]]
    BY <1>a, <1>13, Bounds DEF RemoveCommits
  <2> QED BY <1>a, <1>13, <2>1, <2>2, <2>3 DEF RemoveCommits, Data
<1>14. ASSUME NEW r \in Requests, RegisterWrites(r) PROVE Data'
  <2> DEFINE q == request[r]
  <2>1. q.phone \in Phones /\ q.owns \in 0..(MaxBadges + 1)
    BY <1>14 DEF RegisterWrites, At, Carried
  <2>2. <<q.phone, q.owns>> \in Phones \X (0..(MaxBadges + 1))
    BY <2>1
  <2>3. \A e \in Employees : devices'[e] \subseteq devices[e] \cup {<<q.phone, q.owns>>}
    BY <1>14 DEF RegisterWrites
  <2>4. devices' \in [Employees -> SUBSET (Phones \X (0..(MaxBadges + 1)))]
    BY <1>a, <1>14, <2>2, <2>3 DEF RegisterWrites
  <2> QED BY <1>a, <1>14, <2>1, <2>4 DEF RegisterWrites, Data
<1>15. ASSUME NEW r \in Requests, VerifyDoor(r) PROVE Data'
  BY <1>a, <1>15 DEF VerifyDoor, Data
<1>16. ASSUME NEW r \in Requests, VerifyRules(r) PROVE Data'
  BY <1>a, <1>16 DEF VerifyRules, Data
<1>17. ASSUME NEW r \in Requests, VerifyEnds(r) PROVE Data'
  BY <1>a, <1>17 DEF VerifyEnds, Data
<1>18. ASSUME NEW e \in Employees, AppsChange(e) PROVE Data'
  <2>1. person' = [person EXCEPT ![e] = [person[e] EXCEPT !.accessOff = ~person[e].accessOff]]
    BY <1>a, <1>18 DEF AppsChange
  <2>3. [person[e] EXCEPT !.accessOff = ~person[e].accessOff] \in Person
    BY <1>a, Persons
  <2>4. person' \in [Employees -> Person]
    BY <1>a, <2>1, <2>3
  <2> QED BY <1>a, <1>18, <2>4, Bounds DEF AppsChange, Data
<1>19. ASSUME NEW e \in Employees, TimePasses(e) PROVE Data'
  <2>1. person' \in [Employees -> Person]
    <3>1. \/ person' = [person EXCEPT ![e] = [person[e] EXCEPT !.valid = ~person[e].valid]]
          \/ \E rule \in Rules : person' = [person EXCEPT ![e] = [person[e] EXCEPT !.rule = rule]]
      BY <1>a, <1>19 DEF TimePasses, Rules
    <3>2. /\ [person[e] EXCEPT !.valid = ~person[e].valid] \in Person
          /\ \A rule \in Rules : [person[e] EXCEPT !.rule = rule] \in Person
      BY <1>a, Persons
    <3> QED BY <1>a, <3>1, <3>2
  <2> QED BY <1>a, <1>19, <2>1, Bounds DEF TimePasses, Data
<1>20. ASSUME NEW e \in Employees, WindowEnds(e) PROVE Data'
  BY <1>a, <1>20, Bounds DEF WindowEnds, Data, Login
<1>21. ASSUME NEW p \in Phones, Unregister(p) PROVE Data'
  <2>1. phone[p].of \in Employees
    BY <1>21 DEF Unregister, Passes, Here
  <2>2. devices' \in [Employees -> SUBSET (Phones \X (0..(MaxBadges + 1)))]
    BY <1>a, <1>21, <2>1 DEF Unregister
  <2> QED BY <1>a, <1>21, <2>2 DEF Unregister, Data
<1>22. ASSUME DoorChanges PROVE Data'
  BY <1>a, <1>22, Bounds DEF DoorChanges, Data
<1>23. ASSUME SettingChanges PROVE Data'
  BY <1>a, <1>23, Bounds DEF SettingChanges, Data
<1>24. Data'
  BY <1>1, <1>2, <1>3, <1>4, <1>5, <1>6, <1>7, <1>8, <1>9, <1>10, <1>11, <1>12, <1>13, <1>14,
     <1>15, <1>16, <1>17, <1>18, <1>19, <1>20, <1>21, <1>22, <1>23
     DEF Next, Step, RequestStep, Begins
<1>25. request' \in [Requests -> Request]
  <2>1. CASE \E r \in Requests : RequestStep(r)
    BY <2>1, Progress
  <2>2. CASE request' = request
    BY <2>2 DEF TypeOK
  <2> QED BY <2>1, <2>2 DEF Next, Step, AppsChange, TimePasses, WindowEnds, Unregister, DoorChanges, SettingChanges
<1>26. held' \in [Requests -> SUBSET Facts]
  <2>1. \A r \in Requests : Holds(r)' \subseteq Facts /\ held[r] \subseteq Facts
    BY DEF TypeOK, Holds
  <2> QED BY <2>1 DEF Next, Remembers
<1> QED BY <1>24, <1>25, <1>26 DEF TypeOK, Data, Next

-----------------------------------------------------------------------------
(* Which steps change what *)

\* What makes somebody who they are for the others.
SameIdentities ==
  \A e \in Employees :
    /\ person'[e].row = person[e].row /\ person'[e].ext = person[e].ext
    /\ person'[e].card = person[e].card /\ person'[e].project = person[e].project
    /\ (person[e].row = "absent" => person'[e] = person[e])

LEMMA Identities ==
  ASSUME TypeOK, Step
  PROVE  (\E r \in Requests : PutWrites(r) \/ DeleteCommits(r)) \/ SameIdentities
<1> DEFINE Goal == (\E r \in Requests : PutWrites(r) \/ DeleteCommits(r)) \/ SameIdentities
<1>a. person \in [Employees -> Person]
  BY DEF TypeOK
<1>b. ASSUME UNCHANGED person PROVE Goal
  BY <1>b DEF SameIdentities
<1>c. ASSUME NEW e \in Here, NEW s, person' = [person EXCEPT ![e].secret = s] PROVE Goal
  BY <1>a, <1>c DEF SameIdentities, Here, Person
<1>d. ASSUME \E e \in Here : Revoked(e) PROVE Goal
  BY <1>b, <1>c, <1>d DEF Revoked
<1> HIDE DEF Goal
<1>1. ASSUME NEW r \in Requests, Begins(r) PROVE Goal
  BY <1>b, <1>1, Beginnings DEF Tables
<1>2. ASSUME NEW r \in Requests, PutReads(r) PROVE Goal
  BY <1>b, <1>2 DEF PutReads
<1>3. ASSUME NEW r \in Requests, PutWrites(r) PROVE Goal
  BY <1>3 DEF Goal
<1>4. ASSUME NEW r \in Requests, PutRetries(r) PROVE Goal
  BY <1>b, <1>4 DEF PutRetries
<1>5. ASSUME NEW r \in Requests, DeleteCommits(r) PROVE Goal
  BY <1>5 DEF Goal
<1>6. ASSUME NEW r \in Requests, ProjectDeletes(r) PROVE Goal
  BY <1>b, <1>6 DEF ProjectDeletes
<1>7. ASSUME NEW r \in Requests, AskWrites(r) PROVE Goal
  BY <1>b, <1>7 DEF AskWrites
<1>8. ASSUME NEW r \in Requests, ActivateTakes(r) PROVE Goal
  BY <1>b, <1>8 DEF ActivateTakes
<1>9. ASSUME NEW r \in Requests, IssueForgets(r) PROVE Goal
  BY <1>b, <1>9 DEF IssueForgets
<1>10. ASSUME NEW r \in Requests, IssueStores(r) PROVE Goal
  BY <1>b, <1>c, <1>10 DEF IssueStores
<1>11. ASSUME NEW r \in Requests, RevokePhone(r) PROVE Goal
  BY <1>d, <1>11 DEF RevokePhone
<1>12. ASSUME NEW r \in Requests, RevokeForgets(r) PROVE Goal
  BY <1>b, <1>12 DEF RevokeForgets
<1>13. ASSUME NEW r \in Requests, RemoveCommits(r) PROVE Goal
  BY <1>b, <1>c, <1>13 DEF RemoveCommits, Revoked
<1>14. ASSUME NEW r \in Requests, RegisterWrites(r) PROVE Goal
  BY <1>b, <1>14 DEF RegisterWrites
<1>15. ASSUME NEW r \in Requests, VerifyDoor(r) PROVE Goal
  BY <1>b, <1>15 DEF VerifyDoor
<1>16. ASSUME NEW r \in Requests, VerifyRules(r) PROVE Goal
  BY <1>b, <1>16 DEF VerifyRules
<1>17. ASSUME NEW r \in Requests, VerifyEnds(r) PROVE Goal
  BY <1>b, <1>17 DEF VerifyEnds
<1>18. ASSUME NEW e \in Employees, AppsChange(e) PROVE Goal
  BY <1>a, <1>18 DEF AppsChange, SameIdentities, Here, Person, Goal
<1>19. ASSUME NEW e \in Employees, TimePasses(e) PROVE Goal
  BY <1>a, <1>19 DEF TimePasses, SameIdentities, Here, Person, Goal
<1>20. ASSUME NEW e \in Employees, WindowEnds(e) PROVE Goal
  BY <1>b, <1>20 DEF WindowEnds
<1>21. ASSUME NEW p \in Phones, Unregister(p) PROVE Goal
  BY <1>b, <1>21 DEF Unregister
<1>22. ASSUME DoorChanges PROVE Goal
  BY <1>b, <1>22 DEF DoorChanges
<1>23. ASSUME SettingChanges PROVE Goal
  BY <1>b, <1>23 DEF SettingChanges
<1>24. Goal
  BY <1>1, <1>2, <1>3, <1>4, <1>5, <1>6, <1>7, <1>8, <1>9, <1>10, <1>11, <1>12, <1>13, <1>14,
     <1>15, <1>16, <1>17, <1>18, <1>19, <1>20, <1>21, <1>22, <1>23
     DEF Step, RequestStep, Begins
<1> QED BY <1>24 DEF Goal

\* What a PUT does: nothing, or it writes the one row of its identifier.
LEMMA PutDoes ==
  ASSUME TypeOK, Carried, OneRowEach, NEW r \in Requests, PutWrites(r)
  PROVE  LET q == request[r] IN
         /\ q.input \in Inputs /\ q.pc = "write" /\ q.op = "put"
         /\ \/ person' = person
            \/ \E e \in Employees :
                 /\ person' = [person EXCEPT ![e] = Put(person[e], q.ext, q.input)]
                 /\ (person[e] = NewPerson \/ (e \in Here /\ person[e].ext = q.ext))
                 /\ \A f \in Here \ {e} : person[f].ext # q.ext
                 /\ \A f \in Employees \ {e} : person'[f] = person[f]
                 /\ person'[e].row = "here" /\ person'[e].ext = q.ext
                 /\ person'[e].secret = person[e].secret
                 /\ person'[e].card = IF q.input.card = Keep THEN person[e].card ELSE q.input.card
                 /\ person'[e].project = IF q.input.project = Keep THEN person[e].project ELSE q.input.project
<1> DEFINE q == request[r]
           Writes(e) ==
             /\ person' = [person EXCEPT ![e] = Put(person[e], q.ext, q.input)]
             /\ (person[e] = NewPerson \/ (e \in Here /\ person[e].ext = q.ext))
             /\ \A f \in Here \ {e} : person[f].ext # q.ext
<1>1. /\ person \in [Employees -> Person] /\ q.ext \in Externals \cup {None}
      /\ q.row \in Employees \cup {None}
  BY DEF TypeOK, Request
<1>2. q.op = "put" /\ q.pc = "write" /\ q.input \in Inputs
  BY DEF PutWrites, At, Carried
<1>3. person' = person \/ \E e \in Employees : Writes(e)
  <2>1. CASE q.row = None
    <3>1. CASE WithExternal(q.ext) = {}
      <4>1. PICK e \in Employees : /\ person[e].row = "absent"
                                   /\ person' = [person EXCEPT ![e] = Put(person[e], q.ext, q.input)]
        BY <2>1, <3>1 DEF PutWrites
      <4>2. person[e] = NewPerson
        BY <4>1 DEF OneRowEach
      <4>3. \A f \in Here \ {e} : person[f].ext # q.ext
        BY <3>1 DEF WithExternal
      <4>4. Writes(e)
        BY <4>1, <4>2, <4>3, Zenon
      <4> QED BY <4>4
    <3>2. CASE WithExternal(q.ext) # {}
      BY <2>1, <3>2 DEF PutWrites
    <3> QED BY <3>1, <3>2
  <2>2. CASE q.row # None
    <3>1. CASE person[q.row].row = "here"
      <4>1. person' = [person EXCEPT ![q.row] = Put(person[q.row], q.ext, q.input)]
        BY <2>2, <3>1 DEF PutWrites
      <4>2. q.row \in Here /\ person[q.row].ext = q.ext
        BY <1>1, <1>2, <2>2, <3>1 DEF OneRowEach, Here, At
      <4>3. \A f \in Here \ {q.row} : person[f].ext # q.ext
        BY <4>2 DEF OneRowEach
      <4> QED BY <1>1, <2>2, <4>1, <4>2, <4>3
    <3>2. CASE person[q.row].row # "here"
      BY <2>2, <3>2 DEF PutWrites
    <3> QED BY <3>1, <3>2
  <2> QED BY <2>1, <2>2
<1>4. ASSUME NEW e \in Employees, Writes(e)
      PROVE  /\ \A f \in Employees \ {e} : person'[f] = person[f]
             /\ person'[e].row = "here" /\ person'[e].ext = q.ext
             /\ person'[e].secret = person[e].secret
             /\ person'[e].card = IF q.input.card = Keep THEN person[e].card ELSE q.input.card
             /\ person'[e].project = IF q.input.project = Keep THEN person[e].project ELSE q.input.project
  <2>1. person[e] \in Person
    BY <1>1
  <2>2. person'[e] = Put(person[e], q.ext, q.input)
    BY <1>1, <1>4
  <2>3. \A f \in Employees \ {e} : person'[f] = person[f]
    BY <1>1, <1>4
  <2> HIDE DEF q, Writes
  <2> QED BY <1>1, <1>2, <2>1, <2>2, <2>3, PutGives
<1> QED BY <1>2, <1>3, <1>4

LEMMA DeleteDoes ==
  ASSUME TypeOK, Carried, NEW r \in Requests, DeleteCommits(r)
  PROVE  /\ request[r].row \in Employees
         /\ person'[request[r].row] = [NewPerson EXCEPT !.row = "gone"]
         /\ \A f \in Employees \ {request[r].row} : person'[f] = person[f]
  BY DEF DeleteCommits, TypeOK, Carried, At

\* A row that was used is never free again, one that has gone stays so.
LEMMA RowsStay ==
  ASSUME TypeOK, Carried, OneRowEach, Step, NEW e \in Employees
  PROVE  /\ (person[e].row # "absent" => person'[e].row # "absent")
         /\ (person'[e].row = "here" /\ person[e].row # "here" => person[e] = NewPerson)
<1>1. CASE SameIdentities
  BY <1>1 DEF SameIdentities
<1>2. ASSUME NEW r \in Requests, PutWrites(r)
      PROVE  /\ (person[e].row # "absent" => person'[e].row # "absent")
             /\ (person'[e].row = "here" /\ person[e].row # "here" => person[e] = NewPerson)
  BY <1>2, PutDoes DEF Here
<1>3. ASSUME NEW r \in Requests, DeleteCommits(r)
      PROVE  /\ (person[e].row # "absent" => person'[e].row # "absent")
             /\ (person'[e].row = "here" /\ person[e].row # "here" => person[e] = NewPerson)
  BY <1>3, DeleteDoes DEF NewPerson
<1> QED BY <1>1, <1>2, <1>3, Identities

-----------------------------------------------------------------------------
(* What a request knows at each of its steps *)

LEMMA BegunCarries ==
  ASSUME TypeOK, Carried, OneRowEach, Step, NEW new, new \in Request, Begun(new)
  PROVE  /\ (new.op = "put" => new.input \in Inputs /\ new.pc \in {"read", "write"})
         /\ (new.op \in {"delete", "ask", "activate", "revoke", "remove", "register", "verify"} =>
               new.row \in Employees /\ person'[new.row].row # "absent")
         /\ (new.op \in {"activate", "remove", "register"} => new.phone \in Phones)
         /\ (new.op = "project" => new.owns \in Projects)
         /\ (new.op = "register" => new.owns \in 0..(MaxBadges + 1))
<1>1. \A e \in Here : e \in Employees /\ person'[e].row # "absent"
  BY RowsStay DEF Here
<1> QED BY <1>1 DEF Begun

LEMMA StepCarried ==
  ASSUME TypeOK, Carried, OneRowEach, Step
  PROVE  Carried'
<1> DEFINE Knows(q) ==
      /\ (q.op = "put" => q.input \in Inputs /\ q.pc \in {"read", "write"})
      /\ (q.op \in {"delete", "ask", "activate", "revoke", "remove", "register", "verify"} =>
            q.row \in Employees /\ person'[q.row].row # "absent")
      /\ (q.op \in {"activate", "remove", "register"} => q.phone \in Phones)
      /\ (q.op = "project" => q.owns \in Projects)
      /\ (q.op = "register" => q.owns \in 0..(MaxBadges + 1))
<1>1. request \in [Requests -> Request]
  BY DEF TypeOK
<1>2. \A s \in Requests : Knows(request[s])
  BY RowsStay DEF Carried
<1>3. ASSUME NEW r \in Requests, RequestStep(r), NEW s \in Requests PROVE Knows(request'[s])
  <2>1. Others(r) /\ Advances(r) /\ request'[r] \in Request
    BY <1>3, Progress
  <2>2. CASE s # r
    <3>1. request'[s] = request[s] \/ request'[s] = [request[s] EXCEPT !.over = TRUE]
      BY <2>1, <2>2 DEF Others
    <3>2. request[s] \in Request /\ Knows(request[s])
      BY <1>1, <1>2
    <3> HIDE DEF Knows
    <3>3. CASE request'[s] = [request[s] EXCEPT !.over = TRUE]
      BY <3>2, <3>3 DEF Request, Knows
    <3> QED BY <3>1, <3>2, <3>3
  <2>3. CASE s = r
    <3> DEFINE q == request[r] new == request'[r]
    <3>1. CASE new = Idle
      BY <2>3, <3>1 DEF Idle
    <3>2. CASE Begun(new)
      BY <2>1, <2>3, <3>2, BegunCarries
    <3>3. CASE \E e \in Here : new = [Idle EXCEPT !.op = "revoke", !.pc = "forget", !.row = e]
      <4>1. PICK e \in Here : new = [Idle EXCEPT !.op = "revoke", !.pc = "forget", !.row = e]
        BY <3>3
      <4>2. new.op = "revoke" /\ new.row = e
        BY <4>1 DEF Idle
      <4>3. e \in Employees /\ person'[e].row # "absent"
        BY RowsStay DEF Here
      <4> QED BY <2>3, <4>2, <4>3
    <3>4. ASSUME NEW e, NEW pc \in {"read", "write"}, q.op = "put", new = [q EXCEPT !.pc = pc, !.row = e]
          PROVE  Knows(request'[s])
      <4>2. q \in Request /\ Knows(q)
        BY <1>1, <1>2
      <4>3. new.op = "put" /\ new.pc = pc /\ new.input = q.input
        BY <3>4, <4>2 DEF Request
      <4> QED BY <2>3, <3>4, <4>2, <4>3
    <3>5. ASSUME NEW pc, q.op \in {"activate", "verify"}, new = [q EXCEPT !.pc = pc]
          PROVE  Knows(request'[s])
      <4>1. q \in Request /\ Knows(q)
        BY <1>1, <1>2
      <4>2. new.op = q.op /\ new.row = q.row /\ new.phone = q.phone /\ q.op \in {"activate", "verify"}
        BY <3>5, <4>1 DEF Request
      <4> QED BY <2>3, <4>1, <4>2
    <3>6. CASE \E e \in WithExternal(q.ext) \cup {None} : q.op = "put" /\ new = [q EXCEPT !.pc = "write", !.row = e]
      BY <3>4, <3>6
    <3>7. CASE q.op = "put" /\ new = [q EXCEPT !.pc = "read", !.row = None]
      BY <3>4, <3>7
    <3>8. CASE q.op = "activate" /\ (new = [q EXCEPT !.pc = "forget"] \/ new = [q EXCEPT !.pc = "store"])
      BY <3>5, <3>8
    <3>9. CASE /\ q.op = "verify"
               /\ \/ new = [q EXCEPT !.pc = "denied"] \/ new = [q EXCEPT !.pc = "rules"]
                  \/ new = [q EXCEPT !.pc = "granted"]
      BY <3>5, <3>9
    <3> QED BY <2>1, <3>1, <3>2, <3>3, <3>6, <3>7, <3>8, <3>9, Zenon DEF Advances
  <2> QED BY <2>2, <2>3
<1>4. CASE request' = request
  BY <1>2, <1>4 DEF Carried
<1>5. CASE \E r \in Requests : RequestStep(r)
  BY <1>3, <1>5 DEF Carried
<1> QED BY <1>4, <1>5 DEF Step, AppsChange, TimePasses, WindowEnds, Unregister, DoorChanges, SettingChanges

-----------------------------------------------------------------------------
(* Cards, projects and the rows that requests have found *)

LEMMA ProjectsStay ==
  ASSUME TypeOK, Step
  PROVE  (\E r \in Requests : ProjectDeletes(r)) \/ projects' = projects
<1> DEFINE Goal == (\E r \in Requests : ProjectDeletes(r)) \/ projects' = projects
<1> HIDE DEF Goal
<1>1. ASSUME NEW r \in Requests, Begins(r) PROVE Goal
  BY <1>1, Beginnings DEF Tables, Goal
<1>2. ASSUME NEW r \in Requests, PutReads(r) PROVE Goal
  BY <1>2 DEF PutReads, Goal
<1>3. ASSUME NEW r \in Requests, PutWrites(r) PROVE Goal
  BY <1>3 DEF PutWrites, Goal
<1>4. ASSUME NEW r \in Requests, PutRetries(r) PROVE Goal
  BY <1>4 DEF PutRetries, Goal
<1>5. ASSUME NEW r \in Requests, DeleteCommits(r) PROVE Goal
  BY <1>5 DEF DeleteCommits, Goal
<1>6. ASSUME NEW r \in Requests, ProjectDeletes(r) PROVE Goal
  BY <1>6 DEF Goal
<1>7. ASSUME NEW r \in Requests, AskWrites(r) PROVE Goal
  BY <1>7 DEF AskWrites, Goal
<1>8. ASSUME NEW r \in Requests, ActivateTakes(r) PROVE Goal
  BY <1>8 DEF ActivateTakes, Goal
<1>9. ASSUME NEW r \in Requests, IssueForgets(r) PROVE Goal
  BY <1>9 DEF IssueForgets, Goal
<1>10. ASSUME NEW r \in Requests, IssueStores(r) PROVE Goal
  BY <1>10 DEF IssueStores, Goal
<1>11. ASSUME NEW r \in Requests, RevokePhone(r) PROVE Goal
  BY <1>11 DEF RevokePhone, Goal
<1>12. ASSUME NEW r \in Requests, RevokeForgets(r) PROVE Goal
  BY <1>12 DEF RevokeForgets, Goal
<1>13. ASSUME NEW r \in Requests, RemoveCommits(r) PROVE Goal
  BY <1>13 DEF RemoveCommits, Goal
<1>14. ASSUME NEW r \in Requests, RegisterWrites(r) PROVE Goal
  BY <1>14 DEF RegisterWrites, Goal
<1>15. ASSUME NEW r \in Requests, VerifyDoor(r) PROVE Goal
  BY <1>15 DEF VerifyDoor, Goal
<1>16. ASSUME NEW r \in Requests, VerifyRules(r) PROVE Goal
  BY <1>16 DEF VerifyRules, Goal
<1>17. ASSUME NEW r \in Requests, VerifyEnds(r) PROVE Goal
  BY <1>17 DEF VerifyEnds, Goal
<1>18. ASSUME NEW e \in Employees, AppsChange(e) PROVE Goal
  BY <1>18 DEF AppsChange, Goal
<1>19. ASSUME NEW e \in Employees, TimePasses(e) PROVE Goal
  BY <1>19 DEF TimePasses, Goal
<1>20. ASSUME NEW e \in Employees, WindowEnds(e) PROVE Goal
  BY <1>20 DEF WindowEnds, Goal
<1>21. ASSUME NEW p \in Phones, Unregister(p) PROVE Goal
  BY <1>21 DEF Unregister, Goal
<1>22. ASSUME DoorChanges PROVE Goal
  BY <1>22 DEF DoorChanges, Goal
<1>23. ASSUME SettingChanges PROVE Goal
  BY <1>23 DEF SettingChanges, Goal
<1>24. Goal
  BY <1>1, <1>2, <1>3, <1>4, <1>5, <1>6, <1>7, <1>8, <1>9, <1>10, <1>11, <1>12, <1>13, <1>14,
     <1>15, <1>16, <1>17, <1>18, <1>19, <1>20, <1>21, <1>22, <1>23
     DEF Step, RequestStep, Begins
<1> QED BY <1>24 DEF Goal

LEMMA RacedGrows ==
  ASSUME TypeOK, Step
  PROVE  raced \subseteq raced'
<1> DEFINE Goal == raced \subseteq raced'
<1> HIDE DEF Goal
<1>1. ASSUME NEW r \in Requests, Begins(r) PROVE Goal
  BY <1>1, Beginnings DEF Tables, Goal
<1>2. ASSUME NEW r \in Requests, PutReads(r) PROVE Goal
  BY <1>2 DEF PutReads, Goal
<1>3. ASSUME NEW r \in Requests, PutWrites(r) PROVE Goal
  BY <1>3 DEF PutWrites, Goal
<1>4. ASSUME NEW r \in Requests, PutRetries(r) PROVE Goal
  BY <1>4 DEF PutRetries, Goal
<1>5. ASSUME NEW r \in Requests, DeleteCommits(r) PROVE Goal
  BY <1>5 DEF DeleteCommits, Goal
<1>6. ASSUME NEW r \in Requests, ProjectDeletes(r) PROVE Goal
  BY <1>6 DEF ProjectDeletes, Goal
<1>7. ASSUME NEW r \in Requests, AskWrites(r) PROVE Goal
  BY <1>7 DEF AskWrites, Goal
<1>8. ASSUME NEW r \in Requests, ActivateTakes(r) PROVE Goal
  BY <1>8 DEF ActivateTakes, Goal
<1>9. ASSUME NEW r \in Requests, IssueForgets(r) PROVE Goal
  BY <1>9 DEF IssueForgets, Goal
<1>10. ASSUME NEW r \in Requests, IssueStores(r) PROVE Goal
  BY <1>10 DEF IssueStores, Goal
<1>11. ASSUME NEW r \in Requests, RevokePhone(r) PROVE Goal
  BY <1>11 DEF RevokePhone, Goal
<1>12. ASSUME NEW r \in Requests, RevokeForgets(r) PROVE Goal
  BY <1>12 DEF RevokeForgets, Goal
<1>13. ASSUME NEW r \in Requests, RemoveCommits(r) PROVE Goal
  BY <1>13 DEF RemoveCommits, Goal
<1>14. ASSUME NEW r \in Requests, RegisterWrites(r) PROVE Goal
  BY <1>14 DEF RegisterWrites, Goal
<1>15. ASSUME NEW r \in Requests, VerifyDoor(r) PROVE Goal
  BY <1>15 DEF VerifyDoor, Goal
<1>16. ASSUME NEW r \in Requests, VerifyRules(r) PROVE Goal
  BY <1>16 DEF VerifyRules, Goal
<1>17. ASSUME NEW r \in Requests, VerifyEnds(r) PROVE Goal
  BY <1>17 DEF VerifyEnds, Goal
<1>18. ASSUME NEW e \in Employees, AppsChange(e) PROVE Goal
  BY <1>18 DEF AppsChange, Goal
<1>19. ASSUME NEW e \in Employees, TimePasses(e) PROVE Goal
  BY <1>19 DEF TimePasses, Goal
<1>20. ASSUME NEW e \in Employees, WindowEnds(e) PROVE Goal
  BY <1>20 DEF WindowEnds, Goal
<1>21. ASSUME NEW p \in Phones, Unregister(p) PROVE Goal
  BY <1>21 DEF Unregister, Goal
<1>22. ASSUME DoorChanges PROVE Goal
  BY <1>22 DEF DoorChanges, Goal
<1>23. ASSUME SettingChanges PROVE Goal
  BY <1>23 DEF SettingChanges, Goal
<1>24. Goal
  BY <1>1, <1>2, <1>3, <1>4, <1>5, <1>6, <1>7, <1>8, <1>9, <1>10, <1>11, <1>12, <1>13, <1>14,
     <1>15, <1>16, <1>17, <1>18, <1>19, <1>20, <1>21, <1>22, <1>23
     DEF Step, RequestStep, Begins
<1> QED BY <1>24 DEF Goal

\* A PUT that is to write has written down what it read before, or reads now.
LEMMA Waiting ==
  ASSUME TypeOK, Step, NEW s \in Requests, request'[s].op = "put", request'[s].pc = "write"
  PROVE  /\ request'[s].input = request[s].input /\ request'[s].ext = request[s].ext
         /\ request[s].op = "put"
         /\ \/ request[s].pc = "write" /\ request'[s].row = request[s].row
            \/ /\ UNCHANGED Tables /\ request'[s].row \in WithExternal(request[s].ext) \cup {None}
               /\ request[s].input.project \in projects \cup {None, Keep}
               /\ CardFree(request[s].input.card, request[s].ext)
<1> DEFINE Goal ==
         /\ request'[s].input = request[s].input /\ request'[s].ext = request[s].ext
         /\ request[s].op = "put"
         /\ \/ request[s].pc = "write" /\ request'[s].row = request[s].row
            \/ /\ UNCHANGED Tables /\ request'[s].row \in WithExternal(request[s].ext) \cup {None}
               /\ request[s].input.project \in projects \cup {None, Keep}
               /\ CardFree(request[s].input.card, request[s].ext)
<1>1. request[s] \in Request
  BY DEF TypeOK
<1>2. ASSUME request'[s] = request[s] \/ request'[s] = [request[s] EXCEPT !.over = TRUE] PROVE Goal
  BY <1>1, <1>2 DEF Request
<1>3. ASSUME Advances(s) PROVE Goal
  <2> DEFINE q == request[s] new == request'[s]
  <2>1. \A pc : q.op # "put" => [q EXCEPT !.pc = pc].op # "put"
    BY <1>1 DEF Request
  <2>2. new # Idle
    BY DEF Idle
  <2>3. ~Begun(new)
    BY DEF Begun
  <2>4. \A e : new # [Idle EXCEPT !.op = "revoke", !.pc = "forget", !.row = e]
    BY DEF Idle
  <2>5. new # [q EXCEPT !.pc = "read", !.row = None]
    BY <1>1 DEF Request
  <2>6. /\ q.op = "put" /\ q.pc = "read" /\ UNCHANGED Tables
        /\ \E e \in WithExternal(q.ext) \cup {None} : new = [q EXCEPT !.pc = "write", !.row = e]
        /\ q.input.project \in projects \cup {None, Keep} /\ CardFree(q.input.card, q.ext)
    BY <1>3, <2>1, <2>2, <2>3, <2>4, <2>5 DEF Advances
  <2>7. PICK e \in WithExternal(q.ext) \cup {None} : new = [q EXCEPT !.pc = "write", !.row = e]
    BY <2>6
  <2>8. new.input = q.input /\ new.ext = q.ext /\ new.row = e
    BY <1>1, <2>7 DEF Request
  <2> QED BY <2>6, <2>7, <2>8
<1> HIDE DEF Goal
<1>4. CASE \E r \in Requests : RequestStep(r)
  <2>1. PICK r \in Requests : RequestStep(r)
    BY <1>4
  <2>2. Others(r) /\ Advances(r)
    BY <2>1, Progress
  <2>3. Goal
    BY <2>2, <1>2, <1>3 DEF Others
  <2> QED BY <2>3 DEF Goal
<1>5. CASE request' = request
  <2>1. Goal
    BY <1>5, <1>2
  <2> QED BY <2>1 DEF Goal
<1> QED BY <1>4, <1>5 DEF Step, AppsChange, TimePasses, WindowEnds, Unregister, DoorChanges, SettingChanges

\* A deletion of a project is on its way since it found it unused.
LEMMA Deleting ==
  ASSUME TypeOK, Step, NEW s \in Requests, request'[s].op = "project"
  PROVE  \/ /\ request[s].op = "project" /\ request'[s].owns = request[s].owns
            /\ (request[s].over => request'[s].over)
         \/ UNCHANGED Tables /\ request'[s].owns \in Projects /\ Unused(request'[s].owns)
<1> DEFINE Goal ==
         \/ /\ request[s].op = "project" /\ request'[s].owns = request[s].owns
            /\ (request[s].over => request'[s].over)
         \/ UNCHANGED Tables /\ request'[s].owns \in Projects /\ Unused(request'[s].owns)
<1>1. request[s] \in Request
  BY DEF TypeOK
<1>2. ASSUME request'[s] = request[s] \/ request'[s] = [request[s] EXCEPT !.over = TRUE] PROVE Goal
  BY <1>1, <1>2 DEF Request
<1>3. ASSUME Advances(s) PROVE Goal
  <2> DEFINE q == request[s] new == request'[s]
  <2>1. new # Idle
    BY DEF Idle
  <2>2. \A e : new # [Idle EXCEPT !.op = "revoke", !.pc = "forget", !.row = e]
    BY DEF Idle
  <2>3. /\ q.op # "project" => \A e : new # [q EXCEPT !.pc = "write", !.row = e]
        /\ q.op # "project" => new # [q EXCEPT !.pc = "read", !.row = None]
        /\ q.op # "project" => \A pc : new # [q EXCEPT !.pc = pc]
    BY <1>1, ZenonT(40) DEF Request
  <2>4. Begun(new) /\ UNCHANGED Tables
    BY <1>3, <2>1, <2>2, <2>3 DEF Advances
  <2> QED BY <2>4 DEF Begun
<1> HIDE DEF Goal
<1>4. CASE \E r \in Requests : RequestStep(r)
  <2>1. PICK r \in Requests : RequestStep(r)
    BY <1>4
  <2>2. Others(r) /\ Advances(r)
    BY <2>1, Progress
  <2>3. Goal
    BY <2>2, <1>2, <1>3 DEF Others
  <2> QED BY <2>3 DEF Goal
<1>5. CASE request' = request
  <2>1. Goal
    BY <1>5, <1>2
  <2> QED BY <2>1 DEF Goal
<1> QED BY <1>4, <1>5 DEF Step, AppsChange, TimePasses, WindowEnds, Unregister, DoorChanges, SettingChanges

LEMMA StepOneRowEach ==
  ASSUME TypeOK, Carried, OneRowEach, Step
  PROVE  OneRowEach'
<1>a. person \in [Employees -> Person]
  BY DEF TypeOK
<1>1. ASSUME NEW e \in Employees, person'[e].row = "absent" PROVE person'[e] = NewPerson
  <2>1. CASE SameIdentities
    BY <1>1, <2>1 DEF SameIdentities, OneRowEach
  <2>2. ASSUME NEW r \in Requests, PutWrites(r) PROVE person'[e] = NewPerson
    BY <1>1, <2>2, PutDoes DEF OneRowEach
  <2>3. ASSUME NEW r \in Requests, DeleteCommits(r) PROVE person'[e] = NewPerson
    BY <1>1, <2>3, DeleteDoes, ZenonT(40) DEF OneRowEach, NewPerson
  <2> QED BY <2>1, <2>2, <2>3, Identities
<1>2. ASSUME NEW e \in Employees, NEW f \in Employees, person'[e].row = "here", person'[f].row = "here",
             person'[e].ext = person'[f].ext
      PROVE  e = f
  <2>1. CASE SameIdentities
    BY <1>2, <2>1 DEF SameIdentities, OneRowEach, Here
  <2>2. ASSUME NEW r \in Requests, PutWrites(r) PROVE e = f
    BY <1>2, <2>2, PutDoes DEF OneRowEach, Here
  <2>3. ASSUME NEW r \in Requests, DeleteCommits(r) PROVE e = f
    BY <1>2, <2>3, DeleteDoes DEF OneRowEach, NewPerson, Here
  <2> QED BY <2>1, <2>2, <2>3, Identities
<1>3. ASSUME NEW s \in Requests, request'[s].op = "put", request'[s].pc = "write", request'[s].row # None
      PROVE  /\ person'[request'[s].row].row # "absent"
             /\ (person'[request'[s].row].row = "here" => person'[request'[s].row].ext = request'[s].ext)
  <2> DEFINE e == request'[s].row
  <2>1. /\ request'[s].ext = request[s].ext /\ e \in Employees /\ person[e].row # "absent"
        /\ (person[e].row = "here" => person[e].ext = request[s].ext)
    <3>1. CASE request[s].op = "put" /\ request[s].pc = "write" /\ request'[s].row = request[s].row
      <4>1. request[s].row \in Employees
        BY <1>3, <3>1 DEF TypeOK, Request
      <4> QED BY <1>3, <3>1, <4>1, Waiting DEF OneRowEach, At, Here
    <3>2. CASE request'[s].row \in WithExternal(request[s].ext) \cup {None}
      BY <1>3, <3>2, Waiting DEF WithExternal, Here
    <3> QED BY <1>3, <3>1, <3>2, Waiting
  <2>2. person'[e].row # "absent" /\ (person'[e].row = "here" => person[e].row = "here")
    BY <2>1, RowsStay DEF NewPerson
  <2>3. ASSUME person'[e].row = "here" PROVE person'[e].ext = person[e].ext
    <3>1. CASE SameIdentities
      BY <2>1, <3>1 DEF SameIdentities
    <3>2. ASSUME NEW r \in Requests, PutWrites(r) PROVE person'[e].ext = person[e].ext
      BY <2>1, <3>2, PutDoes DEF NewPerson
    <3>3. ASSUME NEW r \in Requests, DeleteCommits(r) PROVE person'[e].ext = person[e].ext
      BY <2>1, <2>3, <3>3, DeleteDoes DEF NewPerson
    <3> QED BY <3>1, <3>2, <3>3, Identities
  <2> QED BY <2>1, <2>2, <2>3
<1> QED BY <1>1, <1>2, <1>3 DEF OneRowEach, Here, At

LEMMA StepCardsFree ==
  ASSUME TypeOK, Carried, OneRowEach, StillFree, Step,
         NEW s \in Requests, request'[s].op = "put", request'[s].pc = "write",
         NEW e \in Employees, person'[e].row = "here",
         request'[s].input.card \in Cards, person'[e].card = request'[s].input.card
  PROVE  person'[e].ext = request'[s].ext \/ request'[s].input.card \in raced'
<1> DEFINE c == request[s].input.card
           Goal == person'[e].ext = request[s].ext \/ c \in raced'
<1>1. /\ request'[s].input = request[s].input /\ request'[s].ext = request[s].ext
      /\ request[s].op = "put" /\ c \in Cards /\ person'[e].card = c
  BY Waiting
<1>2. c \notin {None, Keep}
  BY <1>1, NothingIsNobody
<1>3. ASSUME UNCHANGED Tables, CardFree(c, request[s].ext) PROVE Goal
  BY <1>1, <1>2, <1>3 DEF CardFree, Tables, Here
<1>4. ASSUME request[s].pc = "write" PROVE Goal
  <2>1. person[e].row = "here" /\ person[e].card = c => person[e].ext = request[s].ext \/ c \in raced
    BY <1>1, <1>4 DEF StillFree, At, Here
  <2>2. raced \subseteq raced'
    BY RacedGrows
  <2>3. ASSUME SameIdentities PROVE Goal
    BY <1>1, <2>1, <2>2, <2>3 DEF SameIdentities
  <2>4. ASSUME person'[e] = person[e] PROVE Goal
    BY <1>1, <2>1, <2>2, <2>4
  <2>5. ASSUME NEW r \in Requests, PutWrites(r) PROVE Goal
    <3> DEFINE q == request[r]
    <3>1. q.input \in Inputs /\ q.op = "put" /\ q.pc = "write"
      BY <2>5, PutDoes
    <3>2. CASE person'[e] = person[e]
      BY <2>4, <3>2
    <3>3. CASE person'[e] # person[e]
      <4>1. /\ person'[e].ext = q.ext /\ (person[e] = NewPerson \/ (e \in Here /\ person[e].ext = q.ext))
            /\ person'[e].card = IF q.input.card = Keep THEN person[e].card ELSE q.input.card
        BY <2>5, <3>3, PutDoes
      <4>2. CASE q.input.card = Keep
        <5>1. person[e].card = c
          BY <1>1, <4>1, <4>2
        <5>2. person[e] # NewPerson
          BY <1>2, <5>1 DEF NewPerson
        <5> QED BY <2>1, <2>2, <4>1, <5>1, <5>2 DEF Here
      <4>3. CASE q.input.card # Keep
        <5>1. q.input.card = c
          BY <1>1, <4>1, <4>3
        <5>2. CASE request[s].ext = q.ext
          BY <4>1, <5>2
        <5>3. CASE request[s].ext # q.ext
          <6>1. c \in PutsCrossing(r, q.ext, q.input)
            BY <1>1, <1>4, <5>1, <5>3 DEF PutsCrossing, At
          <6> QED BY <2>5, <6>1 DEF PutWrites
        <5> QED BY <5>2, <5>3
      <4> QED BY <4>2, <4>3
    <3> QED BY <3>2, <3>3
  <2>6. ASSUME NEW r \in Requests, DeleteCommits(r) PROVE Goal
    <3>1. e # request[r].row
      BY <2>6, DeleteDoes DEF NewPerson
    <3> QED BY <2>4, <2>6, <3>1, DeleteDoes
  <2> QED BY <2>3, <2>5, <2>6, Identities
<1> HIDE DEF Goal
<1>5. Goal
  BY <1>3, <1>4, Waiting
<1> QED BY <1>1, <1>5 DEF Goal

LEMMA StepProjectsThere ==
  ASSUME TypeOK, StillFree, Step, NEW s \in Requests, request'[s].op = "put", request'[s].pc = "write"
  PROVE  request'[s].input.project \in projects' \cup raced' \cup {None, Keep}
<1> DEFINE j == request[s].input.project
<1>1. request'[s].input = request[s].input /\ request[s].op = "put"
  BY Waiting
<1>2. raced \subseteq raced'
  BY RacedGrows
<1>3. CASE UNCHANGED Tables /\ j \in projects \cup {None, Keep}
  BY <1>1, <1>3 DEF Tables
<1>4. CASE request[s].pc = "write"
  <2>1. j \in projects \cup raced \cup {None, Keep}
    BY <1>1, <1>4 DEF StillFree, At
  <2>2. CASE projects' = projects
    BY <1>1, <1>2, <2>1, <2>2
  <2>3. ASSUME NEW r \in Requests, ProjectDeletes(r) PROVE j \in projects' \cup raced' \cup {None, Keep}
    <3>1. CASE j = request[r].owns
      BY <1>1, <1>4, <2>3, <3>1 DEF ProjectDeletes, At
    <3>2. CASE j # request[r].owns
      BY <1>2, <2>1, <2>3, <3>2 DEF ProjectDeletes
    <3> QED BY <3>1, <3>2
  <2> QED BY <1>1, <2>2, <2>3, ProjectsStay
<1> QED BY <1>3, <1>4, Waiting

LEMMA StepUnused ==
  ASSUME TypeOK, Carried, OneRowEach, StillFree, Step, NEW s \in Requests, request'[s].op = "project",
         NEW e \in Employees, person'[e].row = "here", person'[e].project = request'[s].owns
  PROVE  request'[s].over
<1> DEFINE j == request'[s].owns
<1>1. CASE UNCHANGED Tables /\ Unused(j)
  BY <1>1 DEF Tables, Unused, Here
<1>2. CASE /\ request[s].op = "project" /\ request'[s].owns = request[s].owns
           /\ (request[s].over => request'[s].over)
  <2>1. j \in Projects /\ j # None /\ j # Keep
    BY <1>2, NothingIsNobody DEF Carried
  <2>2. request[s].over \/ \A f \in Employees : person[f].row = "here" => person[f].project # j
    BY <1>2 DEF StillFree, Unused, Here
  <2>3. CASE SameIdentities
    BY <1>2, <2>2, <2>3 DEF SameIdentities
  <2>4. CASE person'[e] = person[e]
    BY <1>2, <2>2, <2>4
  <2>5. ASSUME NEW r \in Requests, PutWrites(r), person'[e] # person[e] PROVE request'[s].over
    <3> DEFINE q == request[r]
    <3>1. /\ q.op = "put" /\ (person[e] = NewPerson \/ e \in Here)
          /\ person'[e].project = IF q.input.project = Keep THEN person[e].project ELSE q.input.project
      BY <2>5, PutDoes
    <3>2. CASE q.input.project = Keep
      <4>1. person[e].project = j
        BY <3>1, <3>2
      <4>2. person[e] # NewPerson
        BY <2>1, <4>1 DEF NewPerson
      <4> QED BY <1>2, <2>2, <3>1, <4>1, <4>2 DEF Here
    <3>3. CASE q.input.project # Keep
      <4>1. q.input.project = request[s].owns /\ s # r
        BY <1>2, <3>1, <3>3
      <4>2. request'[s] = [request[s] EXCEPT !.over = TRUE]
        BY <1>2, <2>5, <4>1 DEF PutWrites, Crosses
      <4>3. request[s] \in Request
        BY DEF TypeOK
      <4> QED BY <4>2, <4>3 DEF Request
    <3> QED BY <3>2, <3>3
  <2>6. ASSUME NEW r \in Requests, DeleteCommits(r) PROVE person'[e] = person[e]
    BY <2>6, DeleteDoes DEF NewPerson
  <2> QED BY <2>3, <2>4, <2>5, <2>6, Identities
<1> QED BY <1>1, <1>2, Deleting

LEMMA StepStillFree ==
  ASSUME TypeOK, Carried, OneRowEach, StillFree, Step
  PROVE  StillFree'
<1>1. ASSUME NEW s \in Requests, request'[s].op = "put", request'[s].pc = "write"
      PROVE  /\ \A e \in Here' : person'[e].card = request'[s].input.card /\ request'[s].input.card \in Cards =>
                   person'[e].ext = request'[s].ext \/ request'[s].input.card \in raced'
             /\ request'[s].input.project \in projects' \cup raced' \cup {None, Keep}
  <2>1. request'[s].input.project \in projects' \cup raced' \cup {None, Keep}
    BY <1>1, StepProjectsThere
  <2>2. \A e \in Employees : person'[e].row = "here" =>
          (person'[e].card = request'[s].input.card /\ request'[s].input.card \in Cards =>
             person'[e].ext = request'[s].ext \/ request'[s].input.card \in raced')
    BY <1>1, StepCardsFree
  <2> QED BY <2>1, <2>2 DEF Here
<1>2. ASSUME NEW s \in Requests, request'[s].op = "project"
      PROVE  request'[s].over \/ \A e \in Here' : person'[e].project # request'[s].owns
  <2>1. \A e \in Employees :
          person'[e].row = "here" /\ person'[e].project = request'[s].owns => request'[s].over
    BY <1>2, StepUnused
  <2> QED BY <2>1 DEF Here
<1>3. /\ (\A r \in Requests : At(r, "put", "write") =>
            /\ \A e \in Here : person[e].card = request[r].input.card /\ request[r].input.card \in Cards =>
                 person[e].ext = request[r].ext \/ request[r].input.card \in raced
            /\ request[r].input.project \in projects \cup raced \cup {None, Keep})'
      /\ (\A r \in Requests : request[r].op = "project" =>
            request[r].over \/ \A e \in Here : person[e].project # request[r].owns)'
  BY <1>1, <1>2 DEF At
<1> QED BY <1>3 DEF StillFree, Unused

LEMMA StepOneCard ==
  ASSUME TypeOK, Carried, OneRowEach, StillFree, WhatIsShared, Step,
         NEW e \in Employees, NEW f \in Employees, e # f, person'[e].row = "here", person'[f].row = "here",
         person'[e].card = person'[f].card
  PROVE  person'[e].card \in raced' \cup {None}
<1>1. raced \subseteq raced'
  BY RacedGrows
<1>2. ASSUME NEW a \in Employees, NEW b \in Employees, a # b, person[a].row = "here", person[b].row = "here",
             person[a].card = person[b].card
      PROVE  person[a].card \in raced'
             \cup {None}
  BY <1>1, <1>2 DEF WhatIsShared, Here
<1>3. CASE SameIdentities
  BY <1>2, <1>3 DEF SameIdentities
<1>4. ASSUME NEW r \in Requests, PutWrites(r) PROVE person'[e].card \in raced' \cup {None}
  <2> DEFINE q == request[r]
  <2>1. q.input \in Inputs /\ q.op = "put" /\ q.pc = "write"
    BY <1>4, PutDoes
  <2>2. CASE person'[e] = person[e] /\ person'[f] = person[f]
    BY <1>2, <2>2
  <2>3. ASSUME NEW a \in Employees, NEW b \in Employees, a # b, person'[a] # person[a],
               person'[b].row = "here", person'[a].card = person'[b].card
        PROVE  person'[a].card \in raced' \cup {None}
    <3>1. /\ person'[b] = person[b] /\ b \in Here /\ person[b].ext # q.ext
          /\ (person[a] = NewPerson \/ a \in Here)
          /\ person'[a].card = IF q.input.card = Keep THEN person[a].card ELSE q.input.card
      BY <1>4, <2>3, PutDoes DEF Here
    <3>2. CASE q.input.card = Keep
      <4>1. person'[a].card = person[a].card
        BY <3>1, <3>2
      <4>2. CASE person[a] = NewPerson
        BY <4>1, <4>2 DEF NewPerson
      <4>3. CASE a \in Here
        BY <1>2, <2>3, <3>1, <4>1, <4>3 DEF Here
      <4> QED BY <3>1, <4>2, <4>3
    <3>3. CASE q.input.card # Keep
      <4>1. q.input.card = person[b].card /\ q.input.card = person'[a].card /\ q.input.card \in Cards \cup {None}
        BY <2>1, <2>3, <3>1, <3>3, InputTypes
      <4>2. q.input.card \in Cards => q.input.card \in raced
        BY <2>1, <3>1, <4>1 DEF StillFree, At
      <4> QED BY <1>1, <4>1, <4>2
    <3> QED BY <3>2, <3>3
  <2> QED BY <2>2, <2>3
<1>5. ASSUME NEW r \in Requests, DeleteCommits(r) PROVE person'[e] = person[e] /\ person'[f] = person[f]
  BY <1>5, DeleteDoes DEF NewPerson
<1>6. CASE person'[e] = person[e] /\ person'[f] = person[f]
  BY <1>2, <1>6
<1> QED BY <1>3, <1>4, <1>5, <1>6, Identities

LEMMA StepProjects ==
  ASSUME TypeOK, Carried, OneRowEach, StillFree, WhatIsShared, Step, NEW e \in Employees, person'[e].row = "here"
  PROVE  person'[e].project \in projects' \cup raced' \cup {None}
<1>1. raced \subseteq raced'
  BY RacedGrows
<1>2. person[e].row = "here" => person[e].project \in projects \cup raced \cup {None}
  BY DEF WhatIsShared, Here
<1>3. ASSUME NEW r \in Requests, ProjectDeletes(r) PROVE person'[e].project \in projects' \cup raced' \cup {None}
  <2>1. person' = person /\ request[r].op = "project"
    BY <1>3 DEF ProjectDeletes, At
  <2>2. CASE person[e].project = request[r].owns
    <3>1. request[r].over
      BY <2>1, <2>2 DEF StillFree, Unused, Here
    <3> QED BY <1>3, <2>1, <2>2, <3>1 DEF ProjectDeletes
  <2>3. CASE person[e].project # request[r].owns
    BY <1>1, <1>2, <1>3, <2>1, <2>3 DEF ProjectDeletes
  <2> QED BY <2>2, <2>3
<1>4. ASSUME projects' = projects, person'[e].row = person[e].row, person'[e].project = person[e].project
      PROVE  person'[e].project \in projects' \cup raced' \cup {None}
  BY <1>1, <1>2, <1>4
<1>5. ASSUME NEW r \in Requests, PutWrites(r) PROVE person'[e].project \in projects' \cup raced' \cup {None}
  <2> DEFINE q == request[r]
  <2>1. q.input \in Inputs /\ q.op = "put" /\ q.pc = "write" /\ projects' = projects
    BY <1>5, PutDoes DEF PutWrites
  <2>2. CASE person'[e] = person[e]
    BY <1>4, <2>1, <2>2
  <2>3. CASE person'[e] # person[e]
    <3>1. /\ (person[e] = NewPerson \/ e \in Here)
          /\ person'[e].project = IF q.input.project = Keep THEN person[e].project ELSE q.input.project
      BY <1>5, <2>3, PutDoes
    <3>2. q.input.project \in projects \cup raced \cup {None, Keep}
      BY <2>1 DEF StillFree, At
    <3>3. CASE person[e] = NewPerson
      BY <1>1, <2>1, <3>1, <3>2, <3>3 DEF NewPerson
    <3>4. CASE e \in Here
      BY <1>1, <1>2, <2>1, <3>1, <3>2, <3>4 DEF Here
    <3> QED BY <3>1, <3>3, <3>4
  <2> QED BY <2>2, <2>3
<1>6. ASSUME NEW r \in Requests, DeleteCommits(r)
      PROVE  person'[e] = person[e] /\ projects' = projects
  <2>1. person'[e] = person[e]
    BY <1>6, DeleteDoes DEF NewPerson
  <2> QED BY <1>6, <2>1 DEF DeleteCommits
<1>7. CASE SameIdentities /\ projects' = projects
  BY <1>4, <1>7 DEF SameIdentities
<1>8. CASE (\E r \in Requests : PutWrites(r) \/ DeleteCommits(r)) /\ projects' = projects
  BY <1>4, <1>5, <1>6, <1>8
<1> QED BY <1>3, <1>7, <1>8, Identities, ProjectsStay

LEMMA StepShared ==
  ASSUME TypeOK, Carried, OneRowEach, StillFree, WhatIsShared, Step
  PROVE  WhatIsShared'
<1>1. \A e, f \in Employees :
        person'[e].row = "here" /\ person'[f].row = "here" /\ e # f /\ person'[e].card = person'[f].card =>
          person'[e].card \in raced' \cup {None}
  BY StepOneCard
<1>2. \A e \in Employees : person'[e].row = "here" => person'[e].project \in projects' \cup raced' \cup {None}
  BY StepProjects
<1> QED BY <1>1, <1>2 DEF WhatIsShared, Here

-----------------------------------------------------------------------------
(* Attempts *)

LEMMA Products ==
  /\ MaxAttempts * 0 = 0
  /\ \A n \in Nat : MaxAttempts * n \in Nat /\ MaxAttempts * (n + 1) = MaxAttempts * n + MaxAttempts
  BY Bounds

LEMMA LoginsStay ==
  ASSUME TypeOK, Step
  PROVE  \/ \E r \in Requests : DeleteCommits(r) \/ AskWrites(r) \/ ActivateTakes(r) \/ IssueStores(r)
         \/ \E e \in Employees : WindowEnds(e)
         \/ UNCHANGED <<login, guesses, overlaps>>
<1> DEFINE Goal ==
         \/ \E r \in Requests : DeleteCommits(r) \/ AskWrites(r) \/ ActivateTakes(r) \/ IssueStores(r)
         \/ \E e \in Employees : WindowEnds(e)
         \/ UNCHANGED <<login, guesses, overlaps>>
<1> HIDE DEF Goal
<1>1. ASSUME NEW r \in Requests, Begins(r) PROVE Goal
  BY <1>1, Beginnings DEF Tables, Goal
<1>2. ASSUME NEW r \in Requests, PutReads(r) PROVE Goal
  BY <1>2 DEF PutReads, Goal
<1>3. ASSUME NEW r \in Requests, PutWrites(r) PROVE Goal
  BY <1>3 DEF PutWrites, Goal
<1>4. ASSUME NEW r \in Requests, PutRetries(r) PROVE Goal
  BY <1>4 DEF PutRetries, Goal
<1>5. ASSUME NEW r \in Requests, DeleteCommits(r) PROVE Goal
  BY <1>5 DEF Goal
<1>6. ASSUME NEW r \in Requests, ProjectDeletes(r) PROVE Goal
  BY <1>6 DEF ProjectDeletes, Goal
<1>7. ASSUME NEW r \in Requests, AskWrites(r) PROVE Goal
  BY <1>7 DEF Goal
<1>8. ASSUME NEW r \in Requests, ActivateTakes(r) PROVE Goal
  BY <1>8 DEF Goal
<1>9. ASSUME NEW r \in Requests, IssueForgets(r) PROVE Goal
  BY <1>9 DEF IssueForgets, Goal
<1>10. ASSUME NEW r \in Requests, IssueStores(r) PROVE Goal
  BY <1>10 DEF Goal
<1>11. ASSUME NEW r \in Requests, RevokePhone(r) PROVE Goal
  BY <1>11 DEF RevokePhone, Goal
<1>12. ASSUME NEW r \in Requests, RevokeForgets(r) PROVE Goal
  BY <1>12 DEF RevokeForgets, Goal
<1>13. ASSUME NEW r \in Requests, RemoveCommits(r) PROVE Goal
  BY <1>13 DEF RemoveCommits, Goal
<1>14. ASSUME NEW r \in Requests, RegisterWrites(r) PROVE Goal
  BY <1>14 DEF RegisterWrites, Goal
<1>15. ASSUME NEW r \in Requests, VerifyDoor(r) PROVE Goal
  BY <1>15 DEF VerifyDoor, Goal
<1>16. ASSUME NEW r \in Requests, VerifyRules(r) PROVE Goal
  BY <1>16 DEF VerifyRules, Goal
<1>17. ASSUME NEW r \in Requests, VerifyEnds(r) PROVE Goal
  BY <1>17 DEF VerifyEnds, Goal
<1>18. ASSUME NEW e \in Employees, AppsChange(e) PROVE Goal
  BY <1>18 DEF AppsChange, Goal
<1>19. ASSUME NEW e \in Employees, TimePasses(e) PROVE Goal
  BY <1>19 DEF TimePasses, Goal
<1>20. ASSUME NEW e \in Employees, WindowEnds(e) PROVE Goal
  BY <1>20 DEF Goal
<1>21. ASSUME NEW p \in Phones, Unregister(p) PROVE Goal
  BY <1>21 DEF Unregister, Goal
<1>22. ASSUME DoorChanges PROVE Goal
  BY <1>22 DEF DoorChanges, Goal
<1>23. ASSUME SettingChanges PROVE Goal
  BY <1>23 DEF SettingChanges, Goal
<1>24. Goal
  BY <1>1, <1>2, <1>3, <1>4, <1>5, <1>6, <1>7, <1>8, <1>9, <1>10, <1>11, <1>12, <1>13, <1>14,
     <1>15, <1>16, <1>17, <1>18, <1>19, <1>20, <1>21, <1>22, <1>23
     DEF Step, RequestStep, Begins
<1> QED BY <1>24 DEF Goal

\* A request for a code is still at its read, or has just read.
LEMMA Asking ==
  ASSUME TypeOK, Step, NEW s \in Requests, request'[s].op = "ask"
  PROVE  \/ /\ request[s].op = "ask" /\ request'[s].row = request[s].row
            /\ request'[s].seen = request[s].seen /\ (request[s].over => request'[s].over)
         \/ UNCHANGED Tables /\ request'[s].row \in Here /\ request'[s].seen = login[request'[s].row]
<1> DEFINE Goal ==
         \/ /\ request[s].op = "ask" /\ request'[s].row = request[s].row
            /\ request'[s].seen = request[s].seen /\ (request[s].over => request'[s].over)
         \/ UNCHANGED Tables /\ request'[s].row \in Here /\ request'[s].seen = login[request'[s].row]
<1>1. request[s] \in Request
  BY DEF TypeOK
<1>2. ASSUME request'[s] = request[s] \/ request'[s] = [request[s] EXCEPT !.over = TRUE] PROVE Goal
  BY <1>1, <1>2 DEF Request
<1>3. ASSUME Advances(s) PROVE Goal
  <2> DEFINE q == request[s] new == request'[s]
  <2>1. new # Idle
    BY DEF Idle
  <2>2. \A e : new # [Idle EXCEPT !.op = "revoke", !.pc = "forget", !.row = e]
    BY DEF Idle
  <2>3. /\ q.op # "ask" => \A e : new # [q EXCEPT !.pc = "write", !.row = e]
        /\ q.op # "ask" => new # [q EXCEPT !.pc = "read", !.row = None]
        /\ q.op # "ask" => \A pc : new # [q EXCEPT !.pc = pc]
    BY <1>1, ZenonT(40) DEF Request
  <2>4. Begun(new) /\ UNCHANGED Tables
    BY <1>3, <2>1, <2>2, <2>3 DEF Advances
  <2> QED BY <2>4 DEF Begun
<1> HIDE DEF Goal
<1>4. CASE \E r \in Requests : RequestStep(r)
  <2>1. PICK r \in Requests : RequestStep(r)
    BY <1>4
  <2>2. Others(r) /\ Advances(r)
    BY <2>1, Progress
  <2>3. Goal
    BY <2>2, <1>2, <1>3 DEF Others
  <2> QED BY <2>3 DEF Goal
<1>5. CASE request' = request
  <2>1. Goal
    BY <1>5, <1>2
  <2> QED BY <2>1 DEF Goal
<1> QED BY <1>4, <1>5 DEF Step, AppsChange, TimePasses, WindowEnds, Unregister, DoorChanges, SettingChanges

\* What a step does to the code of employee e and to the counts of it.
LEMMA AttemptsOf ==
  ASSUME TypeOK, Carried, Step, NEW e \in Employees
  PROVE  \/ login'[e] = login[e] /\ guesses'[e] = guesses[e] /\ overlaps'[e] \in {overlaps[e], overlaps[e] + 1}
         \/ guesses'[e] = 0 /\ overlaps'[e] = 0
         \/ \E r \in Requests :
              /\ request[r].op = "ask" /\ request[r].row = e
              /\ login'[e].open /\ login'[e].attempts = Attempts(request[r].seen)
              /\ guesses'[e] = guesses[e]
              /\ overlaps'[e] = IF request[r].over THEN overlaps[e] + 1 ELSE overlaps[e]
         \/ /\ login'[e].open = login[e].open /\ login'[e].attempts = login[e].attempts + 1
            /\ guesses'[e] = IF login[e].open THEN guesses[e] + 1 ELSE guesses[e]
            /\ overlaps'[e] = overlaps[e]
            /\ \A s \in Requests : request'[s].op = "ask" /\ request'[s].row = e => request'[s].over
<1> DEFINE Goal ==
         \/ login'[e] = login[e] /\ guesses'[e] = guesses[e] /\ overlaps'[e] \in {overlaps[e], overlaps[e] + 1}
         \/ guesses'[e] = 0 /\ overlaps'[e] = 0
         \/ \E r \in Requests :
              /\ request[r].op = "ask" /\ request[r].row = e
              /\ login'[e].open /\ login'[e].attempts = Attempts(request[r].seen)
              /\ guesses'[e] = guesses[e]
              /\ overlaps'[e] = IF request[r].over THEN overlaps[e] + 1 ELSE overlaps[e]
         \/ /\ login'[e].open = login[e].open /\ login'[e].attempts = login[e].attempts + 1
            /\ guesses'[e] = IF login[e].open THEN guesses[e] + 1 ELSE guesses[e]
            /\ overlaps'[e] = overlaps[e]
            /\ \A s \in Requests : request'[s].op = "ask" /\ request'[s].row = e => request'[s].over
<1>a. /\ login \in [Employees -> Login] /\ guesses \in [Employees -> Nat] /\ overlaps \in [Employees -> Nat]
      /\ request \in [Requests -> Request]
  BY DEF TypeOK
<1>b. \A f \in Employees : login[f] \in Login /\ guesses[f] \in Nat /\ overlaps[f] \in Nat
  BY <1>a
<1>1. CASE UNCHANGED <<login, guesses, overlaps>>
  BY <1>1
<1>2. ASSUME NEW r \in Requests, DeleteCommits(r) PROVE Goal
  BY <1>a, <1>2 DEF DeleteCommits
<1>3. ASSUME NEW r \in Requests, IssueStores(r) PROVE Goal
  BY <1>a, <1>3 DEF IssueStores
<1>4. ASSUME NEW f \in Employees, WindowEnds(f) PROVE Goal
  BY <1>a, <1>4 DEF WindowEnds
<1>5. ASSUME NEW r \in Requests, AskWrites(r) PROVE Goal
  <2> DEFINE q == request[r]
  <2>1. q.op = "ask" /\ q.row \in Employees /\ guesses' = guesses
    BY <1>5 DEF AskWrites, At, Carried
  <2>2. overlaps'[e] = IF q.over /\ q.row = e THEN overlaps[e] + 1 ELSE overlaps[e]
    BY <1>a, <1>5, <2>1 DEF AskWrites
  <2>3. CASE q.row # e \/ q.row \notin Here
    <3>1. login'[e] = login[e]
      BY <1>a, <1>5, <2>1, <2>3 DEF AskWrites
    <3> QED BY <2>1, <2>2, <3>1
  <2>4. CASE q.row = e /\ q.row \in Here
    <3>1. login'[e] = CodeSet(q.seen, codes + 1)
      BY <1>a, <1>5, <2>1, <2>4 DEF AskWrites
    <3>2. login'[e].open /\ login'[e].attempts = Attempts(q.seen)
      BY <3>1 DEF CodeSet, Attempts
    <3> QED BY <2>1, <2>2, <2>4, <3>2
  <2> QED BY <2>3, <2>4
<1>6. ASSUME NEW r \in Requests, ActivateTakes(r) PROVE Goal
  <2> DEFINE q == request[r]
  <2>1. q.op = "activate" /\ q.row \in Employees /\ overlaps' = overlaps
    BY <1>6 DEF ActivateTakes, At, Carried
  <2>2. CASE ~(q.row = e /\ q.row \in Here /\ TakesOne(q.row))
    <3>1. login'[e] = login[e] /\ guesses'[e] = guesses[e]
      BY <1>a, <1>6, <2>1, <2>2 DEF ActivateTakes
    <3> QED BY <2>1, <3>1
  <2>3. CASE q.row = e /\ q.row \in Here /\ TakesOne(q.row)
    <3>1. login' = [login EXCEPT ![e].attempts = @ + 1]
      BY <1>6, <2>3 DEF ActivateTakes
    <3>2. login'[e].open = login[e].open /\ login'[e].attempts = login[e].attempts + 1
      BY <1>a, <1>b, <3>1 DEF Login
    <3>3. guesses'[e] = IF login[e].open THEN guesses[e] + 1 ELSE guesses[e]
      BY <1>a, <1>6, <2>3 DEF ActivateTakes
    <3>4. ASSUME NEW s \in Requests, request'[s].op = "ask", request'[s].row = e PROVE request'[s].over
      <4> DEFINE new == IF q.guess = q.seen.code THEN [q EXCEPT !.pc = "forget"] ELSE Idle
      <4>1. Crosses(Of("ask", e), r, new)
        BY <1>6, <2>3 DEF ActivateTakes
      <4>2. new.op # "ask"
        BY <1>a, <2>1 DEF Request, Idle
      <4> HIDE DEF new
      <4>3. s # r
        BY <3>4, <4>1, <4>2 DEF Crosses
      <4>4. request'[s] = IF s \in Of("ask", e) THEN [request[s] EXCEPT !.over = TRUE] ELSE request[s]
        BY <4>1, <4>3 DEF Crosses
      <4>5. s \in Of("ask", e)
        BY <3>4, <4>4 DEF Of
      <4> QED BY <1>a, <4>4, <4>5 DEF Request
    <3> QED BY <2>1, <3>2, <3>3, <3>4
  <2> QED BY <2>2, <2>3
<1> HIDE DEF Goal
<1>7. Goal
  BY <1>2, <1>3, <1>4, <1>5, <1>6, <1>1, LoginsStay DEF Goal
<1> QED BY <1>7 DEF Goal

LEMMA StepCounted ==
  ASSUME TypeOK, TypeOK', Carried, Counted, Step
  PROVE  Counted'
<1>a. \A e \in Employees :
        /\ login[e].attempts \in 0..MaxAttempts /\ login'[e].attempts \in 0..MaxAttempts
        /\ login[e].open \in BOOLEAN /\ login'[e].open \in BOOLEAN
        /\ guesses[e] \in Nat /\ overlaps[e] \in Nat /\ guesses'[e] \in Nat /\ overlaps'[e] \in Nat
  BY DEF TypeOK, Login
<1>b. \A s \in Requests : request[s].seen \in Login /\ Attempts(request[s].seen) \in 0..MaxAttempts
  BY Bounds DEF TypeOK, Request, Login, Attempts
<1>c. \A e \in Employees : login[e].open \/ guesses[e] = 0
  BY DEF Counted
<1>1. ASSUME NEW e \in Employees PROVE login'[e].open \/ guesses'[e] = 0
  BY <1>a, <1>c, AttemptsOf
<1>2. ASSUME NEW e \in Employees PROVE guesses'[e] <= login'[e].attempts + MaxAttempts * overlaps'[e]
  <2>1. guesses[e] <= login[e].attempts + MaxAttempts * overlaps[e]
    BY DEF Counted
  <2>2. PICK o \in Nat, o1 \in Nat, o2 \in Nat :
          o = MaxAttempts * overlaps[e] /\ o1 = MaxAttempts * (overlaps[e] + 1) /\ o2 = MaxAttempts * overlaps'[e]
    BY <1>a, Bounds
  <2>3. o1 = o + MaxAttempts /\ (overlaps'[e] = 0 => o2 = 0)
    BY <1>a, <2>2, Products, Bounds
  <2>4. CASE login'[e] = login[e] /\ guesses'[e] = guesses[e] /\ overlaps'[e] \in {overlaps[e], overlaps[e] + 1}
    <3>1. o2 = o \/ o2 = o1
      BY <2>2, <2>4
    <3> QED BY <1>a, <2>1, <2>2, <2>3, <2>4, <3>1, Bounds
  <2>5. CASE guesses'[e] = 0 /\ overlaps'[e] = 0
    BY <1>a, <2>2, <2>5, Bounds
  <2>6. ASSUME NEW r \in Requests, request[r].op = "ask", request[r].row = e,
               login'[e].attempts = Attempts(request[r].seen), guesses'[e] = guesses[e],
               overlaps'[e] = IF request[r].over THEN overlaps[e] + 1 ELSE overlaps[e]
        PROVE  guesses'[e] <= login'[e].attempts + MaxAttempts * overlaps'[e]
    <3>1. CASE request[r].over
      <4>1. o2 = o + MaxAttempts
        BY <2>2, <2>3, <2>6, <3>1
      <4> QED BY <1>a, <2>1, <2>2, <2>6, <4>1, Bounds
    <3>2. CASE ~request[r].over
      <4>1. o2 = o
        BY <2>2, <2>6, <3>2
      <4>2. guesses[e] <= Attempts(request[r].seen) + MaxAttempts * overlaps[e]
        BY <2>6, <3>2 DEF Counted
      <4> QED BY <1>a, <1>b, <2>2, <2>6, <4>1, <4>2
    <3> QED BY <3>1, <3>2
  <2>7. CASE /\ login'[e].attempts = login[e].attempts + 1 /\ overlaps'[e] = overlaps[e]
             /\ guesses'[e] = IF login[e].open THEN guesses[e] + 1 ELSE guesses[e]
    <3>1. o2 = o
      BY <2>2, <2>7
    <3> QED BY <1>a, <2>1, <2>2, <2>7, <3>1
  <2> QED BY <2>4, <2>5, <2>6, <2>7, AttemptsOf
<1>3. ASSUME NEW s \in Requests, request'[s].op = "ask", ~request'[s].over
      PROVE  guesses'[request'[s].row] <= Attempts(request'[s].seen) + MaxAttempts * overlaps'[request'[s].row]
  <2> DEFINE e == request'[s].row
  <2>1. CASE UNCHANGED Tables /\ e \in Here /\ request'[s].seen = login[e]
    <3>1. guesses[e] <= login[e].attempts + MaxAttempts * overlaps[e] /\ (login[e].open \/ guesses[e] = 0)
      BY <2>1 DEF Counted, Here
    <3>2. Attempts(request'[s].seen) = IF login[e].open THEN login[e].attempts ELSE 0
      BY <2>1 DEF Attempts
    <3>3. guesses'[e] = guesses[e] /\ overlaps'[e] = overlaps[e] /\ e \in Employees
      BY <2>1 DEF Tables, Here
    <3>4. PICK o \in Nat : o = MaxAttempts * overlaps[e]
      BY <1>a, <3>3, Bounds
    <3>5. guesses[e] <= Attempts(request'[s].seen) + o
      BY <1>a, <3>1, <3>2, <3>3, <3>4
    <3> QED BY <3>3, <3>4, <3>5
  <2>2. CASE /\ request[s].op = "ask" /\ request'[s].row = request[s].row
             /\ request'[s].seen = request[s].seen /\ (request[s].over => request'[s].over)
    <3>1. e \in Employees /\ guesses[e] <= Attempts(request'[s].seen) + MaxAttempts * overlaps[e]
      BY <1>3, <2>2 DEF Counted, Carried
    <3>2. Attempts(request'[s].seen) \in Nat
      BY <1>b, <2>2, Bounds
    <3>3. PICK o \in Nat, o1 \in Nat, o2 \in Nat :
            o = MaxAttempts * overlaps[e] /\ o1 = MaxAttempts * (overlaps[e] + 1) /\ o2 = MaxAttempts * overlaps'[e]
      BY <1>a, <3>1, Bounds
    <3>4. o1 = o + MaxAttempts
      BY <1>a, <3>1, <3>3, Products, Bounds
    <3>5. ASSUME guesses'[e] = guesses[e], overlaps'[e] = overlaps[e] \/ overlaps'[e] = overlaps[e] + 1
          PROVE  guesses'[e] <= Attempts(request'[s].seen) + o2
      <4>1. o2 = o \/ o2 = o1
        BY <3>3, <3>5
      <4> QED BY <1>a, <3>1, <3>2, <3>3, <3>4, <3>5, <4>1, Bounds
    <3>6. ASSUME guesses'[e] = 0 PROVE guesses'[e] <= Attempts(request'[s].seen) + o2
      BY <3>2, <3>3, <3>6
    <3>7. \/ guesses'[e] = 0
          \/ guesses'[e] = guesses[e] /\ (overlaps'[e] = overlaps[e] \/ overlaps'[e] = overlaps[e] + 1)
      BY <1>3, <3>1, AttemptsOf
    <3> QED BY <3>3, <3>5, <3>6, <3>7
  <2> QED BY <1>3, <2>1, <2>2, Asking
<1> QED BY <1>1, <1>2, <1>3 DEF Counted, Attempts

-----------------------------------------------------------------------------
(* Badges and notices *)

SameSecret(e) == person'[e].secret = person[e].secret

LEMMA SecretsStay ==
  ASSUME TypeOK, Carried, OneRowEach, Step, NEW e \in Employees
  PROVE  \/ SameSecret(e)
         \/ \E r \in Requests :
              \/ DeleteCommits(r) /\ request[r].row = e
              \/ IssueStores(r) /\ request[r].row = e
              \/ RevokePhone(r) /\ At(r, "revoke", "forget")' /\ request'[r].row = e
              \/ RemoveCommits(r) /\ request[r].row = e /\ selfRemove
<1> DEFINE Goal ==
         \/ SameSecret(e)
         \/ \E r \in Requests :
              \/ DeleteCommits(r) /\ request[r].row = e
              \/ IssueStores(r) /\ request[r].row = e
              \/ RevokePhone(r) /\ At(r, "revoke", "forget")' /\ request'[r].row = e
              \/ RemoveCommits(r) /\ request[r].row = e /\ selfRemove
<1>a. person \in [Employees -> Person] /\ request \in [Requests -> Request]
  BY DEF TypeOK
<1>b. ASSUME person' = person PROVE Goal
  BY <1>b DEF SameSecret
<1>c. ASSUME SameSecret(e) PROVE Goal
  BY <1>c
<1>d. ASSUME NEW r \in Requests, DeleteCommits(r) PROVE Goal
  BY <1>a, <1>d DEF DeleteCommits, SameSecret
<1>e. ASSUME NEW r \in Requests, IssueStores(r) PROVE Goal
  <2>1. request[r].row # e => SameSecret(e)
    BY <1>a, <1>e DEF IssueStores, SameSecret, Here
  <2> QED BY <1>e, <2>1
<1>f. ASSUME NEW r \in Requests, RevokePhone(r) PROVE Goal
  <2>1. PICK f \in Here : /\ Revoked(f)
          /\ Crosses(Of("register", f), r, [Idle EXCEPT !.op = "revoke", !.pc = "forget", !.row = f])
    BY <1>f DEF RevokePhone
  <2>2. f # e => SameSecret(e)
    BY <1>a, <2>1 DEF Revoked, SameSecret, Here
  <2>3. request'[r] = [Idle EXCEPT !.op = "revoke", !.pc = "forget", !.row = f]
    BY <2>1 DEF Crosses
  <2>4. At(r, "revoke", "forget")' /\ request'[r].row = f
    BY <2>3 DEF At, Idle
  <2> QED BY <1>f, <2>2, <2>4
<1>g. ASSUME NEW r \in Requests, RemoveCommits(r) PROVE Goal
  <2>1. ~(request[r].row = e /\ selfRemove) => SameSecret(e)
    BY <1>a, <1>g DEF RemoveCommits, Revoked, SameSecret, Here
  <2> QED BY <1>g, <2>1
<1>h. ASSUME NEW r \in Requests, PutWrites(r) PROVE Goal
  <2>1. SameSecret(e)
    BY <1>h, PutDoes DEF SameSecret
  <2> QED BY <2>1
<1> HIDE DEF Goal
<1>1. ASSUME NEW r \in Requests, Begins(r) PROVE Goal
  BY <1>b, <1>1, Beginnings DEF Tables
<1>2. ASSUME NEW r \in Requests, PutReads(r) PROVE Goal
  BY <1>b, <1>2 DEF PutReads
<1>3. ASSUME NEW r \in Requests, PutWrites(r) PROVE Goal
  BY <1>h, <1>3
<1>4. ASSUME NEW r \in Requests, PutRetries(r) PROVE Goal
  BY <1>b, <1>4 DEF PutRetries
<1>5. ASSUME NEW r \in Requests, DeleteCommits(r) PROVE Goal
  BY <1>d, <1>5
<1>6. ASSUME NEW r \in Requests, ProjectDeletes(r) PROVE Goal
  BY <1>b, <1>6 DEF ProjectDeletes
<1>7. ASSUME NEW r \in Requests, AskWrites(r) PROVE Goal
  BY <1>b, <1>7 DEF AskWrites
<1>8. ASSUME NEW r \in Requests, ActivateTakes(r) PROVE Goal
  BY <1>b, <1>8 DEF ActivateTakes
<1>9. ASSUME NEW r \in Requests, IssueForgets(r) PROVE Goal
  BY <1>b, <1>9 DEF IssueForgets
<1>10. ASSUME NEW r \in Requests, IssueStores(r) PROVE Goal
  BY <1>e, <1>10
<1>11. ASSUME NEW r \in Requests, RevokePhone(r) PROVE Goal
  BY <1>f, <1>11
<1>12. ASSUME NEW r \in Requests, RevokeForgets(r) PROVE Goal
  BY <1>b, <1>12 DEF RevokeForgets
<1>13. ASSUME NEW r \in Requests, RemoveCommits(r) PROVE Goal
  BY <1>g, <1>13
<1>14. ASSUME NEW r \in Requests, RegisterWrites(r) PROVE Goal
  BY <1>b, <1>14 DEF RegisterWrites
<1>15. ASSUME NEW r \in Requests, VerifyDoor(r) PROVE Goal
  BY <1>b, <1>15 DEF VerifyDoor
<1>16. ASSUME NEW r \in Requests, VerifyRules(r) PROVE Goal
  BY <1>b, <1>16 DEF VerifyRules
<1>17. ASSUME NEW r \in Requests, VerifyEnds(r) PROVE Goal
  BY <1>b, <1>17 DEF VerifyEnds
<1>18. ASSUME NEW f \in Employees, AppsChange(f) PROVE Goal
  BY <1>a, <1>c, <1>18 DEF AppsChange, SameSecret, Person
<1>19. ASSUME NEW f \in Employees, TimePasses(f) PROVE Goal
  BY <1>a, <1>c, <1>19 DEF TimePasses, SameSecret, Person
<1>20. ASSUME NEW f \in Employees, WindowEnds(f) PROVE Goal
  BY <1>b, <1>20 DEF WindowEnds
<1>21. ASSUME NEW p \in Phones, Unregister(p) PROVE Goal
  BY <1>b, <1>21 DEF Unregister
<1>22. ASSUME DoorChanges PROVE Goal
  BY <1>b, <1>22 DEF DoorChanges
<1>23. ASSUME SettingChanges PROVE Goal
  BY <1>b, <1>23 DEF SettingChanges
<1>24. Goal
  BY <1>1, <1>2, <1>3, <1>4, <1>5, <1>6, <1>7, <1>8, <1>9, <1>10, <1>11, <1>12, <1>13, <1>14,
     <1>15, <1>16, <1>17, <1>18, <1>19, <1>20, <1>21, <1>22, <1>23
     DEF Step, RequestStep, Begins
<1> QED BY <1>24 DEF Goal

\* What registers for notices: the phone of a registration.  All else takes away.
LEMMA DevicesOf ==
  ASSUME TypeOK, Carried, Step, NEW e \in Employees
  PROVE  \/ devices'[e] \subseteq devices[e]
         \/ \E r \in Requests : /\ RegisterWrites(r) /\ request[r].row = e
                                /\ devices'[e] \subseteq devices[e] \cup {<<request[r].phone, request[r].owns>>}
<1> DEFINE Goal ==
         \/ devices'[e] \subseteq devices[e]
         \/ \E r \in Requests : /\ RegisterWrites(r) /\ request[r].row = e
                                /\ devices'[e] \subseteq devices[e] \cup {<<request[r].phone, request[r].owns>>}
<1>a. devices \in [Employees -> SUBSET (Phones \X (0..(MaxBadges + 1)))]
  BY DEF TypeOK
<1>b. ASSUME devices' = devices PROVE Goal
  BY <1>b
<1>c. ASSUME NEW f, devices' = [devices EXCEPT ![f] = {}] PROVE Goal
  BY <1>a, <1>c
<1>d. ASSUME NEW r \in Requests, RegisterWrites(r) PROVE Goal
  <2> DEFINE q == request[r]
  <2>1. devices'[e] = {d \in devices[e] : d[1] # q.phone} \cup {d \in {<<q.phone, q.owns>>} : e = q.row}
    BY <1>d DEF RegisterWrites
  <2>2. CASE q.row = e
    <3>1. devices'[e] \subseteq devices[e] \cup {<<q.phone, q.owns>>}
      BY <2>1
    <3> QED BY <1>d, <2>2, <3>1
  <2>3. CASE q.row # e
    BY <2>1, <2>3
  <2> QED BY <2>2, <2>3
<1>e. ASSUME NEW p \in Phones, Unregister(p) PROVE Goal
  BY <1>a, <1>e DEF Unregister
<1> HIDE DEF Goal
<1>1. ASSUME NEW r \in Requests, Begins(r) PROVE Goal
  BY <1>b, <1>1, Beginnings DEF Tables
<1>2. ASSUME NEW r \in Requests, PutReads(r) PROVE Goal
  BY <1>b, <1>2 DEF PutReads
<1>3. ASSUME NEW r \in Requests, PutWrites(r) PROVE Goal
  BY <1>b, <1>3 DEF PutWrites
<1>4. ASSUME NEW r \in Requests, PutRetries(r) PROVE Goal
  BY <1>b, <1>4 DEF PutRetries
<1>5. ASSUME NEW r \in Requests, DeleteCommits(r) PROVE Goal
  BY <1>c, <1>5 DEF DeleteCommits
<1>6. ASSUME NEW r \in Requests, ProjectDeletes(r) PROVE Goal
  BY <1>b, <1>6 DEF ProjectDeletes
<1>7. ASSUME NEW r \in Requests, AskWrites(r) PROVE Goal
  BY <1>b, <1>7 DEF AskWrites
<1>8. ASSUME NEW r \in Requests, ActivateTakes(r) PROVE Goal
  BY <1>b, <1>8 DEF ActivateTakes
<1>9. ASSUME NEW r \in Requests, IssueForgets(r) PROVE Goal
  BY <1>c, <1>9 DEF IssueForgets
<1>10. ASSUME NEW r \in Requests, IssueStores(r) PROVE Goal
  BY <1>b, <1>10 DEF IssueStores
<1>11. ASSUME NEW r \in Requests, RevokePhone(r) PROVE Goal
  BY <1>b, <1>11 DEF RevokePhone
<1>12. ASSUME NEW r \in Requests, RevokeForgets(r) PROVE Goal
  BY <1>c, <1>12 DEF RevokeForgets
<1>13. ASSUME NEW r \in Requests, RemoveCommits(r) PROVE Goal
  BY <1>b, <1>c, <1>13 DEF RemoveCommits
<1>14. ASSUME NEW r \in Requests, RegisterWrites(r) PROVE Goal
  BY <1>d, <1>14
<1>15. ASSUME NEW r \in Requests, VerifyDoor(r) PROVE Goal
  BY <1>b, <1>15 DEF VerifyDoor
<1>16. ASSUME NEW r \in Requests, VerifyRules(r) PROVE Goal
  BY <1>b, <1>16 DEF VerifyRules
<1>17. ASSUME NEW r \in Requests, VerifyEnds(r) PROVE Goal
  BY <1>b, <1>17 DEF VerifyEnds
<1>18. ASSUME NEW f \in Employees, AppsChange(f) PROVE Goal
  BY <1>b, <1>18 DEF AppsChange
<1>19. ASSUME NEW f \in Employees, TimePasses(f) PROVE Goal
  BY <1>b, <1>19 DEF TimePasses
<1>20. ASSUME NEW f \in Employees, WindowEnds(f) PROVE Goal
  BY <1>b, <1>20 DEF WindowEnds
<1>21. ASSUME NEW p \in Phones, Unregister(p) PROVE Goal
  BY <1>e, <1>21
<1>22. ASSUME DoorChanges PROVE Goal
  BY <1>b, <1>22 DEF DoorChanges
<1>23. ASSUME SettingChanges PROVE Goal
  BY <1>b, <1>23 DEF SettingChanges
<1>24. Goal
  BY <1>1, <1>2, <1>3, <1>4, <1>5, <1>6, <1>7, <1>8, <1>9, <1>10, <1>11, <1>12, <1>13, <1>14,
     <1>15, <1>16, <1>17, <1>18, <1>19, <1>20, <1>21, <1>22, <1>23
     DEF Step, RequestStep, Begins
<1> QED BY <1>24 DEF Goal

\* A revocation that has voided the badge is on its way to the notices.
LEMMA RevokersStay ==
  ASSUME TypeOK, Step, NEW s \in Requests, At(s, "revoke", "forget")
  PROVE  \/ RevokeForgets(s)
         \/ At(s, "revoke", "forget")' /\ request'[s].row = request[s].row
<1> DEFINE Goal ==
         \/ RevokeForgets(s)
         \/ At(s, "revoke", "forget")' /\ request'[s].row = request[s].row
<1>1. request[s] \in Request
  BY DEF TypeOK
<1>2. ASSUME request'[s] = request[s] \/ request'[s] = [request[s] EXCEPT !.over = TRUE] PROVE Goal
  BY <1>1, <1>2 DEF Request, At
<1>3. ASSUME RequestStep(s) PROVE RevokeForgets(s)
  <2>1. ~Begins(s)
    BY Beginnings DEF At
  <2> QED BY <1>3, <2>1 DEF At, RequestStep, Begins, PutReads, PutWrites, PutRetries, DeleteCommits,
        ProjectDeletes, AskWrites, ActivateTakes, IssueForgets, IssueStores, RevokePhone, RemoveCommits,
        RegisterWrites, VerifyDoor, VerifyRules, VerifyEnds
<1> HIDE DEF Goal
<1>4. ASSUME NEW r \in Requests, RequestStep(r) PROVE Goal
  <2>1. CASE s = r
    BY <1>3, <1>4, <2>1 DEF Goal
  <2>2. CASE s # r
    BY <1>2, <1>4, <2>2, Progress DEF Others
  <2> QED BY <2>1, <2>2
<1>5. CASE request' = request
  <2>1. Goal
    BY <1>5, <1>2
  <2> QED BY <2>1 DEF Goal
<1>6. CASE \E r \in Requests : RequestStep(r)
  BY <1>4, <1>6 DEF Goal
<1> QED BY <1>5, <1>6 DEF Step, AppsChange, TimePasses, WindowEnds, Unregister, DoorChanges, SettingChanges

LEMMA Registering ==
  ASSUME TypeOK, Step, NEW s \in Requests, request'[s].op = "register"
  PROVE  \/ /\ request[s].op = "register" /\ request'[s].row = request[s].row
            /\ request'[s].owns = request[s].owns /\ (request[s].over => request'[s].over)
         \/ UNCHANGED Tables /\ person[request'[s].row].secret = request'[s].owns
<1> DEFINE Goal ==
         \/ /\ request[s].op = "register" /\ request'[s].row = request[s].row
            /\ request'[s].owns = request[s].owns /\ (request[s].over => request'[s].over)
         \/ UNCHANGED Tables /\ person[request'[s].row].secret = request'[s].owns
<1>1. request[s] \in Request
  BY DEF TypeOK
<1>2. ASSUME request'[s] = request[s] \/ request'[s] = [request[s] EXCEPT !.over = TRUE] PROVE Goal
  BY <1>1, <1>2 DEF Request
<1>3. ASSUME Advances(s) PROVE Goal
  <2> DEFINE q == request[s] new == request'[s]
  <2>1. new # Idle
    BY DEF Idle
  <2>2. \A e : new # [Idle EXCEPT !.op = "revoke", !.pc = "forget", !.row = e]
    BY DEF Idle
  <2>3. /\ q.op # "register" => \A e : new # [q EXCEPT !.pc = "write", !.row = e]
        /\ q.op # "register" => new # [q EXCEPT !.pc = "read", !.row = None]
        /\ q.op # "register" => \A pc : new # [q EXCEPT !.pc = pc]
    BY <1>1, ZenonT(40) DEF Request
  <2>4. Begun(new) /\ UNCHANGED Tables
    BY <1>3, <2>1, <2>2, <2>3 DEF Advances
  <2> QED BY <2>4 DEF Begun
<1> HIDE DEF Goal
<1>4. CASE \E r \in Requests : RequestStep(r)
  <2>1. PICK r \in Requests : RequestStep(r)
    BY <1>4
  <2>2. Others(r) /\ Advances(r)
    BY <2>1, Progress
  <2>3. Goal
    BY <2>2, <1>2, <1>3 DEF Others
  <2> QED BY <2>3 DEF Goal
<1>5. CASE request' = request
  <2>1. Goal
    BY <1>5, <1>2
  <2> QED BY <2>1 DEF Goal
<1> QED BY <1>4, <1>5 DEF Step, AppsChange, TimePasses, WindowEnds, Unregister, DoorChanges, SettingChanges

\* An activation that is to store the secret has deleted the notices.
LEMMA Storing ==
  ASSUME TypeOK, Carried, Step, NEW s \in Requests, request'[s].op = "activate", request'[s].pc = "store"
  PROVE  /\ request[s].op = "activate" /\ request'[s].row = request[s].row
         /\ \/ request[s].pc = "store" /\ (request[s].over => request'[s].over)
            \/ devices'[request[s].row] = {}
<1> DEFINE Goal ==
         /\ request[s].op = "activate" /\ request'[s].row = request[s].row
         /\ \/ request[s].pc = "store" /\ (request[s].over => request'[s].over)
            \/ devices'[request[s].row] = {}
<1>1. request[s] \in Request /\ devices \in [Employees -> SUBSET (Phones \X (0..(MaxBadges + 1)))]
  BY DEF TypeOK
<1>2. ASSUME request'[s] = request[s] \/ request'[s] = [request[s] EXCEPT !.over = TRUE] PROVE Goal
  BY <1>1, <1>2 DEF Request
<1>3. ASSUME Advances(s) PROVE Goal
  <2> DEFINE q == request[s] new == request'[s]
  <2>1. new # Idle
    BY DEF Idle
  <2>2. \A e : new # [Idle EXCEPT !.op = "revoke", !.pc = "forget", !.row = e]
    BY DEF Idle
  <2>3. /\ q.op # "activate" => \A e : new # [q EXCEPT !.pc = "write", !.row = e]
        /\ q.op # "activate" => new # [q EXCEPT !.pc = "read", !.row = None]
        /\ q.op # "activate" => \A pc : new # [q EXCEPT !.pc = pc]
    BY <1>1 DEF Request
  <2>4. ~Begun(new)
    BY DEF Begun
  <2>5. new # [q EXCEPT !.pc = "forget"]
    BY <1>1, SMTT(30) DEF Request
  <2>6. /\ q.op = "activate" /\ new = [q EXCEPT !.pc = "store"]
        /\ devices' = [devices EXCEPT ![q.row] = {}]
    BY <1>3, <2>1, <2>2, <2>3, <2>4, <2>5 DEF Advances
  <2>7. q.row \in Employees
    BY <2>6 DEF Carried
  <2> QED BY <1>1, <2>6, <2>7 DEF Request
<1> HIDE DEF Goal
<1>4. CASE \E r \in Requests : RequestStep(r)
  <2>1. PICK r \in Requests : RequestStep(r)
    BY <1>4
  <2>2. Others(r) /\ Advances(r)
    BY <2>1, Progress
  <2>3. Goal
    BY <2>2, <1>2, <1>3 DEF Others
  <2> QED BY <2>3 DEF Goal
<1>5. CASE request' = request
  <2>1. Goal
    BY <1>5, <1>2
  <2> QED BY <2>1 DEF Goal
<1> QED BY <1>4, <1>5 DEF Step, AppsChange, TimePasses, WindowEnds, Unregister, DoorChanges, SettingChanges

LEMMA StepUncrossed ==
  ASSUME TypeOK, Carried, OneRowEach, Uncrossed, Step
  PROVE  Uncrossed'
<1>a. request \in [Requests -> Request]
  BY DEF TypeOK
<1>b. \A s \in Requests : [request[s] EXCEPT !.over = TRUE].over
  BY <1>a DEF Request
<1>1. ASSUME NEW s \in Requests, request'[s].op = "register"
      PROVE  request'[s].over \/ person'[request'[s].row].secret = request'[s].owns
  <2>1. CASE UNCHANGED Tables /\ person[request'[s].row].secret = request'[s].owns
    BY <2>1 DEF Tables
  <2>2. CASE /\ request[s].op = "register" /\ request'[s].row = request[s].row
             /\ request'[s].owns = request[s].owns /\ (request[s].over => request'[s].over)
    <3> DEFINE e == request[s].row
    <3>1. e \in Employees /\ (request[s].over \/ person[e].secret = request[s].owns)
      BY <2>2 DEF Carried, Uncrossed
    <3>2. CASE SameSecret(e)
      BY <2>2, <3>1, <3>2 DEF SameSecret
    <3>3. ASSUME NEW r \in Requests, r # s, NEW new, Crosses(Of("register", e), r, new) PROVE request'[s].over
      <4>1. s \in Of("register", e)
        BY <2>2 DEF Of
      <4>2. request'[s] = [request[s] EXCEPT !.over = TRUE]
        BY <3>3, <4>1 DEF Crosses
      <4> QED BY <1>b, <4>2
    <3>4. ASSUME NEW r \in Requests,
                 \/ DeleteCommits(r) /\ request[r].row = e
                 \/ IssueStores(r) /\ request[r].row = e
                 \/ RemoveCommits(r) /\ request[r].row = e /\ selfRemove
          PROVE  request'[s].over
      <4>1. r # s /\ Crosses(Of("register", e), r, Idle)
        BY <2>2, <3>4 DEF DeleteCommits, IssueStores, RemoveCommits, At
      <4> QED BY <3>3, <4>1
    <3>5. ASSUME NEW r \in Requests, RevokePhone(r), request'[r].row = e PROVE request'[s].over
      <4>1. PICK f \in Here : /\ request[r].op = "idle"
              /\ Crosses(Of("register", f), r, [Idle EXCEPT !.op = "revoke", !.pc = "forget", !.row = f])
        BY <3>5 DEF RevokePhone
      <4>2. request'[r] = [Idle EXCEPT !.op = "revoke", !.pc = "forget", !.row = f]
        BY <4>1 DEF Crosses
      <4>3. f = e /\ r # s
        BY <2>2, <3>5, <4>1, <4>2 DEF Idle
      <4> QED BY <3>3, <4>1, <4>3
    <3> QED BY <3>1, <3>2, <3>4, <3>5, SecretsStay
  <2> QED BY <1>1, <2>1, <2>2, Registering
<1>2. ASSUME NEW s \in Requests, request'[s].op = "activate", request'[s].pc = "store"
      PROVE  request'[s].over \/ devices'[request'[s].row] = {}
  <2> DEFINE e == request[s].row
  <2>1. request[s].op = "activate" /\ request'[s].row = e /\ e \in Employees
    BY <1>2, Storing DEF Carried
  <2>2. CASE devices'[e] = {}
    BY <2>1, <2>2
  <2>3. CASE request[s].pc = "store" /\ (request[s].over => request'[s].over)
    <3>1. request[s].over \/ devices[e] = {}
      BY <2>1, <2>3 DEF Uncrossed, At
    <3>2. CASE devices'[e] \subseteq devices[e]
      BY <2>1, <2>3, <3>1, <3>2
    <3>3. ASSUME NEW r \in Requests, RegisterWrites(r), request[r].row = e PROVE request'[s].over
      <4>1. s # r /\ s \in Of("activate", e) /\ Crosses(Of("activate", e), r, Idle)
        BY <2>1, <3>3 DEF RegisterWrites, At, Of
      <4>2. request'[s] = [request[s] EXCEPT !.over = TRUE]
        BY <4>1 DEF Crosses
      <4> QED BY <1>b, <4>2
    <3> QED BY <2>1, <3>2, <3>3, DevicesOf
  <2> QED BY <1>2, <2>2, <2>3, Storing
<1> QED BY <1>1, <1>2 DEF Uncrossed, At

LEMMA StepNotices ==
  ASSUME TypeOK, Carried, OneRowEach, Uncrossed, NoticesFollowBadge, Step
  PROVE  NoticesFollowBadge'
<1>a. /\ devices \in [Employees -> SUBSET (Phones \X (0..(MaxBadges + 1)))]
      /\ person \in [Employees -> Person]
  BY DEF TypeOK
<1>b. raced \subseteq raced'
  BY RacedGrows
<1> SUFFICES ASSUME NEW e \in Employees, NEW d \in devices'[e]
             PROVE  \/ person'[e].secret = d[2] \/ d[1] \in raced'
                    \/ \E r \in Requests : At(r, "revoke", "forget")' /\ request'[r].row = e
  BY DEF NoticesFollowBadge
<1> DEFINE Goal == \/ person'[e].secret = d[2] \/ d[1] \in raced'
                   \/ \E r \in Requests : At(r, "revoke", "forget")' /\ request'[r].row = e
<1>1. ASSUME d \in devices[e] PROVE Goal
  <2>1. CASE d[1] \in raced
    BY <1>b, <2>1
  <2>2. ASSUME NEW s \in Requests, At(s, "revoke", "forget"), request[s].row = e PROVE Goal
    <3>1. CASE RevokeForgets(s)
      <4>1. devices'[e] = {}
        BY <1>a, <2>2, <3>1 DEF RevokeForgets
      <4> QED BY <4>1
    <3> QED BY <2>2, <3>1, RevokersStay
  <2>3. ASSUME person[e].secret = d[2] PROVE Goal
    <3>1. CASE SameSecret(e)
      BY <2>3, <3>1 DEF SameSecret
    <3>2. ASSUME NEW r \in Requests, DeleteCommits(r) \/ (RemoveCommits(r) /\ selfRemove), request[r].row = e PROVE Goal
      <4>1. devices'[e] = {}
        BY <1>a, <3>2 DEF DeleteCommits, RemoveCommits
      <4> QED BY <4>1
    <3>3. ASSUME NEW r \in Requests, IssueStores(r), request[r].row = e PROVE Goal
      <4>1. request[r].over
        BY <1>1, <3>3 DEF IssueStores, Uncrossed, At
      <4>2. d[1] \in raced'
        BY <1>1, <3>3, <4>1 DEF IssueStores
      <4> QED BY <4>2
    <3>4. ASSUME NEW r \in Requests, At(r, "revoke", "forget")', request'[r].row = e PROVE Goal
      BY <3>4
    <3> HIDE DEF Goal
    <3> QED BY <3>1, <3>2, <3>3, <3>4, SecretsStay
  <2> QED BY <1>1, <2>1, <2>2, <2>3 DEF NoticesFollowBadge
<1>2. ASSUME NEW r \in Requests, RegisterWrites(r), request[r].row = e, d = <<request[r].phone, request[r].owns>>
      PROVE  Goal
  <2>1. request[r].over \/ person[e].secret = request[r].owns
    BY <1>2 DEF RegisterWrites, At, Uncrossed
  <2>2. d[1] = request[r].phone /\ d[2] = request[r].owns
    BY <1>2
  <2>3. person' = person /\ (request[r].over => d[1] \in raced')
    BY <1>2, <2>2 DEF RegisterWrites
  <2> QED BY <2>1, <2>2, <2>3
<1> HIDE DEF Goal
<1>3. Goal
  BY <1>1, <1>2, DevicesOf
<1> QED BY <1>3 DEF Goal

-----------------------------------------------------------------------------
(* At the door *)

LEMMA StepVerified ==
  ASSUME TypeOK, Carried, Verified, Next
  PROVE  Verified'
<1>a. request \in [Requests -> Request] /\ held \in [Requests -> SUBSET Facts]
  BY DEF TypeOK
<1>b. \A s \in Requests : request'[s].op = "verify" =>
        /\ Holds(s)' \subseteq held'[s]
        /\ (request[s].op = "verify" => held[s] \subseteq held'[s])
  BY DEF Next, Remembers
<1> SUFFICES ASSUME NEW s \in Requests, request'[s].op = "verify" PROVE Seen(request'[s].pc) \subseteq held'[s]
  BY DEF Verified
<1> DEFINE q == request[s]  new == request'[s]  Goal == Seen(new.pc) \subseteq held'[s]
<1>1. ASSUME q.op = "verify", new.pc = q.pc PROVE Goal
  BY <1>1, <1>b DEF Verified
<1>2. ASSUME new.pc = "denied" PROVE Goal
  BY <1>2 DEF Seen
<1>3. ASSUME new = q \/ new = [q EXCEPT !.over = TRUE] PROVE Goal
  <2>1. q.op = "verify" /\ new.pc = q.pc
    BY <1>a, <1>3, SMTT(30) DEF Request
  <2> QED BY <1>1, <2>1
<1>4. ASSUME Advances(s) PROVE Goal
  <2>1. new # Idle
    BY DEF Idle
  <2>2. \A e : new # [Idle EXCEPT !.op = "revoke", !.pc = "forget", !.row = e]
    BY DEF Idle
  <2>3. /\ q.op = "put" => \A e : new # [q EXCEPT !.pc = "write", !.row = e]
        /\ q.op = "put" => new # [q EXCEPT !.pc = "read", !.row = None]
        /\ q.op = "activate" => \A pc : new # [q EXCEPT !.pc = pc]
    BY <1>a DEF Request
  <2>4. ASSUME Begun(new), UNCHANGED Tables PROVE Goal
    <3>1. CASE new.pc = "denied"
      BY <1>2, <3>1
    <3>2. CASE new.pc # "denied"
      <4>1. /\ new.pc = "door" /\ new.row \in Here /\ new.owns \in {person[new.row].secret, person[new.row].card}
            /\ person[new.row].active /\ ~person[new.row].accessOff /\ person[new.row].valid
        BY <2>4, <3>2 DEF Begun
      <4>2. person' = person /\ person[new.row].row = "here"
        BY <2>4, <4>1 DEF Tables, Here
      <4>3. {"row", "credential", "active", "app", "valid"} \subseteq Holds(s)'
        BY <4>1, <4>2 DEF Holds, Facts
      <4> QED BY <1>b, <4>1, <4>3 DEF Seen, Facts
    <3> QED BY <3>1, <3>2
  <2>5. ASSUME q.op = "verify", UNCHANGED Tables, open, q.pc = "door", new = [q EXCEPT !.pc = "rules"] PROVE Goal
    <3>1. new.pc = "rules"
      BY <1>a, <2>5 DEF Request
    <3>2. "door" \in Holds(s)'
      BY <2>5 DEF Tables, Holds, Facts
    <3>3. Facts \ {"door", "rule"} \subseteq held[s]
      BY <2>5 DEF Verified, Seen
    <3> QED BY <1>b, <2>5, <3>1, <3>2, <3>3 DEF Seen, Facts
  <2>6. ASSUME q.op = "verify", UNCHANGED Tables, person[q.row].rule = "inside", q.pc = "rules",
               new = [q EXCEPT !.pc = "granted"]
        PROVE  Goal
    <3>1. new.pc = "granted" /\ new.row = q.row
      BY <1>a, <2>6 DEF Request
    <3>2. "rule" \in Holds(s)'
      BY <2>6, <3>1 DEF Tables, Holds, Facts
    <3>3. Facts \ {"rule"} \subseteq held[s]
      BY <2>6 DEF Verified, Seen
    <3> QED BY <1>b, <2>6, <3>1, <3>2, <3>3 DEF Seen, Facts
  <2>7. ASSUME new = [q EXCEPT !.pc = "denied"] PROVE Goal
    <3>1. new.pc = "denied"
      BY <1>a, <2>7 DEF Request
    <3> QED BY <1>2, <3>1
  <2> HIDE DEF Goal
  <2> QED BY <1>4, <2>1, <2>2, <2>3, <2>4, <2>5, <2>6, <2>7 DEF Advances
<1> HIDE DEF Goal
<1>5. ASSUME NEW r \in Requests, RequestStep(r) PROVE Goal
  BY <1>3, <1>4, <1>5, Progress DEF Others
<1>6. ASSUME request' = request PROVE Goal
  BY <1>3, <1>6
<1>7. Goal
  BY <1>5, <1>6 DEF Next, Step, AppsChange, TimePasses, WindowEnds, Unregister, DoorChanges, SettingChanges
<1> QED BY <1>7 DEF Goal

-----------------------------------------------------------------------------
(* The theorems *)

LEMMA StartTypes == Init => TypeOK
<1> SUFFICES ASSUME Init PROVE TypeOK
  OBVIOUS
<1>1. PICK ext \in Injections(Staff, Externals), email \in Injections(Staff, Emails),
           holder \in Injections(Staff, Phones) :
        /\ person = [e \in Employees |->
             IF e \in Staff THEN [NewPerson EXCEPT !.row = "here", !.ext = ext[e], !.active = TRUE, !.valid = TRUE,
                                    !.email = email[e], !.rule = "inside", !.secret = 1]
             ELSE NewPerson]
        /\ phone = [p \in Phones |->
             IF \E e \in Staff : holder[e] = p THEN [of |-> CHOOSE e \in Staff : holder[e] = p, secret |-> 1]
             ELSE [of |-> None, secret |-> 0]]
  BY DEF Init
<1>2. Staff \subseteq Employees /\ Agendas \subseteq SUBSET Kinds
  BY BadgesAssumption
<1>3. 0 \in 0..(MaxBadges + 1) /\ 1 \in 0..(MaxBadges + 1)
  BY Bounds
<1>4. person \in [Employees -> Person]
  <2>1. \A e \in Staff : ext[e] \in Externals /\ email[e] \in Emails
    BY DEF Injections
  <2>2. \A e \in Staff :
          [NewPerson EXCEPT !.row = "here", !.ext = ext[e], !.active = TRUE, !.valid = TRUE,
             !.email = email[e], !.rule = "inside", !.secret = 1] \in Person
    BY <1>3, <2>1 DEF NewPerson, Person, Rules
  <2> QED BY <1>1, <2>2, Persons
<1>5. phone \in [Phones -> [of : Employees \cup {None}, secret : 0..(MaxBadges + 1)]]
  <2>1. \A p \in Phones : (\E e \in Staff : holder[e] = p) => (CHOOSE e \in Staff : holder[e] = p) \in Employees
    BY <1>2
  <2> QED BY <1>1, <1>3, <2>1
<1>6. login \in [Employees -> Login]
  BY Logins DEF Init
<1>7. request \in [Requests -> Request]
  <2>1. Idle \in Request
    BY <1>3, Logins, Bounds DEF Idle, Request
  <2> QED BY <2>1 DEF Init
<1>8. /\ devices \in [Employees -> SUBSET (Phones \X (0..(MaxBadges + 1)))]
      /\ held \in [Requests -> SUBSET Facts]
  BY DEF Init
<1>9. /\ projects \subseteq Projects /\ open \in BOOLEAN /\ selfRemove \in BOOLEAN /\ agenda \in Agendas
      /\ raced \subseteq Cards \cup Projects \cup Phones
  BY DEF Init
<1>10. codes \in 0..MaxCodes /\ badges \in 0..MaxBadges /\ starts \in 0..MaxStarts
  <2>1. codes = 0 /\ badges = 0 /\ starts = 0
    BY DEF Init
  <2> QED BY <2>1, Bounds
<1>11. guesses \in [Employees -> Nat] /\ overlaps \in [Employees -> Nat]
  BY DEF Init
<1> QED BY <1>4, <1>5, <1>6, <1>7, <1>8, <1>9, <1>10, <1>11 DEF TypeOK

LEMMA Start == Init => IInv
<1> SUFFICES ASSUME Init PROVE IInv
  OBVIOUS
<1>0. PICK ext \in Injections(Staff, Externals), email \in Injections(Staff, Emails) :
        person = [e \in Employees |->
          IF e \in Staff THEN [NewPerson EXCEPT !.row = "here", !.ext = ext[e], !.active = TRUE, !.valid = TRUE,
                                 !.email = email[e], !.rule = "inside", !.secret = 1]
          ELSE NewPerson]
  BY DEF Init
<1>1. \A e \in Employees :
        /\ (e \notin Staff => person[e] = NewPerson)
        /\ (e \in Staff => /\ person[e].row = "here" /\ person[e].ext = ext[e]
                           /\ person[e].card = None /\ person[e].project = None)
  BY <1>0 DEF NewPerson
<1>2. \A e, f \in Staff : ext[e] = ext[f] => e = f
  BY DEF Injections
<1>3. Here \subseteq Staff /\ \A e \in Here : e \in Employees
  BY <1>1 DEF Here, NewPerson
<1>4. \A r \in Requests : request[r].op = "idle"
  BY DEF Init, Idle
<1>5. Carried /\ StillFree /\ Uncrossed /\ Verified
  BY <1>4 DEF Carried, StillFree, Uncrossed, Verified, At
<1>6. OneRowEach
  <2>1. \A e \in Employees : person[e].row = "absent" => person[e] = NewPerson
    BY <1>1
  <2>2. \A e, f \in Here : person[e].ext = person[f].ext => e = f
    BY <1>1, <1>2, <1>3
  <2> QED BY <1>4, <2>1, <2>2 DEF OneRowEach, At
<1>7. WhatIsShared
  BY <1>1, <1>3 DEF WhatIsShared
<1>8. NoticesFollowBadge
  BY DEF Init, NoticesFollowBadge
<1>9. Counted
  <2>1. \A e \in Employees : guesses[e] = 0 /\ overlaps[e] = 0 /\ login[e].attempts = 0
    BY DEF Init, NoLogin
  <2> QED BY <1>4, <2>1, Products DEF Counted
<1> QED BY StartTypes, <1>5, <1>6, <1>7, <1>8, <1>9 DEF IInv

LEMMA Steps == IInv /\ [Next]_vars => IInv'
<1>1. ASSUME IInv, Next PROVE IInv'
  <2>1. /\ TypeOK /\ Carried /\ OneRowEach /\ StillFree /\ Counted /\ Uncrossed /\ Verified
        /\ WhatIsShared /\ NoticesFollowBadge /\ Step
    BY <1>1 DEF IInv, Next
  <2>2. TypeOK'
    BY <1>1, <2>1, StepTypes
  <2>3. Carried' /\ OneRowEach' /\ StillFree' /\ WhatIsShared'
    BY <2>1, StepCarried, StepOneRowEach, StepStillFree, StepShared
  <2>4. Counted'
    BY <2>1, <2>2, StepCounted
  <2>5. Uncrossed' /\ NoticesFollowBadge'
    BY <2>1, StepUncrossed, StepNotices
  <2>6. Verified'
    BY <1>1, <2>1, StepVerified
  <2> QED BY <2>2, <2>3, <2>4, <2>5, <2>6 DEF IInv
<1>2. ASSUME IInv, UNCHANGED vars PROVE IInv'
  <2>1. /\ TypeOK' /\ Carried' /\ OneRowEach' /\ StillFree'
    BY <1>2 DEF IInv, vars, TypeOK, Carried, OneRowEach, StillFree, At, Here, Unused
  <2>2. Counted' /\ Uncrossed' /\ Verified'
    BY <1>2 DEF IInv, vars, Counted, Uncrossed, Verified, At
  <2>3. WhatIsShared' /\ NoticesFollowBadge'
    BY <1>2 DEF IInv, vars, WhatIsShared, NoticesFollowBadge, At, Here
  <2> QED BY <2>1, <2>2, <2>3 DEF IInv
<1> QED BY <1>1, <1>2

LEMMA Inductive == Spec => []IInv
  BY Start, Steps, PTL DEF Spec

\* Every table, request and history variable keeps its type: a badge's secret stays
\* within the badges issued, the count of attempts within LOGIN_CODE_MAX_ATTEMPTS.
THEOREM TypeCorrect == Spec => []TypeOK
<1>1. IInv => TypeOK
  BY DEF IInv
<1> QED BY Inductive, <1>1, PTL

\* The conditional UPDATE that takes an attempt bounds the codes compared in a window,
\* however many codes are asked for; a request for a code that crosses a guess gives
\* the attempts back once.
THEOREM CodesGuessedSeldom == Spec => []GuessesBounded
<1>1. IInv => GuessesBounded
  <2> SUFFICES ASSUME IInv, NEW e \in Employees PROVE guesses[e] <= MaxAttempts * (1 + overlaps[e])
    BY DEF GuessesBounded
  <2>1. /\ guesses[e] \in Nat /\ overlaps[e] \in Nat /\ login[e].attempts \in 0..MaxAttempts
        /\ guesses[e] <= login[e].attempts + MaxAttempts * overlaps[e]
    BY DEF IInv, TypeOK, Login, Counted
  <2>2. PICK o \in Nat : o = MaxAttempts * overlaps[e]
    BY <2>1, Products
  <2>3. MaxAttempts * (1 + overlaps[e]) = o + MaxAttempts
    BY <2>1, <2>2, Products
  <2> QED BY <2>1, <2>2, <2>3, Bounds
<1> QED BY Inductive, <1>1, PTL

\* Without a unique index on the card or a lock on the project, two employees share a card, or
\* one is on a deleted project, only if two requests crossed between their read and their write.
THEOREM SharedOnlyByCrossing == Spec => []WhatIsShared
<1>1. IInv => WhatIsShared
  BY DEF IInv
<1> QED BY Inductive, <1>1, PTL

\* The notices of an employee go to the phone that holds the badge, through issues, revocations,
\* removals and registrations that interleave statement by statement.
THEOREM NoticesGoToBadge == Spec => []NoticesFollowBadge
<1>1. IInv => NoticesFollowBadge
  BY DEF IInv
<1> QED BY Inductive, <1>1, PTL

\* A reader that answers "granted" has seen each condition of access hold while it waited,
\* though it reads the employee, the door and the rules at different times.
THEOREM GrantsAreEarned == Spec => []GrantedHeld
<1>1. IInv => GrantedHeld
  <2> SUFFICES ASSUME IInv, NEW r \in Requests, request[r].op = "verify", request[r].pc = "granted"
               PROVE  held[r] = Facts
    BY DEF GrantedHeld, At
  <2>1. Seen("granted") \subseteq held[r] /\ held[r] \subseteq Facts
    BY DEF IInv, Verified, TypeOK
  <2> QED BY <2>1 DEF Seen
<1> QED BY Inductive, <1>1, PTL
=============================================================================
