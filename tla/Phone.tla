-------------------------------- MODULE Phone -------------------------------
(***************************************************************************)
(* The badge inside the phone app: src/mobile/src/lib/badge-context.tsx,     *)
(* push.ts, storage.ts, and the screens that activate and remove it.  The   *)
(* phone keeps the badge and the push token in its keystore and works on    *)
(* copies of them across awaits: removal, the switch of the notices, the    *)
(* check of the colours and that of the push token at every start run       *)
(* together.  The app may be closed between any two steps, and any request  *)
(* may fail or lose its answer.                                             *)
(*                                                                         *)
(* Badges are numbered in the order the server issued them to this person.  *)
(* 0 is no badge and no push token.                                         *)
(***************************************************************************)
EXTENDS Integers, FiniteSets

CONSTANTS
  LastIssued,   \* bound: activations
  LastStart,    \* bound: times the app is closed and opened
  MaxRunning    \* bound: operations under way at once

PushTokens == 1..2      \* the phone's push token may change

VARIABLES
  server,    \* the badge in force, those issued, the phones told of arrivals
  keystore,  \* what the phone stores: the badge and the push token
  app,       \* the badge the app shows, what it did since its start, the starts
  running,   \* the operations under way
  told       \* history: badges removed here, and those the server could not be told of

phoneVars == <<server, keystore, app, running, told>>

Task(op, at, badge) == [op |-> op, at |-> at, badge |-> badge, token |-> 0]

PhoneInit ==
  /\ server = [inForce |-> 0, issued |-> 0, devices |-> {}]
  /\ keystore = [badge |-> 0, token |-> 0]
  /\ app = [badge |-> 0, checked |-> FALSE, starts |-> 0]
  /\ running = {}
  /\ told = [removed |-> {}, unsaid |-> {}]

(* A badge the app comes to show starts its two checks, once per start.     *)
AsksServer(badge, old) ==
  IF badge = 0 \/ old.checked THEN {} ELSE {Task("sync", "read", badge), Task("brand", "asked", badge)}
Showing(badge, old) == [old EXCEPT !.badge = badge, !.checked = @ \/ badge # 0]

PhoneBusy(ops) == \E t \in running : t.op \in ops
Goes(t, next) == running' = (running \ {t}) \cup {next}
PhoneEnds(t) == running' = running \ {t}
PhoneStarts(t) == Cardinality(running) < MaxRunning /\ running' = running \cup {t}

ShowsBadge(t, badge) ==
  /\ app' = Showing(badge, app)
  /\ running' = (running \ {t}) \cup AsksServer(badge, app)

-----------------------------------------------------------------------------
(* Setup: the server issues a badge and forgets the phones of the old one.  *)
(* The answer may be lost.                                                  *)
ActivatesHere ==
  /\ app.badge = 0 /\ ~PhoneBusy({"save"}) /\ server.issued < LastIssued
  /\ server' = [server EXCEPT !.issued = @ + 1, !.inForce = server.issued + 1, !.devices = {}]
  /\ UNCHANGED running \/ PhoneStarts(Task("save", "forget", server.issued + 1))
  /\ UNCHANGED <<keystore, app, told>>

Save(t) ==
  /\ t.op = "save"
  /\ \/ /\ t.at = "forget" /\ Goes(t, [t EXCEPT !.at = "store"])
        /\ keystore' = [keystore EXCEPT !.token = 0] /\ UNCHANGED app
     \/ /\ t.at = "store" /\ Goes(t, [t EXCEPT !.at = "show"])
        /\ keystore' = [keystore EXCEPT !.badge = t.badge] /\ UNCHANGED app
     \/ /\ t.at = "show" /\ ShowsBadge(t, t.badge) /\ UNCHANGED keystore
  /\ UNCHANGED <<server, told>>

(* What the server does when a badge asks to be revoked.  The organisation  *)
(* may leave that to the console, and change its mind at any time; a badge  *)
(* no longer in force is not known (401), which stops nothing here.         *)
Revokes(badge) ==
  server' = IF server.inForce = badge THEN [server EXCEPT !.inForce = 0, !.devices = {}] ELSE server

(* (as a bug) a refusal is taken for any other error *)
RefusedGoesOn(t) == Goes(t, [t EXCEPT !.at = "unregister"])

Refused(t) == PhoneEnds(t)

StartsRemoval == app.badge # 0 /\ PhoneStarts(Task("remove", "revoke", app.badge)) /\ UNCHANGED <<server, keystore, app, told>>

Removal(t) ==
  /\ t.op = "remove"
  /\ \/ /\ t.at = "revoke" /\ UNCHANGED <<keystore, app>>
        /\ \/ server.inForce = t.badge /\ Refused(t) /\ UNCHANGED <<server, told>>
           \/ /\ Goes(t, [t EXCEPT !.at = "unregister"])
              /\ \/ Revokes(t.badge) /\ UNCHANGED told
                 \/ told' = [told EXCEPT !.unsaid = @ \cup {t.badge}] /\ UNCHANGED server
     \/ /\ t.at = "clear" /\ Goes(t, [t EXCEPT !.at = "show"])
        /\ keystore' = [keystore EXCEPT !.badge = 0] /\ UNCHANGED <<server, app, told>>
     \/ /\ t.at = "show" /\ ShowsBadge(t, 0)
        /\ told' = [told EXCEPT !.removed = @ \cup {t.badge}] /\ UNCHANGED <<server, keystore>>

-----------------------------------------------------------------------------
(* The notices.  Unregistering is best effort; registering needs a badge in *)
(* force.  A token registered again is in the storage already.              *)
Unregisters(badge, token) ==
  \/ UNCHANGED server
  \/ server.inForce = badge /\ server' = [server EXCEPT !.devices = @ \ {token}]

(* disablePush, also a part of the removal. *)
TurnsOff(t) ==
  /\ t.op # "save"
  /\ \/ /\ t.at = "unregister"
        /\ IF keystore.token = 0 THEN Goes(t, [t EXCEPT !.at = "clear"]) /\ UNCHANGED server
           ELSE Goes(t, [t EXCEPT !.at = "forget"]) /\ Unregisters(t.badge, keystore.token)
        /\ UNCHANGED keystore
     \/ /\ t.at = "forget" /\ Goes(t, [t EXCEPT !.at = "clear"])
        /\ keystore' = [keystore EXCEPT !.token = 0] /\ UNCHANGED server
     \/ /\ t.at = "clear" /\ t.op # "remove" /\ PhoneEnds(t) /\ UNCHANGED <<server, keystore>>
  /\ UNCHANGED <<app, told>>

RegistersPhone(t) ==
  /\ t.at \in {"register", "again"} /\ UNCHANGED <<app, told>>
  /\ \/ /\ server.inForce = t.badge
        /\ server' = [server EXCEPT !.devices = @ \cup {t.token}]
        /\ UNCHANGED keystore
        /\ (t.at = "register" /\ Goes(t, [t EXCEPT !.at = "keep"])) \/ PhoneEnds(t)
     \/ /\ server.inForce # t.badge /\ PhoneEnds(t) /\ UNCHANGED server
        /\ keystore' = IF t.op = "sync" THEN [keystore EXCEPT !.token = 0] ELSE keystore
     \/ PhoneEnds(t) /\ UNCHANGED <<server, keystore>>

Keeps(t) ==
  /\ t.at = "keep" /\ PhoneEnds(t)
  /\ keystore' = [keystore EXCEPT !.token = t.token]
  /\ UNCHANGED <<server, app, told>>

Switches ==
  /\ app.badge # 0 /\ ~PhoneBusy({"enable", "disable"})
  /\ \/ /\ keystore.token = 0
        /\ \E token \in PushTokens : PhoneStarts([Task("enable", "register", app.badge) EXCEPT !.token = token])
     \/ keystore.token # 0 /\ PhoneStarts(Task("disable", "unregister", app.badge))
  /\ UNCHANGED <<server, keystore, app, told>>

Sync(t) ==
  /\ t.op = "sync" /\ t.at \in {"read", "ask"}
  /\ \/ /\ t.at = "read" /\ UNCHANGED server
        /\ IF keystore.token = 0 THEN PhoneEnds(t)
           ELSE \E at \in {"ask", "unregister"} : Goes(t, [t EXCEPT !.at = at, !.token = keystore.token])
     \/ /\ t.at = "ask"
        /\ \E token \in PushTokens :
             /\ Goes(t, [t EXCEPT !.at = IF t.token = token THEN "again" ELSE "register", !.token = token])
             /\ IF t.token = token THEN UNCHANGED server ELSE Unregisters(t.badge, t.token)
  /\ UNCHANGED <<keystore, app, told>>

(* The colours of the organisation: when they changed, the badge held at    *)
(* the start is saved and shown again with the new ones.                    *)
Brand(t) ==
  /\ t.op = "brand" /\ UNCHANGED <<server, told>>
  /\ \/ t.at = "asked" /\ PhoneEnds(t) /\ UNCHANGED <<keystore, app>>
     \/ /\ t.at = "asked" /\ Goes(t, [t EXCEPT !.at = "show"])
        /\ keystore' = [keystore EXCEPT !.badge = t.badge] /\ UNCHANGED app
     \/ t.at = "show" /\ ShowsBadge(t, t.badge) /\ UNCHANGED keystore

-----------------------------------------------------------------------------
(* The app is closed, whatever it was doing, and opened again.              *)
Reopened ==
  /\ app.starts < LastStart
  /\ app' = [Showing(keystore.badge, [app EXCEPT !.checked = FALSE]) EXCEPT !.starts = @ + 1]
  /\ running' = AsksServer(keystore.badge, [app EXCEPT !.checked = FALSE])
  /\ UNCHANGED <<server, keystore, told>>

(* The console revokes the badge, or it goes to another phone.              *)
RevokedElsewhere ==
  /\ server.inForce # 0
  /\ server' = [server EXCEPT !.inForce = 0, !.devices = {}]
  /\ UNCHANGED <<keystore, app, running, told>>

PhoneNext ==
  \/ ActivatesHere \/ StartsRemoval \/ Switches \/ Reopened \/ RevokedElsewhere
  \/ \E t \in running : Save(t) \/ Removal(t) \/ TurnsOff(t) \/ RegistersPhone(t) \/ Keeps(t) \/ Sync(t) \/ Brand(t)

PhoneSpec == PhoneInit /\ [][PhoneNext]_phoneVars

-----------------------------------------------------------------------------
(* A badge removed from this phone opens no door: the server is told first, *)
(* and a refusal keeps the badge on the phone.  What could not be said to   *)
(* the server (no network) is left to the console.                          *)
RemovedIsDead == server.inForce \in told.removed => server.inForce \in told.unsaid

(* A badge removed from the phone does not come back.                       *)
RemovedStaysRemoved == app.badge \notin told.removed
=============================================================================
