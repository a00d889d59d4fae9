------------------------------- MODULE Screens -------------------------------
(***************************************************************************)
(* The screens people use: the tablet, the guest's link, the reader at a    *)
(* door, the employee's page and app, the console.  Each runs in a browser  *)
(* or a phone of its own and sees the server only through its requests, so  *)
(* a step of one changes nothing of another: each behaviour follows one of  *)
(* them (screenUsed).                                                       *)
(***************************************************************************)
EXTENDS Kiosk, GuestPage, Reader, Phone, BadgePage, Inviting, Console, Entry

VARIABLE screenUsed  \* the one this behaviour follows

vars ==
  <<kioskVars, guestPageVars, readerVars, phoneVars, badgePageVars, invitingVars, consoleVars, entryVars,
    screenUsed>>

ScreenNames == {"kiosk", "guest", "reader", "phone", "badge", "inviting", "console", "entry"}

Init ==
  /\ screenUsed \in ScreenNames
  /\ KioskInit /\ GuestPageInit /\ ReaderInit /\ PhoneInit
  /\ BadgePageInit /\ InvitingInit /\ ConsoleInit /\ EntryInit

Tablet ==
  /\ screenUsed = "kiosk" /\ KioskNext
  /\ UNCHANGED <<guestPageVars, readerVars, phoneVars, badgePageVars,
                  invitingVars, consoleVars, entryVars, screenUsed>>

GuestLink ==
  /\ screenUsed = "guest" /\ GuestPageNext
  /\ UNCHANGED <<kioskVars, readerVars, phoneVars, badgePageVars,
                  invitingVars, consoleVars, entryVars, screenUsed>>

DoorScreen ==
  /\ screenUsed = "reader" /\ ReaderNext
  /\ UNCHANGED <<kioskVars, guestPageVars, phoneVars, badgePageVars,
                  invitingVars, consoleVars, entryVars, screenUsed>>

MobileApp ==
  /\ screenUsed = "phone" /\ PhoneNext
  /\ UNCHANGED <<kioskVars, guestPageVars, readerVars, badgePageVars,
                  invitingVars, consoleVars, entryVars, screenUsed>>

BadgeInBrowser ==
  /\ screenUsed = "badge" /\ BadgePageNext
  /\ UNCHANGED <<kioskVars, guestPageVars, readerVars, phoneVars,
                  invitingVars, consoleVars, entryVars, screenUsed>>

InviteScreens ==
  /\ screenUsed = "inviting" /\ InvitingNext
  /\ UNCHANGED <<kioskVars, guestPageVars, readerVars, phoneVars,
                  badgePageVars, consoleVars, entryVars, screenUsed>>

ConsolePagesUsed ==
  /\ screenUsed = "console" /\ ConsoleNext
  /\ UNCHANGED <<kioskVars, guestPageVars, readerVars, phoneVars,
                  badgePageVars, invitingVars, entryVars, screenUsed>>

ConsoleEntered ==
  /\ screenUsed = "entry" /\ EntryNext
  /\ UNCHANGED <<kioskVars, guestPageVars, readerVars, phoneVars,
                  badgePageVars, invitingVars, consoleVars, screenUsed>>

Next ==
  \/ Tablet \/ GuestLink \/ DoorScreen \/ MobileApp
  \/ BadgeInBrowser \/ InviteScreens \/ ConsolePagesUsed \/ ConsoleEntered

Spec == Init /\ [][Next]_vars

-----------------------------------------------------------------------------
(* Two people at the tablet are never mixed up, and one person's submission  *)
(* makes two visits only when an answer was lost (KioskApp.tsx).             *)
OneGuestOneVisit == GuestsKeptApart /\ TwiceOnlyInSilence

(* A text recorded as accepted was on the screen of the person who ticked it, *)
(* at the tablet (KioskApp.tsx) and on the guest's link (GuestApp.tsx).       *)
ShownBeforeAccepted == AcceptedWasShown /\ RegisteredWasShown

(* What the console says it saved is what the server holds, and the recovery *)
(* codes it shows are those in force (admin/pages, Account.tsx).             *)
ConsoleKeepsWord == SavedAsSaid /\ CodesInForce
=============================================================================
