------------------------------- MODULE Reader -------------------------------
(***************************************************************************)
(* The page of a door reader, src/web/src/access/ReaderApp.tsx.  A card    *)
(* tapped on it or a code shown to its camera is sent to the server for a  *)
(* verdict, one at a time; the verdict stays for a while, and what was     *)
(* read last is not read again for longer.                                 *)
(*                                                                         *)
(* The screen is built anew when the tablet is paired again, but nothing   *)
(* stops the card reader that the screen before it had started.            *)
(***************************************************************************)
EXTENDS Integers, FiniteSets

CONSTANTS
  CardsAtDoor, \* cards tapped, and as many codes shown to the camera
  ResultTime,  \* how long a verdict stays
  CardTime,    \* how long the card read last is not read again
  CodeTime,    \* how long the code read last is not read again
  MaxPairings  \* bound: screens built

ASSUME ReaderAssumption ==
  /\ {ResultTime, CardTime, CodeTime} \subseteq Nat \ {0}
  /\ ResultTime < CardTime /\ CardTime < CodeTime
  /\ "none" \notin CardsAtDoor

NoCard == "none"
ReadKinds == {"card", "code"}
Hold == [card |-> CardTime, code |-> CodeTime]

VARIABLES
  screens, \* every screen built so far, the last one in front
  onDoor,  \* the tablet is paired
  sent,    \* history: the card and the code sent last, unless another was read
  twice    \* history: one was sent again within its time, for no reason

readerVars == <<screens, onDoor, sent, twice>>

Forgot == [k \in ReadKinds |-> [is |-> NoCard, age |-> 0]]
Screen == [nfc |-> FALSE, busy |-> FALSE, calls |-> {}, verdict |-> NoCard, left |-> 0, last |-> Forgot]

ReaderInit == screens = [s \in 1..1 |-> Screen] /\ onDoor = TRUE /\ sent = Forgot /\ twice = FALSE

FrontScreen == Cardinality(DOMAIN screens)
Ghosts == {s \in DOMAIN screens : screens[s].nfc /\ (s # FrontScreen \/ ~onDoor)}

-----------------------------------------------------------------------------
(* (as a bug) the time of a card for both *)
StillThereShortly(s, k, c) == screens[s].last[k].is = c /\ screens[s].last[k].age < CardTime

(* What was read last is let pass again after its time. *)
StillThere(s, k, c) == screens[s].last[k].is = c /\ screens[s].last[k].age < Hold[k]

(* Read and remembered, and sent unless the screen is busy: what is read    *)
(* while it is busy is remembered too, and gets no verdict.                 *)
Checked(s, k, c) ==
  LET r == [screens[s] EXCEPT !.last[k] = [is |-> c, age |-> 0]]
  IN  IF StillThere(s, k, c) THEN screens[s]
      ELSE IF r.busy THEN r ELSE [r EXCEPT !.busy = TRUE, !.calls = @ \cup {c}]

Reads(hear, k, c) ==
  /\ screens' = [s \in DOMAIN screens |-> IF s \in hear THEN Checked(s, k, c) ELSE screens[s]]
  /\ LET asks == {s \in hear : ~StillThere(s, k, c) /\ ~screens[s].busy}
     IN  /\ twice' = (twice \/ (asks # {} /\ Ghosts = {} /\ sent[k].is = c /\ sent[k].age < Hold[k]))
         /\ sent' = IF asks # {} THEN [sent EXCEPT ![k] = [is |-> c, age |-> 0]]
                    ELSE IF sent[k].is # c THEN [sent EXCEPT ![k] = Forgot[k]] ELSE sent
  /\ UNCHANGED onDoor

(* A tap is heard by every screen whose card reader was started; a reader   *)
(* that types is heard by the one in front, as the camera is.               *)
Taps(c) ==
  \/ onDoor /\ Reads({FrontScreen}, "card", c)
  \/ LET hear == {s \in DOMAIN screens : screens[s].nfc}
     IN  hear # {} /\ Reads(hear, "card", c)

ShowsCode(c) == onDoor /\ Reads({FrontScreen}, "code", c)

(* A card the browser sees and cannot read: a verdict without a call. *)
Unreadable(s) ==
  /\ screens[s].nfc /\ ~screens[s].busy
  /\ screens' = [screens EXCEPT ![s].busy = TRUE, ![s].verdict = "unreadable", ![s].left = ResultTime]
  /\ UNCHANGED <<onDoor, sent, twice>>

StartsNfc ==
  /\ onDoor /\ ~screens[FrontScreen].nfc
  /\ screens' = [screens EXCEPT ![FrontScreen].nfc = TRUE]
  /\ UNCHANGED <<onDoor, sent, twice>>

(* The verdict, or that there is no connection. *)
Verdict(s) ==
  \E c \in screens[s].calls :
    /\ screens' = [screens EXCEPT ![s].calls = @ \ {c}, ![s].verdict = c, ![s].left = ResultTime]
    /\ UNCHANGED <<onDoor, sent, twice>>

-----------------------------------------------------------------------------
(* Ages matter up to the time they are compared with. *)
Aged(was) ==
  [k \in ReadKinds |-> IF was[k].age >= Hold[k] THEN Forgot[k]
                   ELSE [was[k] EXCEPT !.age = IF was[k].is = NoCard THEN @ ELSE @ + 1]]

(* The verdict goes when its time is over, and the screen reads again. *)
Later(s) ==
  LET r == [screens[s] EXCEPT !.last = Aged(@)]
  IN  IF r.left = 1 THEN [r EXCEPT !.left = 0, !.verdict = NoCard, !.busy = FALSE]
      ELSE [r EXCEPT !.left = IF @ = 0 THEN 0 ELSE @ - 1]

SecondPasses ==
  /\ screens' = [s \in DOMAIN screens |-> Later(s)]
  /\ sent' = Aged(sent)
  /\ UNCHANGED <<onDoor, twice>>

(* The heartbeat is refused: the screen goes, its card reader stays. *)
Unpaired ==
  /\ onDoor /\ onDoor' = FALSE
  /\ screens' = [screens EXCEPT ![FrontScreen] =
                   IF @.nfc THEN [@ EXCEPT !.last["code"] = Forgot["code"]] ELSE Screen]
  /\ UNCHANGED <<sent, twice>>

PairsDoor ==
  /\ ~onDoor /\ FrontScreen < MaxPairings
  /\ onDoor' = TRUE
  /\ screens' = [s \in 1..(FrontScreen + 1) |-> IF s \in DOMAIN screens THEN screens[s] ELSE Screen]
  /\ sent' = Forgot
  /\ UNCHANGED twice

(* The page is loaded again, at night or by hand: nothing of it is left. *)
ReloadsReader ==
  /\ screens' = [s \in 1..1 |-> Screen]
  /\ sent' = Forgot
  /\ UNCHANGED <<onDoor, twice>>

ReaderNext ==
  \/ \E c \in CardsAtDoor : Taps(c) \/ ShowsCode(c)
  \/ \E s \in DOMAIN screens : Unreadable(s) \/ Verdict(s)
  \/ StartsNfc \/ SecondPasses \/ Unpaired \/ PairsDoor \/ ReloadsReader

-----------------------------------------------------------------------------
(* A card left on the reader and a code held before the camera are verified *)
(* once by a screen, unless another of its kind is read between, or a       *)
(* screen that is gone still hears the taps.                                *)
PassagesOnce == ~twice
=============================================================================
