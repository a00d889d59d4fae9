------------------------------ MODULE Throttle ------------------------------
(***************************************************************************)
(* The rate limit counted in the database, for one key: a window of fixed  *)
(* length, one upsert per request, then a SELECT of what it left, then, if *)
(* the limit is passed, the UPDATE that blocks the key.  Any replica may   *)
(* run between these statements, the window may end, and the retention run *)
(* removes counters that are over.                                         *)
(*                                                                         *)
(* A definition under a "Bug:" comment is not part of the specification:   *)
(* it is the definition that follows with a plausible mistake in it, which *)
(* the properties must notice.                                             *)
(***************************************************************************)
EXTENDS Integers, FiniteSets

CONSTANTS
  Callers,     \* requests counted together
  Limit,       \* requests let through in a window
  Window,      \* its length; a block lasts as long
  LastTick     \* bound on the time

ASSUME ThrottleAssumption == {Limit, Window, LastTick} \subseteq Nat /\ Window > 0 /\ IsFiniteSet(Callers)

VARIABLES
  tick,      \* UTC_TIMESTAMP, in parts of a window
  counter,   \* the row of the key in throttle_counters
  turn,      \* number of windows opened so far (history)
  caller     \* the requests; of: the window of the upsert, late: read after its end (history)

throttleVars == <<tick, counter, turn, caller>>

NoCounter == [row |-> FALSE, hits |-> 0, until |-> 0, blocked |-> 0]

ThrottleTypeOK ==
  /\ tick \in 0..LastTick /\ turn \in 0..Cardinality(Callers)
  /\ counter \in [row : BOOLEAN, hits : 0..Cardinality(Callers), until : 0..(LastTick + Window), blocked : 0..(LastTick + Window)]
  /\ caller \in [Callers -> [pc : {"idle", "select", "block", "passed", "refused", "failed"},
                             of : 0..Cardinality(Callers), late : BOOLEAN]]

ThrottleInit ==
  /\ tick = 0 /\ counter = NoCounter /\ turn = 0
  /\ caller = [c \in Callers |-> [pc |-> "idle", of |-> 0, late |-> FALSE]]

TickPasses == tick < LastTick /\ tick' = tick + 1 /\ UNCHANGED <<counter, turn, caller>>

Over == counter.until <= tick
NextCount == IF ~counter.row \/ Over THEN [row |-> TRUE, hits |-> 1, until |-> tick + Window,
                                         blocked |-> IF counter.row THEN counter.blocked ELSE 0]
           ELSE [counter EXCEPT !.hits = @ + 1]

\* INSERT ... ON DUPLICATE KEY UPDATE: one statement, a finished window restarts at 1.
Upserts(c) ==
  /\ caller[c].pc = "idle"
  /\ counter' = NextCount
  /\ turn' = IF ~counter.row \/ Over THEN turn + 1 ELSE turn
  /\ caller' = [caller EXCEPT ![c] = [pc |-> "select", of |-> turn', late |-> FALSE]]
  /\ UNCHANGED tick

\* Bug: the request that passes the limit is let through.
PastLimitLate == counter.hits > Limit + 1

PastLimit == counter.hits > Limit
Blocked == counter.blocked > tick

\* Without the row, gone since the upsert, the request fails.
Selects(c) ==
  /\ caller[c].pc = "select"
  /\ caller' = [caller EXCEPT ![c].pc = IF ~counter.row THEN "failed" ELSE IF Blocked THEN "refused"
                                        ELSE IF PastLimit THEN "block" ELSE "passed",
                              ![c].late = caller[c].of # turn]
  /\ UNCHANGED <<tick, counter, turn>>

Blocks(c) ==
  /\ caller[c].pc = "block"
  /\ counter' = IF counter.row THEN [counter EXCEPT !.blocked = tick + Window] ELSE counter
  /\ caller' = [caller EXCEPT ![c].pc = "refused"]
  /\ UNCHANGED <<tick, turn>>

\* DELETE of the retention run.
Forgets ==
  /\ counter.row /\ counter.until < tick /\ counter.blocked < tick
  /\ counter' = NoCounter
  /\ UNCHANGED <<tick, turn, caller>>

ThrottleNext == TickPasses \/ Forgets \/ \E c \in Callers : Upserts(c) \/ Selects(c) \/ Blocks(c)

-----------------------------------------------------------------------------
(* However the statements of the replicas fall, at most Limit of the         *)
(* requests counted in a window are let through, but for those that read the *)
(* counter when another had begun.                                           *)
LimitHolds ==
  \A w \in 1..turn : Cardinality({c \in Callers : caller[c] = [pc |-> "passed", of |-> w, late |-> FALSE]}) <= Limit
=============================================================================
