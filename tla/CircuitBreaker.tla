--------------------------- MODULE CircuitBreaker ---------------------------
(***************************************************************************)
(* RedisCircuitBreaker, in front of the sends to Evolution GO.  Its state  *)
(* is three Redis keys that the workers read and write with separate       *)
(* commands and no transaction: cb:evolution (closed, half-open, or open   *)
(* with a TTL), the hash field opened_at, and the counter of failures.     *)
(*                                                                         *)
(* A tick is one second.  Instants are kept as ages, so that the clock has *)
(* no bound; an age beyond Timeout + 1 is Timeout + 1.  Each action is one *)
(* Redis command, one reading of the clock, or the end of a call.          *)
(***************************************************************************)
EXTENDS Naturals

CONSTANTS
  Callers,      \* the workers and the retry goroutine
  Timeout,      \* the pause and the TTL of open: 30 s in the code
  CountTTL,     \* the TTL of the counter: 60 s in the code
  MaxFailures,  \* 5 in the code
  RedisFails    \* may a Redis command fail?  Its error is never looked at

ASSUME BreakerAssumption ==
  /\ {Timeout, CountTTL, MaxFailures} \subseteq Nat \ {0}
  /\ RedisFails \in BOOLEAN

VARIABLES
  state,     \* cb:evolution; closed when there is no key
  ttl,       \* seconds the key open has left
  openedAge, \* age of opened_at; far in the past when the field is missing
  failures,  \* the counter, up to MaxFailures
  countTTL,  \* seconds the counter has left
  pc,        \* where each caller is
  age,       \* age of the instant a caller read and still holds
  tripAge,   \* history: age of the latest failure that opened the breaker
  blind      \* history: what let the caller through was not the latest trip

vars == <<state, ttl, openedAge, failures, countTTL, pc, age, tripAge, blind>>

Ages == 0..(Timeout + 1)
Older(a) == IF a \in 0..Timeout THEN a + 1 ELSE Timeout + 1

At(c, l) == pc[c] = l
Goto(c, l) == pc' = [pc EXCEPT ![c] = l]

Init ==
  /\ state = "closed" /\ ttl = 0 /\ openedAge = Timeout + 1
  /\ failures = 0 /\ countTTL = 0
  /\ pc = [c \in Callers |-> "idle"]
  /\ age = [c \in Callers |-> 0]
  /\ tripAge = Timeout + 1
  /\ blind = [c \in Callers |-> FALSE]

----------------------------------------------------------------------------
(* Allow: GET the state.  Anything but open lets the call through, an      *)
(* unanswered GET included.                                                *)
ReadState(c) ==
  /\ At(c, "idle")
  /\ \/ state # "open" /\ Goto(c, "calling") /\ blind' = [blind EXCEPT ![c] = FALSE]
     \/ state = "open" /\ Goto(c, "open") /\ blind' = [blind EXCEPT ![c] = FALSE]
     \/ RedisFails /\ Goto(c, "calling") /\ blind' = [blind EXCEPT ![c] = TRUE]
  /\ UNCHANGED <<state, ttl, openedAge, failures, countTTL, age, tripAge>>

(* HGET opened_at: zero, long ago, when it is missing or on an error.      *)
ReadOpenedAt(c) ==
  /\ At(c, "open")
  /\ \/ /\ age' = [age EXCEPT ![c] = openedAge]
        /\ blind' = [blind EXCEPT ![c] = @ \/ openedAge > tripAge]
     \/ /\ RedisFails
        /\ age' = [age EXCEPT ![c] = Timeout + 1]
        /\ blind' = [blind EXCEPT ![c] = TRUE]
  /\ Goto(c, "compare")
  /\ UNCHANGED <<state, ttl, openedAge, failures, countTTL, tripAge>>

(* now - opened_at > timeout, in whole seconds.                            *)
MutCompare(c) ==
  /\ At(c, "compare")
  /\ Goto(c, IF age[c] < Timeout THEN "halfOpen" ELSE "idle")
  /\ UNCHANGED <<state, ttl, openedAge, failures, countTTL, age, tripAge, blind>>

MutReject(c) ==
  /\ At(c, "compare")
  /\ Goto(c, IF age[c] > Timeout THEN "halfOpen" ELSE "failure")
  /\ UNCHANGED <<state, ttl, openedAge, failures, countTTL, age, tripAge, blind>>

Compare(c) ==
  /\ At(c, "compare")
  /\ Goto(c, IF age[c] > Timeout THEN "halfOpen" ELSE "idle")
  /\ UNCHANGED <<state, ttl, openedAge, failures, countTTL, age, tripAge, blind>>

(* SET without a TTL, over whatever the key holds by now.                  *)
Put(s) ==
  \/ state' = s /\ ttl' = 0
  \/ RedisFails /\ UNCHANGED <<state, ttl>>

HalfOpen(c) ==
  /\ At(c, "halfOpen")
  /\ Put("half-open")
  /\ Goto(c, "calling")
  /\ UNCHANGED <<openedAge, failures, countTTL, age, tripAge, blind>>

(* The call to Evolution GO ends well or badly.                            *)
CallEnds(c) ==
  /\ At(c, "calling")
  /\ \E l \in {"success", "failure"} : Goto(c, l)
  /\ UNCHANGED <<state, ttl, openedAge, failures, countTTL, age, tripAge, blind>>

(* Success: SET closed, whatever the state; the counter is kept.           *)
MutSuccess(c) ==
  /\ At(c, "success")
  /\ Put("close")
  /\ Goto(c, "idle")
  /\ UNCHANGED <<openedAge, failures, countTTL, age, tripAge, blind>>

Success(c) ==
  /\ At(c, "success")
  /\ Put("closed")
  /\ Goto(c, "idle")
  /\ UNCHANGED <<openedAge, failures, countTTL, age, tripAge, blind>>

(* Failure: INCR and EXPIRE in one pipeline; enough failures open.         *)
Failure(c) ==
  /\ At(c, "failure")
  /\ \/ /\ failures' = IF failures < MaxFailures THEN failures + 1 ELSE MaxFailures
        /\ countTTL' = CountTTL
        /\ Goto(c, IF failures' = MaxFailures THEN "trip" ELSE "idle")
     \/ RedisFails /\ Goto(c, "idle") /\ UNCHANGED <<failures, countTTL>>
  /\ UNCHANGED <<state, ttl, openedAge, age, tripAge, blind>>

(* SET open with the TTL, time.Now(), then HSET opened_at.                 *)
Trip(c) ==
  /\ At(c, "trip")
  /\ \/ /\ state' = "open" /\ ttl' = Timeout
        /\ tripAge' = 0
        /\ blind' = [d \in Callers |-> pc[d] # "idle"]
     \/ RedisFails /\ UNCHANGED <<state, ttl, tripAge, blind>>
  /\ Goto(c, "clock")
  /\ UNCHANGED <<openedAge, failures, countTTL, age>>

ReadClock(c) ==
  /\ At(c, "clock")
  /\ age' = [age EXCEPT ![c] = 0]
  /\ Goto(c, "stamp")
  /\ UNCHANGED <<state, ttl, openedAge, failures, countTTL, tripAge, blind>>

Stamp(c) ==
  /\ At(c, "stamp")
  /\ openedAge' = age[c] \/ (RedisFails /\ UNCHANGED openedAge)
  /\ Goto(c, "idle")
  /\ UNCHANGED <<state, ttl, failures, countTTL, age, tripAge, blind>>

----------------------------------------------------------------------------
(* A second passes.  Redis drops the open key somewhere in the second in   *)
(* which its TTL ends, and the counter likewise.                           *)
OpenExpires ==
  /\ state = "open" /\ ttl = 0
  /\ state' = "closed"
  /\ UNCHANGED <<ttl, openedAge, failures, countTTL, pc, age, tripAge, blind>>

CountExpires ==
  /\ failures > 0 /\ countTTL = 0
  /\ failures' = 0
  /\ UNCHANGED <<state, ttl, openedAge, countTTL, pc, age, tripAge, blind>>

Tick ==
  /\ state = "open" => ttl > 0
  /\ failures > 0 => countTTL > 0
  /\ ttl' = IF ttl > 0 THEN ttl - 1 ELSE 0
  /\ countTTL' = IF countTTL > 0 THEN countTTL - 1 ELSE 0
  /\ openedAge' = Older(openedAge)
  /\ tripAge' = Older(tripAge)
  /\ age' = [c \in Callers |-> Older(age[c])]
  /\ UNCHANGED <<state, failures, pc, blind>>

(* The process dies and starts again: the keys survive.                    *)
Restart ==
  /\ pc' = [c \in Callers |-> "idle"]
  /\ UNCHANGED <<state, ttl, openedAge, failures, countTTL, age, tripAge, blind>>

Call(c) ==
  \/ ReadState(c) \/ ReadOpenedAt(c) \/ Compare(c) \/ HalfOpen(c) \/ CallEnds(c)
  \/ Success(c) \/ Failure(c) \/ Trip(c) \/ ReadClock(c) \/ Stamp(c)

Next ==
  \/ \E c \in Callers : Call(c)
  \/ OpenExpires \/ CountExpires \/ Tick \/ Restart

Spec == Init /\ [][Next]_vars

(* The clock moves on and Redis expires its keys.                          *)
Fairness == WF_vars(Tick) /\ WF_vars(OpenExpires) /\ WF_vars(CountExpires)

FairSpec == Spec /\ Fairness

----------------------------------------------------------------------------
(* Type invariant.                                                         *)
TypeOK ==
  /\ state \in {"closed", "half-open", "open"}
  /\ ttl \in 0..Timeout /\ openedAge \in Ages
  /\ failures \in 0..MaxFailures /\ countTTL \in 0..CountTTL
  /\ pc \in [Callers -> {"idle", "open", "compare", "halfOpen", "calling", "success",
                         "failure", "trip", "clock", "stamp"}]
  /\ age \in [Callers -> Ages]
  /\ tripAge \in Ages
  /\ blind \in [Callers -> BOOLEAN]

(* Within Timeout of the failure that opened it, the breaker is closed or  *)
(* half-opened only by a caller that the latest trip did not inform: it    *)
(* was already past Allow, or read an opened_at older than the trip, or    *)
(* got no answer from Redis (Allow, Success and Failure share no lock).    *)
OverruledOnlyByBlindCalls ==
  [][state = "open" /\ state' # "open" /\ tripAge < Timeout
       => \E c \in Callers : blind[c] /\ pc[c] \in {"success", "halfOpen"}]_vars

(* The breaker does not stay open unless Redis errors let calls through it *)
(* again and again: the calls under way may fail and open it anew, but it  *)
(* admits no other, and the TTL runs out.                                  *)
LetsThrough == \E c \in Callers : pc[c] # "calling" /\ pc'[c] = "calling" /\ state' = "open"

OpenIsTemporary == <>[][~LetsThrough]_vars => (state = "open" ~> state # "open")

(* The inductive strengthening the proofs use.  The key open lasts until   *)
(* Timeout after the trip at least; a caller that the latest trip informed *)
(* compares an instant no older than the trip, and it has got past Allow   *)
(* only because the breaker was not open or its pause is over.             *)
OpenLasts == state = "open" => ttl + tripAge >= Timeout

InformedCompares ==
  \A c \in Callers : At(c, "compare") /\ ~blind[c] => age[c] <= tripAge

InformedPasses ==
  \A c \in Callers : pc[c] \in {"halfOpen", "calling", "success"} /\ ~blind[c] =>
    state # "open" \/ tripAge >= Timeout

IInv == TypeOK /\ OpenLasts /\ InformedCompares /\ InformedPasses

(* What docs/ui-dashboard-api-reference.md:1019 says of the breaker: it    *)
(* pauses the sends for a window of 30 seconds.  No call is let through    *)
(* while the latest trip is younger than that.                             *)
PausesSends ==
  [][\A c \in Callers : pc[c] # "calling" /\ pc'[c] = "calling" => tripAge >= Timeout]_vars

=============================================================================
