--------------------------- MODULE WindowCounter ---------------------------
(***************************************************************************)
(* The two counters of the bridge that limit how much passes in a window   *)
(* of time, both an INCR in Redis followed, for the first of a window, by  *)
(* the command that makes the key expire.  LimitByIP stands before every   *)
(* route, the webhooks of Meta included, and counts the requests of one    *)
(* address; AllowInstanceSend counts the jobs of one instance in a day.    *)
(* They differ in what they do when Redis fails, and the limit of the day  *)
(* rises with the age of the instance's connection.                        *)
(*                                                                         *)
(* A call is one execution of a limiter and of what it lets through; it is *)
(* used once.  Two commands are two actions, so that a crash, a cancelled  *)
(* request and the other calls fit in between.                             *)
(***************************************************************************)
EXTENDS Naturals

CONSTANTS
  Calls,        \* HTTP requests and executions of jobs
  Mixes,        \* the ways to count the calls that are explored
  IPLimit,      \* requests an address may make in a window: 100 in the code
  WarmupMax,    \* WarmupMaxMessagesPerDay
  DefaultMax,   \* DefaultMaxMessagesPerDay
  MaxLost       \* bound: answers to one INCR that get lost; the Redis client
                \* repeats it MaxRetries times

VARIABLES
  key,          \* the counter each call is counted by; it never changes
  pc,           \* where each call is
  count,        \* Redis: the counter, 0 for no key
  expires,      \* Redis: does the key have a time to live
  passed,       \* history: the calls each key counted and let through
  strays        \* history: calls whose key went while they waited to set its
                \* time to live

counters == <<count, expires, passed, strays>>

(* The address of those who call /notify, the address of Meta, one         *)
(* instance's day.                                                         *)
Keys == {"client", "meta", "daily"}

(* effectiveMaxPerDay looks at the age of the connection, which grows and  *)
(* falls back when the instance connects again: any of its three answers.  *)
EffectiveMaxPerDay == {WarmupMax, 2 * WarmupMax, DefaultMax}

LimitsOf(k) == IF k = "daily" THEN EffectiveMaxPerDay ELSE {IPLimit}

ASSUME CounterAssumption ==
  /\ {IPLimit, WarmupMax, DefaultMax, MaxLost} \subseteq Nat
  /\ Mixes \subseteq [Calls -> Keys]

At(c, l) == pc[c] = l
Goto(c, l) == pc' = [pc EXCEPT ![c] = l]

CounterInit ==
  /\ key \in Mixes
  /\ pc = [c \in Calls |-> "idle"]
  /\ count = [k \in Keys |-> 0]
  /\ expires = [k \in Keys |-> FALSE]
  /\ passed = [k \in Keys |-> 0]
  /\ strays = {}

(* The call was the n-th of the window; one past the limit is refused.     *)
Pass(c) ==
  /\ Goto(c, "admitted")
  /\ passed' = IF c \in strays THEN passed ELSE [passed EXCEPT ![key[c]] = @ + 1]

Verdict(c, n) ==
  \E max \in LimitsOf(key[c]) :
    IF n <= max THEN Pass(c) ELSE Goto(c, "done") /\ UNCHANGED passed

(* No answer to INCR: LimitByIP ignores the error and finds a count of     *)
(* zero, which passes; AllowInstanceSend returns it, which blocks the job. *)
MutUnanswered(c) ==
  IF key[c] = "daily" THEN Pass(c) ELSE Goto(c, "admitted") /\ UNCHANGED passed

Unanswered(c) ==
  /\ Goto(c, IF key[c] = "daily" THEN "done" ELSE "admitted")
  /\ UNCHANGED passed

(* INCR, which the Redis client repeats when it gets no answer: each time  *)
(* the lost one may have counted.  Who does not see a count of one sends   *)
(* no EXPIRE.                                                              *)
Incr(c) ==
  LET k == key[c] IN
  /\ At(c, "count")
  /\ \E lost \in 0..MaxLost :
       \/ /\ count' = [count EXCEPT ![k] = @ + lost + 1]
          /\ \/ count'[k] = 1 /\ Goto(c, "expire") /\ UNCHANGED passed
             \/ count'[k] > 1 /\ Verdict(c, count'[k])
       \/ count' = [count EXCEPT ![k] = @ + lost] /\ Unanswered(c)
  /\ UNCHANGED <<expires, strays>>

(* EXPIRE, or EXPIREAT the next midnight.  Nobody looks at its error: a    *)
(* request whose client has gone away cancels it.  It may find no key, or  *)
(* the key of another window.                                              *)
Expire(c) ==
  LET k == key[c] IN
  /\ At(c, "expire")
  /\ \/ count[k] > 0 /\ expires' = [expires EXCEPT ![k] = TRUE]
     \/ UNCHANGED expires
  /\ Verdict(c, 1)
  /\ strays' = strays \ {c}
  /\ UNCHANGED count

(* A key goes, and with it the window.                                     *)
KeyGone(k) ==
  /\ count' = [count EXCEPT ![k] = 0]
  /\ expires' = [expires EXCEPT ![k] = FALSE]
  /\ passed' = [passed EXCEPT ![k] = 0]
  /\ strays' = strays \cup {c \in Calls : key[c] = k /\ At(c, "expire")}
  /\ UNCHANGED pc

(* The key's time to live runs out.                                        *)
KeyExpires(k) == expires[k] /\ KeyGone(k)

(* DEL of the day's counter, when the instance connects or is deleted.     *)
ClearInstanceRateLimits == count["daily"] > 0 /\ KeyGone("daily")

(* A crash: calls under way end, and those between their two commands      *)
(* leave a key that nothing makes expire.                                  *)
CounterCrash ==
  /\ pc' = [c \in Calls |-> IF At(c, "idle") THEN "idle" ELSE "done"]
  /\ strays' = {}
  /\ UNCHANGED <<count, expires, passed>>

(* Type invariant of the counters: what each call and each key may be.     *)
CounterTypeOK ==
  /\ key \in [Calls -> Keys]
  /\ count \in [Keys -> Nat]
  /\ expires \in [Keys -> BOOLEAN]
  /\ passed \in [Keys -> Nat]
  /\ strays \subseteq Calls

(* Of the calls it counted, a key lets no more through than its limit: not *)
(* when calls count at the same time or one waits to set the time to live, *)
(* not after a crash, an INCR repeated or unanswered, or a window that     *)
(* ended early; of an instance's jobs not more than the largest limit its  *)
(* connection can have had, and none without a count.  The requests that   *)
(* LimitByIP passes when Redis does not answer were counted by no key      *)
(* (rate_limiter.go:24-32, instance_limiter.go:27-51).                     *)
PassedWithinLimit == \A k \in Keys : \E max \in LimitsOf(k) : passed[k] <= max

(* The inductive strengthening the proofs use.  One of the calls a key     *)
(* counted, at most, waits to set its time to live; the calls let through  *)
(* and the one that waits have been counted; and the limit has room for    *)
(* it, too.                                                                *)
Waits(c) == At(c, "expire") /\ c \notin strays

OneWaits == \A c, d \in Calls : Waits(c) /\ Waits(d) /\ key[c] = key[d] => c = d

PassedCounted ==
  /\ \A k \in Keys : passed[k] <= count[k]
  /\ \A c \in Calls : Waits(c) =>
       /\ passed[key[c]] < count[key[c]]
       /\ passed[key[c]] = 0 \/ \E max \in LimitsOf(key[c]) : passed[key[c]] < max

=============================================================================
