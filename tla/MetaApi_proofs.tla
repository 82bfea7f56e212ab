--------------------------- MODULE MetaApi_proofs ---------------------------
(***************************************************************************)
(* Theorems about MetaApi and the counters of WindowCounter in front of    *)
(* it, for any calls, any limits, any time to live and any bounds.         *)
(***************************************************************************)
EXTENDS MetaApi, TLAPS

----------------------------------------------------------------------------
(* The verdict passes a call on, which then counts as let through unless   *)
(* its window is gone, or ends it.                                         *)
LEMMA VerdictEffect ==
  ASSUME TypeOK, NEW c \in Calls, NEW n \in Nat, Verdict(c, n)
  PROVE  /\ pc' = [pc EXCEPT ![c] = "admitted"] \/ pc' = [pc EXCEPT ![c] = "done"]
         /\ \/ UNCHANGED passed
            \/ /\ c \notin strays
               /\ passed' = [passed EXCEPT ![key[c]] = @ + 1]
               /\ \E max \in LimitsOf(key[c]) : n <= max
  BY DEF Verdict, Pass, Goto

(* INCR counts, at least once when it is answered; the first of a window   *)
(* waits, the others get their verdict, and without an answer nobody is    *)
(* counted as let through.                                                 *)
LEMMA IncrEffect ==
  ASSUME TypeOK, NEW c \in Calls, Incr(c)
  PROVE  /\ pc[c] = "count" /\ UNCHANGED <<expires, strays>>
         /\ \E n \in Nat :
              /\ n >= count[key[c]] /\ count' = [count EXCEPT ![key[c]] = n]
              /\ \/ /\ n = 1 /\ count[key[c]] = 0
                    /\ pc' = [pc EXCEPT ![c] = "expire"] /\ UNCHANGED passed
                 \/ n > count[key[c]] /\ Verdict(c, n)
                 \/ /\ UNCHANGED passed
                    /\ \E l \in {"admitted", "done"} : pc' = [pc EXCEPT ![c] = l]
<1> DEFINE k == key[c]
<1>1. k \in Keys /\ count \in [Keys -> Nat] /\ count[k] \in Nat
  BY DEF TypeOK, CounterTypeOK
<1>2. pc[c] = "count" /\ UNCHANGED <<expires, strays>>
  BY DEF Incr, At
<1>3. PICK lost \in 0..MaxLost :
        \/ /\ count' = [count EXCEPT ![k] = @ + lost + 1]
           /\ \/ count'[k] = 1 /\ Goto(c, "expire") /\ UNCHANGED passed
              \/ count'[k] > 1 /\ Verdict(c, count'[k])
        \/ count' = [count EXCEPT ![k] = @ + lost] /\ Unanswered(c)
  BY DEF Incr
<1>4. lost \in Nat
  BY CounterAssumption
<1>5. CASE count' = [count EXCEPT ![k] = @ + lost] /\ Unanswered(c)
  <2>1. UNCHANGED passed /\ \E l \in {"admitted", "done"} : pc' = [pc EXCEPT ![c] = l]
    BY <1>5 DEF Unanswered, Goto
  <2>2. count' = [count EXCEPT ![k] = count[k] + lost]
    BY <1>5
  <2>3. count[k] + lost \in Nat /\ count[k] + lost >= count[k]
    BY <1>1, <1>4
  <2>4. QED
    BY <1>2, <2>1, <2>2, <2>3
<1>6. CASE /\ count' = [count EXCEPT ![k] = @ + lost + 1]
           /\ \/ count'[k] = 1 /\ Goto(c, "expire") /\ UNCHANGED passed
              \/ count'[k] > 1 /\ Verdict(c, count'[k])
  <2>1. count' = [count EXCEPT ![k] = count[k] + lost + 1] /\ count'[k] = count[k] + lost + 1
    BY <1>1, <1>6
  <2>2. CASE count'[k] = 1 /\ Goto(c, "expire") /\ UNCHANGED passed
    <3>1. count[k] = 0
      BY <1>1, <1>4, <2>1, <2>2
    <3>2. count[k] + lost + 1 = 1
      BY <2>1, <2>2
    <3>3. count' = [count EXCEPT ![k] = 1]
      BY <2>1, <3>2
    <3>4. pc' = [pc EXCEPT ![c] = "expire"] /\ UNCHANGED passed
      BY <2>2 DEF Goto
    <3>5. 1 \in Nat /\ 1 = 1 /\ 1 >= count[k]
      BY <3>1
    <3>6. QED
      BY <1>2, <3>1, <3>3, <3>4, <3>5
  <2>3. CASE Verdict(c, count'[k])
    <3>1. count[k] + lost + 1 \in Nat /\ count[k] + lost + 1 > count[k]
          /\ count[k] + lost + 1 >= count[k]
      BY <1>1, <1>4
    <3>2. count' = [count EXCEPT ![k] = count[k] + lost + 1] /\ Verdict(c, count[k] + lost + 1)
      BY <2>1, <2>3
    <3>3. QED
      BY <1>2, <3>1, <3>2
  <2>4. QED
    BY <1>6, <2>2, <2>3
<1>7. QED
  BY <1>3, <1>5, <1>6

(* What a command of the limiter does to its caller and its counter.       *)
LEMMA LimiterEffect ==
  ASSUME TypeOK, NEW c \in Calls, Limiter(c)
  PROVE  /\ pc[c] \in {"count", "expire"}
         /\ \E l \in {"expire", "admitted", "done"} : pc' = [pc EXCEPT ![c] = l]
         /\ CounterTypeOK'
         /\ UNCHANGED <<key, config, cache, fetched, about, store, restarts>>
<1> USE DEF At, Goto
<1>1. key[c] \in Keys /\ CounterTypeOK
  BY DEF TypeOK, CounterTypeOK
<1>2. UNCHANGED <<key, config, cache, fetched, about, store, restarts>>
  BY DEF Limiter
<1>3. CASE Incr(c)
  <2>1. PICK n \in Nat :
          /\ count' = [count EXCEPT ![key[c]] = n]
          /\ \/ pc' = [pc EXCEPT ![c] = "expire"] /\ UNCHANGED passed
             \/ Verdict(c, n)
             \/ /\ UNCHANGED passed
                /\ \E l \in {"admitted", "done"} : pc' = [pc EXCEPT ![c] = l]
    BY <1>3, IncrEffect
  <2>2. /\ passed' \in [Keys -> Nat]
        /\ \E l \in {"expire", "admitted", "done"} : pc' = [pc EXCEPT ![c] = l]
    BY <1>1, <2>1, VerdictEffect DEF CounterTypeOK
  <2>3. pc[c] = "count" /\ UNCHANGED <<expires, strays>>
    BY <1>3, IncrEffect
  <2>4. QED
    BY <1>1, <1>2, <2>1, <2>2, <2>3 DEF CounterTypeOK
<1>4. CASE Expire(c)
  <2>1. Verdict(c, 1) /\ pc[c] = "expire"
    BY <1>4 DEF Expire
  <2>2. /\ passed' \in [Keys -> Nat]
        /\ \E l \in {"admitted", "done"} : pc' = [pc EXCEPT ![c] = l]
    BY <1>1, <2>1, VerdictEffect DEF CounterTypeOK
  <2>3. QED
    BY <1>1, <1>2, <1>4, <2>1, <2>2 DEF Expire, CounterTypeOK
<1>5. QED
  BY <1>3, <1>4 DEF Limiter

(* What a tick makes of an entry of a cache.                               *)
LEMMA AgedEntry ==
  ASSUME NEW e \in Entries, e.stale <= e.age
  PROVE  Aged(e) \in Entries /\ Aged(e).stale <= Aged(e).age
<1> USE MetaAssumption
<1>1. CASE e.age + 1 < TTL
  <2> DEFINE s == IF e.v # row THEN e.stale + 1 ELSE 0
  <2>1. Aged(e) = [e EXCEPT !.age = @ + 1, !.stale = IF e.v # row THEN @ + 1 ELSE 0]
    BY <1>1 DEF Aged
  <2>2. Aged(e) = [v |-> e.v, age |-> e.age + 1, stale |-> s, late |-> e.late]
    BY <2>1 DEF Entries
  <2>3. s \in 0..TTL /\ s <= e.age + 1
    BY <1>1 DEF Entries
  <2> HIDE DEF s
  <2>4. QED
    BY <1>1, <2>2, <2>3 DEF Entries
<1>2. CASE ~(e.age + 1 < TTL)
  BY <1>2 DEF Aged, Entries, Empty
<1>3. QED
  BY <1>1, <1>2

(* An empty entry is an entry, and not stale.                              *)
LEMMA EmptyEntry == Empty \in Entries /\ Empty.stale <= Empty.age
  BY MetaAssumption DEF Empty, Entries

----------------------------------------------------------------------------
(* Every step keeps the types and the order of the ages in the caches.     *)
LEMMA TypeStep ==
  ASSUME TypeOK, PlacesFit, StaleByAge, [Next]_vars
  PROVE  TypeOK' /\ StaleByAge'
<1> USE MetaAssumption DEF At, Goto, Places, counters, config, store
<1>1. TypeOK /\ PlacesFit /\ StaleByAge
  OBVIOUS
<1>2. ASSUME NEW c \in Calls, Arrive(c) PROVE TypeOK' /\ StaleByAge'
  BY <1>1, <1>2 DEF Arrive, TypeOK, CounterTypeOK, StaleByAge, IsSend
<1>3. ASSUME NEW c \in Calls, Limiter(c) PROVE TypeOK' /\ StaleByAge'
  BY <1>1, <1>3, LimiterEffect DEF TypeOK, StaleByAge, IsSend
<1>4. ASSUME NEW c \in Calls, Load(c) \/ Fetch(c) PROVE TypeOK' /\ StaleByAge'
  <2>1. CASE Load(c)
    <3>1. \E l \in {"post", "lookup", "fetch", "done"} : pc' = [pc EXCEPT ![c] = l]
      BY <2>1 DEF Load, Serve
    <3>2. QED
      BY <1>1, <2>1, <3>1 DEF Load, TypeOK, CounterTypeOK, StaleByAge, IsSend
  <2>2. CASE Fetch(c)
    BY <1>1, <2>2 DEF Fetch, TypeOK, CounterTypeOK, StaleByAge, IsSend
  <2>3. QED
    BY <1>4, <2>1, <2>2
<1>5. ASSUME NEW c \in Calls, Store(c) PROVE TypeOK' /\ StaleByAge'
  <2> DEFINE e == [v |-> fetched[c], age |-> 0, stale |-> 0, late |-> fetched[c] # row]
  <2>1. e \in Entries /\ e.stale <= e.age
    BY <1>1 DEF TypeOK, Entries
  <2>2. cache' = [cache EXCEPT ![CacheOf(c)] = e]
    BY <1>5 DEF Store
  <2> HIDE DEF e
  <2>3. cache' \in [Caches -> Entries] /\ StaleByAge'
    BY <1>1, <2>1, <2>2 DEF TypeOK, StaleByAge
  <2>4. QED
    BY <1>1, <1>5, <2>3 DEF Store, Serve, TypeOK, CounterTypeOK, IsSend
<1>6. ASSUME NEW c \in Calls, Post(c) \/ SetWamid(c) \/ LookUp(c) \/ WamidExpires(c)
      PROVE  TypeOK' /\ StaleByAge'
  <2>1. /\ CounterTypeOK' /\ UNCHANGED <<key, config, cache, fetched, about, restarts>>
        /\ \E l \in {"done", "set", "skipped", pc[c]} : pc' = [pc EXCEPT ![c] = l]
    BY <1>1, <1>6 DEF Post, SetWamid, LookUp, WamidExpires, TypeOK, CounterTypeOK
  <2>2. /\ wamids' \subseteq accepted' /\ untracked' \subseteq accepted'
        /\ accepted' \subseteq {d \in Calls : IsSend(d)}
    BY <1>1, <1>6 DEF Post, SetWamid, LookUp, WamidExpires, TypeOK, PlacesFit, IsSend
  <2>3. QED
    BY <1>1, <2>1, <2>2 DEF TypeOK, StaleByAge, IsSend
<1>7. CASE Redis
  <2>1. PICK k \in Keys : KeyGone(k)
    BY <1>7 DEF Redis, KeyExpires, ClearInstanceRateLimits, Keys
  <2>2. CounterTypeOK' /\ UNCHANGED pc
    BY <1>1, <1>7, <2>1 DEF Redis, KeyGone, TypeOK, CounterTypeOK
  <2>3. QED
    BY <1>1, <1>7, <2>2 DEF Redis, TypeOK, StaleByAge, IsSend
<1>8. CASE EditRow
  BY <1>1, <1>8 DEF EditRow, TypeOK, CounterTypeOK, StaleByAge, IsSend
<1>9. CASE Tick
  <2>1. cache' \in [Caches -> Entries] /\ StaleByAge'
    BY <1>1, <1>9, AgedEntry DEF Tick, TypeOK, StaleByAge
  <2>2. QED
    BY <1>1, <1>9, <2>1 DEF Tick, TypeOK, CounterTypeOK, IsSend
<1>10. CASE Restart
  <2>1. cache' \in [Caches -> Entries] /\ StaleByAge'
    BY <1>10, EmptyEntry DEF Restart, StaleByAge
  <2>2. CounterTypeOK'
    BY <1>1, <1>10 DEF Restart, CounterCrash, TypeOK, CounterTypeOK
  <2>3. QED
    BY <1>1, <1>10, <2>1, <2>2 DEF Restart, CounterCrash, TypeOK, IsSend
<1>11. CASE UNCHANGED vars
  BY <1>1, <1>11 DEF vars, TypeOK, CounterTypeOK, StaleByAge, IsSend
<1>12. QED
  BY <1>2, <1>3, <1>4, <1>5, <1>6, <1>7, <1>8, <1>9, <1>10, <1>11 DEF Next, Continue

(* The limits are natural numbers, and every key has one.                  *)
LEMMA Limits ==
  ASSUME NEW k \in Keys
  PROVE  LimitsOf(k) \subseteq Nat /\ \E max \in LimitsOf(k) : 0 <= max
<1>1. IPLimit \in Nat /\ WarmupMax \in Nat /\ 2 * WarmupMax \in Nat /\ DefaultMax \in Nat
  BY CounterAssumption
<1>2. QED
  BY <1>1 DEF LimitsOf, EffectiveMaxPerDay

(* INCR keeps the counters: a verdict within the limit leaves room for the *)
(* call that still waits, because both were counted.                       *)
LEMMA IncrStep ==
  ASSUME TypeOK, CountersFit, NEW c \in Calls, Incr(c), UNCHANGED key
  PROVE  CountersFit'
<1> USE DEF CountersFit
<1> DEFINE k == key[c]
<1>1. /\ key \in [Calls -> Keys] /\ count \in [Keys -> Nat] /\ passed \in [Keys -> Nat]
      /\ pc \in [Calls -> Places] /\ k \in Keys
  BY DEF TypeOK, CounterTypeOK
<1>2. pc[c] = "count" /\ UNCHANGED strays
  BY IncrEffect
<1>3. PICK n \in Nat :
        /\ n >= count[k] /\ count' = [count EXCEPT ![k] = n]
        /\ \/ /\ n = 1 /\ count[k] = 0
              /\ pc' = [pc EXCEPT ![c] = "expire"] /\ UNCHANGED passed
           \/ n > count[k] /\ Verdict(c, n)
           \/ /\ UNCHANGED passed
              /\ \E l \in {"admitted", "done"} : pc' = [pc EXCEPT ![c] = l]
  BY IncrEffect
<1>4. \A j \in Keys : count[j] <= count'[j]
  BY <1>1, <1>3
<1>5. CASE UNCHANGED passed /\ \A d \in Calls : pc'[d] = "expire" => pc[d] = "expire"
  <2>1. PassedWithinLimit' /\ OneWaits'
    BY <1>2, <1>5 DEF PassedWithinLimit, OneWaits, Waits, At, LimitsOf
  <2>2. PassedCounted'
    BY <1>1, <1>2, <1>4, <1>3, <1>5 DEF PassedCounted, Waits, At, LimitsOf
  <2>3. QED
    BY <2>1, <2>2
<1>6. CASE n = 1 /\ count[k] = 0 /\ pc' = [pc EXCEPT ![c] = "expire"] /\ UNCHANGED passed
  <2>1. passed[k] = 0 /\ \A d \in Calls : Waits(d) => key[d] # k
    BY <1>1, <1>6 DEF PassedCounted
  <2>2. PassedWithinLimit'
    BY <1>6 DEF PassedWithinLimit, LimitsOf
  <2>3. \A d \in Calls \ {c} : Waits(d)' => Waits(d)
    BY <1>1, <1>2, <1>6 DEF Waits, At
  <2>4. OneWaits'
    BY <2>1, <2>3 DEF OneWaits
  <2>5. PassedCounted'
    BY <1>1, <1>3, <1>4, <1>6, <2>1, <2>3 DEF PassedCounted, LimitsOf
  <2>6. QED
    BY <2>2, <2>4, <2>5
<1>7. CASE n > count[k] /\ Verdict(c, n)
  <2>1. \A d \in Calls : pc'[d] = "expire" => pc[d] = "expire"
    BY <1>1, <1>7, VerdictEffect
  <2>2. CASE passed' = [passed EXCEPT ![k] = @ + 1] /\ \E max \in LimitsOf(k) : n <= max
    <3>1. PICK max \in LimitsOf(k) : n <= max
      BY <2>2
    <3>2. max \in Nat /\ passed[k] <= count[k] /\ passed'[k] = passed[k] + 1 /\ count'[k] = n
      BY <1>1, <1>3, <2>2, Limits DEF PassedCounted
    <3>3. passed'[k] <= max /\ passed'[k] <= count'[k]
      BY <1>1, <1>7, <3>1, <3>2
    <3>4. \A j \in Keys : j # k => passed'[j] = passed[j] /\ count'[j] = count[j]
      BY <1>1, <1>3, <2>2
    <3>5. PassedWithinLimit'
      BY <3>3, <3>4 DEF PassedWithinLimit, LimitsOf
    <3>6. OneWaits'
      BY <1>2, <2>1 DEF OneWaits, Waits, At
    <3>7. ASSUME NEW d \in Calls, Waits(d)', key[d] = k
          PROVE  passed'[k] < count'[k] /\ passed'[k] < max
      <4>1. Waits(d)
        BY <1>2, <2>1, <3>7 DEF Waits, At
      <4>2. passed[k] < count[k]
        BY <3>7, <4>1 DEF PassedCounted
      <4>3. QED
        BY <1>1, <1>7, <3>1, <3>2, <4>2
    <3>8. ASSUME NEW d \in Calls, Waits(d)', key[d] # k
          PROVE  /\ passed'[key[d]] < count'[key[d]]
                 /\ passed'[key[d]] = 0 \/ \E m \in LimitsOf(key[d]) : passed'[key[d]] < m
      <4>1. Waits(d)
        BY <1>2, <2>1, <3>8 DEF Waits, At
      <4>2. QED
        BY <1>1, <3>4, <3>8, <4>1 DEF PassedCounted
    <3>9. \A j \in Keys : passed'[j] <= count'[j]
      BY <3>3, <3>4 DEF PassedCounted
    <3>10. PassedCounted'
      BY <3>7, <3>8, <3>9 DEF PassedCounted, LimitsOf
    <3>11. QED
      BY <3>5, <3>6, <3>10
  <2>3. CASE UNCHANGED passed
    BY <1>5, <2>1, <2>3
  <2>4. QED
    BY <1>7, <2>2, <2>3, VerdictEffect
<1>8. CASE UNCHANGED passed /\ \E l \in {"admitted", "done"} : pc' = [pc EXCEPT ![c] = l]
  BY <1>1, <1>5, <1>8
<1>9. QED
  BY <1>3, <1>6, <1>7, <1>8

(* EXPIRE lets the call through for which there was room, unless its       *)
(* window is gone.                                                         *)
LEMMA ExpireStep ==
  ASSUME TypeOK, CountersFit, NEW c \in Calls, Expire(c), UNCHANGED key
  PROVE  CountersFit'
<1> USE DEF CountersFit
<1> DEFINE k == key[c]
<1>1. /\ key \in [Calls -> Keys] /\ count \in [Keys -> Nat] /\ passed \in [Keys -> Nat]
      /\ pc \in [Calls -> Places] /\ k \in Keys
  BY DEF TypeOK, CounterTypeOK
<1>2. pc[c] = "expire" /\ UNCHANGED count /\ strays' = strays \ {c} /\ Verdict(c, 1)
  BY DEF Expire, At
<1>3. \A d \in Calls : Waits(d)' => d # c /\ Waits(d)
  BY <1>1, <1>2, VerdictEffect DEF Waits, At
<1>4. OneWaits'
  BY <1>3 DEF OneWaits
<1>5. CASE UNCHANGED passed
  BY <1>2, <1>3, <1>4, <1>5 DEF PassedWithinLimit, PassedCounted, LimitsOf
<1>6. CASE /\ c \notin strays /\ passed' = [passed EXCEPT ![k] = @ + 1]
           /\ \E max \in LimitsOf(k) : 1 <= max
  <2>1. Waits(c)
    BY <1>2, <1>6 DEF Waits, At
  <2>2. \A d \in Calls : Waits(d)' => key[d] # k
    BY <1>3, <2>1 DEF OneWaits
  <2>3. /\ passed'[k] = passed[k] + 1
        /\ \A j \in Keys : j # k => passed'[j] = passed[j]
    BY <1>1, <1>6
  <2>4. passed[k] < count[k]
    BY <2>1 DEF PassedCounted
  <2>5. \E max \in LimitsOf(k) : passed'[k] <= max
    <3>1. CASE passed[k] = 0
      BY <1>6, <2>3, <3>1
    <3>2. CASE \E max \in LimitsOf(k) : passed[k] < max
      BY <1>1, <2>3, <3>2, Limits
    <3>3. QED
      BY <2>1, <3>1, <3>2 DEF PassedCounted
  <2>6. PassedWithinLimit'
    BY <2>3, <2>5 DEF PassedWithinLimit, LimitsOf
  <2>7. \A j \in Keys : passed'[j] <= count[j]
    BY <1>1, <2>3, <2>4 DEF PassedCounted
  <2>8. PassedCounted'
    BY <1>1, <1>2, <1>3, <2>2, <2>3, <2>7 DEF PassedCounted, LimitsOf
  <2>9. QED
    BY <1>4, <2>6, <2>8
<1>7. QED
  BY <1>2, <1>5, <1>6, VerdictEffect

(* Every step keeps the counters within their limits.                      *)
LEMMA CountersStep ==
  ASSUME TypeOK, CountersFit, [Next]_vars
  PROVE  CountersFit'
<1> USE DEF CountersFit
<1>1. /\ key \in [Calls -> Keys] /\ count \in [Keys -> Nat] /\ passed \in [Keys -> Nat]
      /\ pc \in [Calls -> Places]
  BY DEF TypeOK, CounterTypeOK
<1>2. CASE UNCHANGED <<key, counters>> /\ \A c \in Calls : pc'[c] = "expire" => pc[c] = "expire"
  <2>1. \A c \in Calls : Waits(c)' => Waits(c)
    BY <1>2 DEF Waits, At, counters
  <2>2. QED
    BY <1>2, <2>1 DEF counters, PassedWithinLimit, OneWaits, PassedCounted, LimitsOf
<1>3. ASSUME NEW c \in Calls, Limiter(c) PROVE CountersFit'
  BY <1>3, IncrStep, ExpireStep DEF Limiter
<1>4. CASE Redis
  <2>1. PICK k \in Keys : KeyGone(k)
    BY <1>4 DEF Redis, KeyExpires, ClearInstanceRateLimits, Keys
  <2>2. UNCHANGED key
    BY <1>4 DEF Redis
  <2>3. /\ passed'[k] = 0 /\ count'[k] = 0
        /\ \A j \in Keys : j # k => passed'[j] = passed[j] /\ count'[j] = count[j]
    BY <1>1, <2>1 DEF KeyGone
  <2>4. \A c \in Calls : Waits(c)' => Waits(c) /\ key[c] # k
    BY <2>1 DEF KeyGone, Waits, At
  <2>5. \E max \in LimitsOf(k) : passed'[k] <= max
    BY <2>3, Limits
  <2>6. PassedWithinLimit'
    BY <2>3, <2>5 DEF PassedWithinLimit, LimitsOf
  <2>7. OneWaits'
    BY <2>2, <2>4 DEF OneWaits
  <2>8. PassedCounted'
    BY <1>1, <2>2, <2>3, <2>4 DEF PassedCounted, LimitsOf
  <2>9. QED
    BY <2>6, <2>7, <2>8
<1>5. CASE Restart
  <2>1. \A c \in Calls : ~Waits(c)'
    BY <1>1, <1>5 DEF Restart, CounterCrash, Waits, At
  <2>2. UNCHANGED <<key, count, passed>>
    BY <1>5 DEF Restart, CounterCrash
  <2>3. QED
    BY <2>1, <2>2 DEF PassedWithinLimit, OneWaits, PassedCounted, LimitsOf
<1>6. ASSUME NEW c \in Calls, Arrive(c) \/ Load(c) \/ Fetch(c) \/ Store(c) \/ Post(c)
                              \/ SetWamid(c) \/ LookUp(c)
      PROVE  CountersFit'
  <2>1. \A d \in Calls : pc'[d] = "expire" => pc[d] = "expire"
    BY <1>1, <1>6 DEF Arrive, Load, Fetch, Store, Serve, Post, SetWamid, LookUp, Goto, At
  <2>2. UNCHANGED <<key, counters>>
    BY <1>6 DEF Arrive, Load, Fetch, Store, Post, SetWamid, LookUp
  <2>3. QED
    BY <1>2, <2>1, <2>2
<1>7. QED
  BY <1>2, <1>3, <1>4, <1>5, <1>6
  DEF Next, Continue, WamidExpires, EditRow, Tick, vars

(* A call stays where its key leads.                                       *)
LEMMA PlacesStep ==
  ASSUME TypeOK, PlacesFit, [Next]_vars
  PROVE  PlacesFit'
<1> USE DEF At, Goto, counters, config, store, IsSend, IsStatus
<1>1. key \in [Calls -> Keys] /\ pc \in [Calls -> Places] /\ PlacesFit
  BY DEF TypeOK, CounterTypeOK
<1>2. CASE UNCHANGED <<key, pc>> /\ accepted \subseteq accepted'
  BY <1>1, <1>2 DEF PlacesFit
<1>3. ASSUME NEW c \in Calls, Arrive(c) \/ Limiter(c) PROVE PlacesFit'
  <2>1. UNCHANGED <<key, accepted>>
        /\ \E l \in {"count", "expire", "admitted", "done"} : pc' = [pc EXCEPT ![c] = l]
    BY <1>3, LimiterEffect DEF Arrive
  <2>2. QED
    BY <1>1, <2>1 DEF PlacesFit
<1>4. ASSUME NEW c \in Calls, Load(c) PROVE PlacesFit'
  BY <1>1, <1>4 DEF Load, Serve, PlacesFit, Keys
<1>5. ASSUME NEW c \in Calls, Fetch(c) \/ Store(c) PROVE PlacesFit'
  BY <1>1, <1>5 DEF Fetch, Store, Serve, PlacesFit, Keys
<1>6. ASSUME NEW c \in Calls, Post(c) \/ SetWamid(c) \/ LookUp(c) PROVE PlacesFit'
  BY <1>1, <1>6 DEF Post, SetWamid, LookUp, PlacesFit
<1>7. CASE Restart
  BY <1>1, <1>7 DEF Restart, CounterCrash, PlacesFit
<1>8. QED
  BY <1>2, <1>3, <1>4, <1>5, <1>6, <1>7
  DEF Next, Continue, Redis, KeyExpires, ClearInstanceRateLimits, KeyGone, WamidExpires, EditRow, Tick, vars

(* What Meta accepted stays accounted for, and Meta reports on nothing     *)
(* else.                                                                   *)
LEMMA TrackedStep ==
  ASSUME TypeOK, PlacesFit, ReportsAccepted, Tracked, [Next]_vars
  PROVE  ReportsAccepted' /\ Tracked'
<1> USE DEF At, Goto, counters, config, store, IsSend, IsStatus
<1>1. /\ key \in [Calls -> Keys] /\ pc \in [Calls -> Places] /\ about \in [Calls -> Calls]
      /\ PlacesFit /\ ReportsAccepted /\ Tracked
      /\ accepted \subseteq Calls
  BY DEF TypeOK, CounterTypeOK
<1>2. CASE UNCHANGED <<key, pc, about, accepted>>
           /\ wamids \cup untracked \subseteq wamids' \cup untracked'
  BY <1>1, <1>2 DEF ReportsAccepted, Tracked
<1>3. ASSUME NEW c \in Calls, Arrive(c) PROVE ReportsAccepted' /\ Tracked'
  BY <1>1, <1>3 DEF Arrive, ReportsAccepted, Tracked
<1>4. ASSUME NEW c \in Calls, Limiter(c) PROVE ReportsAccepted' /\ Tracked'
  BY <1>1, <1>4, LimiterEffect DEF ReportsAccepted, Tracked
<1>5. ASSUME NEW c \in Calls, Load(c) \/ Fetch(c) \/ Store(c) \/ LookUp(c)
      PROVE  ReportsAccepted' /\ Tracked'
  <2>1. /\ pc[c] \notin {"idle", "set"} /\ \A d \in Calls \ {c} : pc'[d] = pc[d]
        /\ UNCHANGED <<key, about, store>>
    BY <1>1, <1>5 DEF Load, Fetch, Store, LookUp, Serve
  <2>2. QED
    BY <1>1, <2>1 DEF ReportsAccepted, Tracked
<1>6. ASSUME NEW c \in Calls, Post(c) PROVE ReportsAccepted' /\ Tracked'
  BY <1>1, <1>6 DEF Post, ReportsAccepted, Tracked
<1>7. ASSUME NEW c \in Calls, SetWamid(c) PROVE ReportsAccepted' /\ Tracked'
  BY <1>1, <1>7 DEF SetWamid, ReportsAccepted, Tracked
<1>8. CASE Restart
  BY <1>1, <1>8 DEF Restart, CounterCrash, ReportsAccepted, Tracked
<1>9. QED
  BY <1>2, <1>3, <1>4, <1>5, <1>6, <1>7, <1>8
  DEF Next, Continue, Redis, KeyExpires, ClearInstanceRateLimits, KeyGone, WamidExpires, EditRow, Tick, vars

----------------------------------------------------------------------------
(* IInv holds in every reachable state.                                    *)
THEOREM Inductive == Spec => []IInv
<1> USE MetaAssumption, CounterAssumption
<1>1. Init => IInv
  <2> SUFFICES ASSUME Init PROVE IInv
    OBVIOUS
  <2> USE DEF Init, CounterInit
  <2>1. CounterTypeOK
    BY DEF CounterTypeOK
  <2>2. TypeOK /\ StaleByAge
    BY <2>1, EmptyEntry DEF TypeOK, Places, StaleByAge
  <2>3. PlacesFit /\ ReportsAccepted /\ Tracked
    BY DEF PlacesFit, ReportsAccepted, Tracked, At
  <2>4. CountersFit
    BY Limits DEF CountersFit, PassedWithinLimit, OneWaits, PassedCounted, Waits, At
  <2>5. QED
    BY <2>2, <2>3, <2>4 DEF IInv
<1>2. IInv /\ [Next]_vars => IInv'
  BY TypeStep, CountersStep, PlacesStep, TrackedStep DEF IInv
<1>3. QED
  BY <1>1, <1>2, PTL DEF Spec

(* Type correctness.                                                       *)
THEOREM TypeCorrect == Spec => []TypeOK
<1>1. IInv => TypeOK
  BY DEF IInv
<1>2. QED
  BY <1>1, Inductive, PTL

(* Of the calls a key counted it lets no more through than its limit: the  *)
(* requests of an address, and the jobs of an instance's day.              *)
THEOREM LimitKept == Spec => []PassedWithinLimit
<1>1. IInv => PassedWithinLimit
  BY DEF IInv, CountersFit
<1>2. QED
  BY <1>1, Inductive, PTL

(* A replaced configuration is served for less than the time to live.      *)
THEOREM StaleEnds == Spec => StaleAtMostTTL
<1> DEFINE Served(c) ==
      At(c, "admitted") /\ pc'[c] \in {"post", "lookup"} =>
        LET e == cache[CacheOf(c)] IN e.v # row => e.stale < TTL \/ e.late
<1>1. IInv /\ [Next]_vars => [\A c \in Calls : Served(c)]_vars
  <2> SUFFICES ASSUME IInv, [Next]_vars, NEW c \in Calls,
                      pc[c] = "admitted", pc'[c] \in {"post", "lookup"}
               PROVE  cache[CacheOf(c)].stale < TTL
    BY DEF At
  <2>1. /\ pc \in [Calls -> Places] /\ cache \in [Caches -> Entries] /\ StaleByAge
        /\ CacheOf(c) \in Caches
    BY DEF IInv, TypeOK, CacheOf, Caches
  <2>2. ASSUME NEW d \in Calls, d # c, Arrive(d) \/ Continue(d) PROVE FALSE
    <3>1. CASE Limiter(d)
      BY <2>1, <2>2, <3>1, LimiterEffect DEF IInv
    <3>2. CASE ~Limiter(d)
      BY <2>1, <2>2, <3>2 DEF Arrive, Continue, Load, Fetch, Store, Serve, Post, SetWamid, LookUp,
         Goto
    <3>3. QED
      BY <3>1, <3>2
  <2>3. ASSUME Limiter(c) PROVE FALSE
    BY <2>3, LimiterEffect DEF IInv
  <2>4. Load(c)
    <3>1. PICK d \in Calls : Arrive(d) \/ Continue(d)
      BY DEF Next, WamidExpires, Redis, KeyExpires, ClearInstanceRateLimits, KeyGone, EditRow, Tick, Restart, CounterCrash, vars, At
    <3>2. Arrive(c) \/ Continue(c)
      BY <2>2, <3>1
    <3>3. QED
      BY <2>3, <3>2 DEF Arrive, Continue, Fetch, Store, Post, SetWamid, LookUp, At
  <2>5. Fresh(CacheOf(c))
    BY <2>1, <2>4 DEF Load, Goto
  <2>6. QED
    BY <2>1, <2>5, MetaAssumption DEF Fresh, StaleByAge, Entries
<1>2. QED
  BY <1>1, Inductive, PTL DEF Spec, StaleAtMostTTL

(* A status is dropped only for a lost wamid or one not yet remembered.    *)
THEOREM StatusesTracked == Spec => StatusTracked
<1> DEFINE Dropped(c) ==
      At(c, "lookup") /\ pc'[c] = "skipped" => about[c] \in untracked \/ At(about[c], "set")
<1>1. IInv /\ [Next]_vars => [\A c \in Calls : Dropped(c)]_vars
  <2> SUFFICES ASSUME IInv, [Next]_vars, NEW c \in Calls,
                      pc[c] = "lookup", pc'[c] = "skipped"
               PROVE  about[c] \in untracked \/ pc[about[c]] = "set"
    BY DEF At
  <2>1. pc \in [Calls -> Places] /\ PlacesFit /\ ReportsAccepted /\ Tracked
    BY DEF IInv, TypeOK
  <2>2. about[c] \in accepted
    BY <2>1 DEF PlacesFit, ReportsAccepted, At
  <2>3. ASSUME NEW d \in Calls, d # c, Arrive(d) \/ Continue(d) PROVE FALSE
    <3>1. CASE Limiter(d)
      BY <2>1, <2>3, <3>1, LimiterEffect DEF IInv
    <3>2. CASE ~Limiter(d)
      BY <2>1, <2>3, <3>2 DEF Arrive, Continue, Load, Fetch, Store, Serve, Post, SetWamid, LookUp,
         Goto
    <3>3. QED
      BY <3>1, <3>2
  <2>4. ASSUME Limiter(c) PROVE FALSE
    BY <2>4, LimiterEffect DEF IInv
  <2>5. LookUp(c)
    <3>1. PICK d \in Calls : Arrive(d) \/ Continue(d)
      BY DEF Next, WamidExpires, Redis, KeyExpires, ClearInstanceRateLimits, KeyGone, EditRow, Tick, Restart, CounterCrash, vars, At
    <3>2. Arrive(c) \/ Continue(c)
      BY <2>3, <3>1
    <3>3. QED
      BY <2>4, <3>2 DEF Arrive, Continue, Load, Fetch, Store, Post, SetWamid, At
  <2>6. about[c] \notin wamids
    BY <2>1, <2>5 DEF LookUp, Goto
  <2>7. QED
    BY <2>1, <2>2, <2>6 DEF Tracked, At
<1>2. QED
  BY <1>1, Inductive, PTL DEF Spec, StatusTracked

=============================================================================
