------------------------ MODULE CircuitBreaker_proofs ------------------------
(***************************************************************************)
(* Theorems about CircuitBreaker, for any callers, any pause, any TTL of   *)
(* the counter and any limit of failures, with or without Redis errors.    *)
(***************************************************************************)
EXTENDS CircuitBreaker, TLAPS

----------------------------------------------------------------------------
(* Instants age by one tick, up to the horizon beyond the pause.           *)
LEMMA Ageing ==
  ASSUME NEW a \in Ages
  PROVE  /\ Older(a) \in Ages
         /\ \A b \in Ages : b <= a => Older(b) <= Older(a)
         /\ \A t \in 0..Timeout : t > 0 /\ t + a >= Timeout => (t - 1) + Older(a) >= Timeout
         /\ a >= Timeout => Older(a) >= Timeout
  BY BreakerAssumption DEF Ages, Older

----------------------------------------------------------------------------
(* Every step keeps the types.                                             *)
LEMMA TypeStep ==
  ASSUME TypeOK, [Next]_vars
  PROVE  TypeOK'
<1> USE BreakerAssumption DEF TypeOK, At, Goto
<1>1. ASSUME NEW c \in Callers, Call(c) PROVE TypeOK'
  <2>1. CASE ReadState(c) \/ Compare(c) \/ CallEnds(c)
    BY <2>1 DEF ReadState, Compare, CallEnds
  <2>2. CASE HalfOpen(c) \/ Success(c)
    BY <2>2 DEF HalfOpen, Success, Put
  <2>3. CASE Failure(c)
    BY <2>3 DEF Failure
  <2>4. CASE Trip(c)
    <3>1. blind' \in [Callers -> BOOLEAN]
      BY <2>4, Zenon DEF Trip
    <3>2. /\ state' \in {"closed", "half-open", "open"} /\ ttl' \in 0..Timeout
          /\ tripAge' \in Ages
      BY <2>4 DEF Trip, Ages
    <3>3. pc' = [pc EXCEPT ![c] = "clock"] /\ UNCHANGED <<openedAge, failures, countTTL, age>>
      BY <2>4 DEF Trip
    <3>4. QED
      BY <3>1, <3>2, <3>3
  <2>5. CASE ReadClock(c) \/ Stamp(c)
    BY <2>5 DEF ReadClock, Stamp, Ages
  <2>6. CASE ReadOpenedAt(c)
    <3>1. blind' \in [Callers -> BOOLEAN]
      <4>1. \E b \in BOOLEAN : blind' = [blind EXCEPT ![c] = b]
        BY <2>6, Zenon DEF ReadOpenedAt
      <4>2. QED
        BY <4>1, Zenon
    <3>2. age' \in [Callers -> Ages]
      BY <2>6 DEF ReadOpenedAt, Ages
    <3>3. QED
      BY <2>6, <3>1, <3>2 DEF ReadOpenedAt
  <2>7. QED
    BY <1>1, <2>1, <2>2, <2>3, <2>4, <2>5, <2>6 DEF Call
<1>2. CASE Tick
  BY <1>2, Ageing DEF Tick
<1>3. CASE OpenExpires \/ CountExpires \/ Restart \/ UNCHANGED vars
  BY <1>3 DEF OpenExpires, CountExpires, Restart, vars
<1>4. QED
  BY <1>1, <1>2, <1>3 DEF Next

(* The key open does not run out before the pause does: only Trip sets it, *)
(* with the whole pause as its TTL, and both count the same ticks.         *)
LEMMA OpenStep ==
  ASSUME IInv, [Next]_vars
  PROVE  OpenLasts'
<1> USE BreakerAssumption DEF OpenLasts, TypeOK
<1>1. TypeOK /\ OpenLasts
  BY DEF IInv
<1>2. CASE UNCHANGED <<ttl, tripAge>> /\ (state' = "open" => state = "open")
  BY <1>1, <1>2
<1>3. ASSUME NEW c \in Callers, HalfOpen(c) \/ Success(c) PROVE OpenLasts'
  BY <1>1, <1>3 DEF HalfOpen, Success, Put
<1>4. ASSUME NEW c \in Callers, Trip(c) PROVE OpenLasts'
  BY <1>1, <1>4 DEF Trip
<1>5. CASE Tick
  BY <1>1, <1>5, Ageing DEF Tick
<1>6. QED
  BY <1>2, <1>3, <1>4, <1>5
  DEF Next, Call, ReadState, ReadOpenedAt, Compare, CallEnds, Failure, ReadClock, Stamp,
      OpenExpires, CountExpires, Restart, vars

(* Who has not heard of the latest trip is marked: the trip marks whoever  *)
(* is under way, and a reading older than the trip marks its reader.       *)
LEMMA InformedStep ==
  ASSUME IInv, [Next]_vars
  PROVE  InformedCompares' /\ InformedPasses'
<1> USE BreakerAssumption DEF At, Goto
<1>1. TypeOK /\ InformedCompares /\ InformedPasses
  BY DEF IInv
<1>2. CASE UNCHANGED <<pc, blind, age, tripAge>> /\ (state' = "open" => state = "open")
  BY <1>1, <1>2 DEF InformedCompares, InformedPasses
<1>3. ASSUME NEW c \in Callers, Call(c) PROVE InformedCompares' /\ InformedPasses'
  <2>1. CASE ReadState(c)
    BY <1>1, <2>1 DEF ReadState, InformedCompares, InformedPasses, TypeOK
  <2>2. CASE ReadOpenedAt(c)
    <3>1. /\ pc'[c] = "compare"
          /\ \A d \in Callers \ {c} :
               pc'[d] = pc[d] /\ age'[d] = age[d] /\ (blind'[d] <=> blind[d])
      BY <1>1, <2>2 DEF ReadOpenedAt, TypeOK
    <3>2. \/ age'[c] = openedAge /\ (openedAge > tripAge => blind'[c])
          \/ blind'[c]
      BY <1>1, <2>2 DEF ReadOpenedAt, TypeOK
    <3>3. ~blind'[c] => age'[c] <= tripAge
      BY <1>1, <3>2 DEF TypeOK, Ages
    <3>4. UNCHANGED <<state, tripAge>>
      BY <2>2 DEF ReadOpenedAt
    <3>5. QED
      BY <1>1, <3>1, <3>3, <3>4 DEF InformedCompares, InformedPasses
  <2>3. CASE Compare(c)
    BY <1>1, <2>3 DEF Compare, InformedCompares, InformedPasses, TypeOK, Ages
  <2>4. CASE HalfOpen(c) \/ CallEnds(c) \/ Success(c)
    BY <1>1, <2>4 DEF HalfOpen, CallEnds, Success, Put, InformedCompares, InformedPasses, TypeOK
  <2>5. CASE Failure(c) \/ ReadClock(c) \/ Stamp(c)
    BY <1>1, <2>5 DEF Failure, ReadClock, Stamp, InformedCompares, InformedPasses, TypeOK
  <2>6. CASE Trip(c)
    <3>1. CASE state' = "open" /\ blind' = [d \in Callers |-> pc[d] # "idle"]
      <4>1. \A d \in Callers : pc'[d] # "idle" => blind'[d] \/ d = c
        BY <1>1, <2>6, <3>1 DEF Trip, TypeOK
      <4>2. pc'[c] = "clock"
        BY <1>1, <2>6 DEF Trip, TypeOK
      <4>3. QED
        BY <4>1, <4>2 DEF InformedCompares, InformedPasses
    <3>2. CASE UNCHANGED <<state, tripAge, blind>>
      BY <1>1, <2>6, <3>2 DEF Trip, InformedCompares, InformedPasses, TypeOK
    <3>3. QED
      BY <2>6, <3>1, <3>2 DEF Trip
  <2>7. QED
    BY <1>3, <2>1, <2>2, <2>3, <2>4, <2>5, <2>6 DEF Call
<1>4. CASE Tick
  BY <1>1, <1>4, Ageing DEF Tick, InformedCompares, InformedPasses, TypeOK
<1>5. CASE Restart
  BY <1>5 DEF Restart, InformedCompares, InformedPasses
<1>6. QED
  BY <1>2, <1>3, <1>4, <1>5 DEF Next, OpenExpires, CountExpires, vars

----------------------------------------------------------------------------
(* IInv holds in every reachable state.                                    *)
THEOREM Inductive == Spec => []IInv
<1>1. Init => IInv
  BY BreakerAssumption
  DEF Init, IInv, TypeOK, Ages, OpenLasts, InformedCompares, InformedPasses, At
<1>2. IInv /\ [Next]_vars => IInv'
  BY TypeStep, OpenStep, InformedStep DEF IInv
<1>3. QED
  BY <1>1, <1>2, PTL DEF Spec

(* Type correctness.                                                       *)
THEOREM TypeCorrect == Spec => []TypeOK
<1>1. IInv => TypeOK
  BY DEF IInv
<1>2. QED
  BY <1>1, Inductive, PTL

(* Within its pause the breaker is overruled only by callers the latest    *)
(* trip did not inform, however many callers share the three keys.         *)
THEOREM TripHolds == Spec => OverruledOnlyByBlindCalls
<1> DEFINE Blind == \E c \in Callers : blind[c] /\ pc[c] \in {"success", "halfOpen"}
           Overrules == state = "open" /\ state' # "open" /\ tripAge < Timeout
<1>1. IInv /\ [Next]_vars => [Overrules => Blind]_vars
  <2> SUFFICES ASSUME IInv, [Next]_vars, Overrules PROVE Blind
    OBVIOUS
  <2>1. TypeOK /\ OpenLasts /\ InformedPasses
    BY DEF IInv
  <2>2. ~(tripAge >= Timeout)
    BY <2>1, BreakerAssumption DEF TypeOK, Ages
  <2>3. ~OpenExpires
    BY <2>1, <2>2, BreakerAssumption DEF OpenExpires, OpenLasts, TypeOK, Ages
  <2>4. ASSUME NEW c \in Callers, HalfOpen(c) \/ Success(c) PROVE Blind
    BY <2>1, <2>2, <2>4 DEF HalfOpen, Success, At, InformedPasses
  <2>5. QED
    BY <2>3, <2>4
    DEF Next, Call, ReadState, ReadOpenedAt, Compare, CallEnds, Failure, Trip, ReadClock, Stamp,
        CountExpires, Tick, Restart, vars
<1>2. QED
  BY <1>1, Inductive, PTL DEF Spec, OverruledOnlyByBlindCalls

=============================================================================
