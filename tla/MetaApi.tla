------------------------------ MODULE MetaApi ------------------------------
(***************************************************************************)
(* The Meta Cloud API provider behind the rate limiter.  POST /notify with *)
(* provider meta answers 202 and sends in a goroutine; when Meta accepts,  *)
(* the goroutine keeps the wamid of the message in memory.  Meta reports   *)
(* the message's status to the bridge's webhook, which finds the instance  *)
(* and then the message by its wamid.  Both sides read                     *)
(* meta_provider_configs through a cache in memory with a time to live and *)
(* no invalidation; the table is edited outside the bridge.                *)
(*                                                                         *)
(* The calls of WindowCounter with the key client are sends, those with    *)
(* the key meta are status webhooks, and those with the key daily end with *)
(* the counter's verdict.  One instance, one phone number; the versions of *)
(* its row differ in the access token.                                     *)
(***************************************************************************)
EXTENDS WindowCounter

CONSTANTS
  TTL,          \* ticks a cache entry is served: five minutes in the code
  MaxVersions,  \* bound: versions of the row
  MaxRestarts   \* bound: crashes of the process

ASSUME MetaAssumption == {TTL, MaxRestarts} \subseteq Nat /\ MaxVersions \in Nat \ {0}

VARIABLES
  row,          \* the active version of the row, 0 for none
  versions,     \* versions the row ever had
  cache,        \* the two caches: a version, its age, for how long it has
                \* been replaced, and whether it was when it was cached
  fetched,      \* the version a call read and has not yet cached
  about,        \* the send a status webhook reports on
  wamids,       \* wamidstore: the sends it knows
  accepted,     \* Meta: the sends it accepted
  untracked,    \* history: accepted sends whose wamid got lost or expired
  restarts

config == <<row, versions>>
store == <<wamids, accepted, untracked>>
vars == <<key, pc, counters, config, cache, fetched, about, store, restarts>>

Caches == {"config", "phone"}
Empty == [v |-> 0, age |-> TTL, stale |-> 0, late |-> FALSE]

IsSend(c) == key[c] = "client"
IsStatus(c) == key[c] = "meta"
CacheOf(c) == IF IsSend(c) THEN "config" ELSE "phone"

Init ==
  /\ CounterInit
  /\ row = 1 /\ versions = 1
  /\ cache = [n \in Caches |-> Empty]
  /\ fetched = [c \in Calls |-> 0]
  /\ about = [c \in Calls |-> c]
  /\ wamids = {} /\ accepted = {} /\ untracked = {}
  /\ restarts = 0

----------------------------------------------------------------------------
(* The limiter.  A status webhook that comes after a 429 or a crash is a   *)
(* new call, because Meta reports again what was not answered with a 200.  *)
Arrive(c) ==
  /\ At(c, "idle")
  /\ Goto(c, "count")
  /\ \/ IsStatus(c) /\ \E s \in accepted : about' = [about EXCEPT ![c] = s]
     \/ ~IsStatus(c) /\ UNCHANGED about
  /\ UNCHANGED <<key, counters, config, cache, fetched, store, restarts>>

Limiter(c) ==
  /\ Incr(c) \/ Expire(c)
  /\ UNCHANGED <<key, config, cache, fetched, about, store, restarts>>

----------------------------------------------------------------------------
(* GetMetaConfig and GetInstanceIDByPhoneNumberID: the cache, then the row *)
(* with is_active, then the cache again.                                   *)
Serve(c) == Goto(c, IF IsSend(c) THEN "post" ELSE "lookup")

Fresh(n) == cache[n].age < TTL

(* A request for the other provider leaves here for SendMessage.           *)
Load(c) ==
  /\ At(c, "admitted") /\ key[c] # "daily"
  /\ \/ Fresh(CacheOf(c)) /\ Serve(c)
     \/ ~Fresh(CacheOf(c)) /\ Goto(c, "fetch")
     \/ IsSend(c) /\ Goto(c, "done")
  /\ UNCHANGED <<key, counters, config, cache, fetched, about, store, restarts>>

(* No active row, a database error or a token that cannot be decrypted end *)
(* the call: an error to the caller of /notify, silence for Meta.          *)
Fetch(c) ==
  /\ At(c, "fetch")
  /\ \/ row # 0 /\ fetched' = [fetched EXCEPT ![c] = row] /\ Goto(c, "store")
     \/ Goto(c, "done") /\ UNCHANGED fetched
  /\ UNCHANGED <<key, counters, config, cache, about, store, restarts>>

(* The entry counts its age from here, whatever happened to the row since  *)
(* it was read.                                                            *)
Store(c) ==
  /\ At(c, "store")
  /\ cache' = [cache EXCEPT ![CacheOf(c)] =
                 [v |-> fetched[c], age |-> 0, stale |-> 0, late |-> fetched[c] # row]]
  /\ fetched' = [fetched EXCEPT ![c] = 0]
  /\ Serve(c)
  /\ UNCHANGED <<key, counters, config, about, store, restarts>>

----------------------------------------------------------------------------
(* sendMetaMessage: one POST, never repeated.  Meta refuses or is not      *)
(* reached or the phone number is no E.164 number; Meta accepts and the    *)
(* answer is lost or not understood; Meta accepts.                         *)
MutPost(c) ==
  /\ At(c, "post")
  /\ Goto(c, "set")
  /\ accepted' \in {accepted, accepted \cup {c}}
  /\ UNCHANGED <<key, counters, config, cache, fetched, about, wamids, untracked, restarts>>

Post(c) ==
  /\ At(c, "post")
  /\ \/ Goto(c, "done") /\ UNCHANGED <<accepted, untracked>>
     \/ /\ accepted' = accepted \cup {c}
        /\ untracked' = untracked \cup {c}
        /\ Goto(c, "done")
     \/ accepted' = accepted \cup {c} /\ Goto(c, "set") /\ UNCHANGED untracked
  /\ UNCHANGED <<key, counters, config, cache, fetched, about, wamids, restarts>>

SetWamid(c) ==
  /\ At(c, "set")
  /\ wamids' = wamids \cup {c}
  /\ Goto(c, "done")
  /\ UNCHANGED <<key, counters, config, cache, fetched, about, accepted, untracked, restarts>>

(* processMetaEvent: a status whose wamid is unknown is skipped.           *)
MutLookUp(c) ==
  /\ At(c, "lookup")
  /\ Goto(c, IF about[c] \in wamids THEN "done" ELSE "skipped")
  /\ wamids' = wamids \ {about[c]}
  /\ UNCHANGED <<key, counters, config, cache, fetched, about, accepted, untracked, restarts>>

LookUp(c) ==
  /\ At(c, "lookup")
  /\ Goto(c, IF about[c] \in wamids THEN "done" ELSE "skipped")
  /\ UNCHANGED <<key, counters, config, cache, fetched, about, store, restarts>>

----------------------------------------------------------------------------
(* 72 hours after the Set, found by cleanup or by Get.                     *)
WamidExpires(c) ==
  /\ c \in wamids
  /\ wamids' = wamids \ {c}
  /\ untracked' = untracked \cup {c}
  /\ UNCHANGED <<key, pc, counters, config, cache, fetched, about, accepted, restarts>>

(* The row is edited, deactivated or activated again.                      *)
EditRow ==
  /\ \/ row' = 0 /\ row # 0 /\ UNCHANGED versions
     \/ versions < MaxVersions /\ versions' = versions + 1 /\ row' = versions'
  /\ UNCHANGED <<key, pc, counters, cache, fetched, about, store, restarts>>

(* Time passes; an entry is worth nothing at the end of its time to live.  *)
MutAged(e) == [e EXCEPT !.stale = IF e.v # row /\ e.stale < TTL THEN @ + 1 ELSE @]

Aged(e) ==
  IF e.age + 1 < TTL
  THEN [e EXCEPT !.age = @ + 1, !.stale = IF e.v # row THEN @ + 1 ELSE 0]
  ELSE Empty

Tick ==
  /\ cache' = [n \in Caches |-> Aged(cache[n])]
  /\ UNCHANGED <<key, pc, counters, config, fetched, about, store, restarts>>

(* The caches and the wamids live in memory, the counters in Redis.        *)
Restart ==
  /\ restarts < MaxRestarts
  /\ restarts' = restarts + 1
  /\ CounterCrash
  /\ cache' = [n \in Caches |-> Empty]
  /\ fetched' = [c \in Calls |-> 0]
  /\ wamids' = {}
  /\ untracked' = accepted
  /\ UNCHANGED <<key, config, about, accepted>>

Redis ==
  /\ (\E k \in Keys : KeyExpires(k)) \/ ClearInstanceRateLimits
  /\ UNCHANGED <<key, config, cache, fetched, about, store, restarts>>

Continue(c) ==
  Limiter(c) \/ Load(c) \/ Fetch(c) \/ Store(c) \/ Post(c) \/ SetWamid(c) \/ LookUp(c)

Next ==
  \/ \E c \in Calls : Arrive(c) \/ Continue(c) \/ WamidExpires(c)
  \/ Redis \/ EditRow \/ Tick \/ Restart

Spec == Init /\ [][Next]_vars

----------------------------------------------------------------------------
(* Where a call can stand, and what a cache can hold.                      *)
Places ==
  {"idle", "count", "expire", "admitted", "fetch", "store", "post", "set", "lookup",
   "skipped", "done"}

Entries == [v : 0..MaxVersions, age : 0..TTL, stale : 0..TTL, late : BOOLEAN]

(* Type invariant.                                                         *)
TypeOK ==
  /\ CounterTypeOK
  /\ pc \in [Calls -> Places]
  /\ row \in 0..versions /\ versions \in 1..MaxVersions
  /\ cache \in [Caches -> Entries]
  /\ fetched \in [Calls -> 0..MaxVersions]
  /\ about \in [Calls -> Calls]
  /\ wamids \subseteq accepted /\ untracked \subseteq accepted
  /\ accepted \subseteq {c \in Calls : IsSend(c)}
  /\ restarts \in 0..MaxRestarts

(* A call is served from a cache with a version that was replaced or       *)
(* deactivated at most one time to live ago, unless the replacement came   *)
(* between the query and the Store of the call that cached it: then the    *)
(* old version is served for a whole time to live from the Store           *)
(* (metaconfig/config.go:50-61).                                           *)
StaleAtMostTTL ==
  [][\A c \in Calls : At(c, "admitted") /\ pc'[c] \in {"post", "lookup"} =>
       LET e == cache[CacheOf(c)] IN
       e.v # row => e.stale < TTL \/ e.late]_vars

(* A status about a message is dropped for want of its wamid only if Meta's*)
(* answer was lost, the record expired or died with the process, or the    *)
(* webhook overtook the goroutine between Meta's answer and the Set        *)
(* (notify_meta.go:167-170, meta_webhook.go:117-121).                      *)
StatusTracked ==
  [][\A c \in Calls : At(c, "lookup") /\ pc'[c] = "skipped" =>
       about[c] \in untracked \/ At(about[c], "set")]_vars

(* The inductive strengthening the proofs use.  A call is only where its   *)
(* provider and its side of the API bring it.                              *)
PlacesFit ==
  \A c \in Calls :
    /\ pc[c] \in {"fetch", "store"} => key[c] # "daily"
    /\ pc[c] \in {"post", "set"} => IsSend(c)
    /\ At(c, "lookup") => IsStatus(c)
    /\ At(c, "set") => c \in accepted

(* An entry has not been out of date for longer than it has been there.    *)
StaleByAge == \A n \in Caches : cache[n].stale <= cache[n].age

(* Meta reports on what it accepted, and what it accepted the goroutine    *)
(* that sent it is about to remember, or the store knows, or it is lost.   *)
ReportsAccepted == \A c \in Calls : IsStatus(c) /\ ~At(c, "idle") => about[c] \in accepted

Tracked == \A c \in accepted : c \in wamids \cup untracked \/ At(c, "set")

CountersFit == PassedWithinLimit /\ OneWaits /\ PassedCounted

IInv == TypeOK /\ CountersFit /\ PlacesFit /\ StaleByAge /\ ReportsAccepted /\ Tracked

=============================================================================
