# Verification of wa-bridge

wa-bridge connects WhatsApp (through Evolution GO, or Meta's Cloud API) with
Chatwoot: it receives Evolution's webhooks, forwards messages to Chatwoot
conversations, sends the agents' answers and the notifications of an HTTP API
to WhatsApp, and keeps the connection state of each WhatsApp instance. This
directory holds TLA+ models of its core, the TLC runs that check them and
TLAPS proofs about them. Paths below are relative to the repository.

## Inventory

| Part | Code | State | Hard behaviour |
|---|---|---|---|
| Connection lifecycle | `internal/services/bridge.go:594-921` | row of `evolution_instances`, `reconnectInProgress`, the `qr:` keys | webhooks in any order, each in its own goroutine; a goroutine that sleeps and then acts |
| Connection coordinator | `internal/services/connection_coordinator.go` | one mutex and one epoch per instance, in memory | shared by two services; lost at a restart |
| Panel operations | `internal/services/admin_service.go:786-972`, `internal/handlers/notify.go:190-308` | the row, Evolution GO's instance, the `qr:` keys | long flows (up to 17 s) beside the webhooks |
| Health checker | `admin_service.go:640-733` | none of its own | writes back a whole row it read before an HTTP call |
| Notification queue | `internal/queue/redis_queue.go`, `internal/services/notification_service.go` | stream, consumer group, pending entries, `retry:queue`, `job:` hashes, `notifications` rows | at-least-once execution, crashes between commands, retries |
| Circuit breaker | `internal/queue/redis_circuit_breaker.go` | three Redis keys with TTLs | read-then-write without a transaction |
| Cooldown and daily limit | `internal/services/instance_limiter.go` | two Redis keys | INCR then EXPIREAT; a cooldown set before the send |
| Inbound bridge | `bridge.go:308-586` | `processed:` keys | duplicates, a check at the start and a mark at the end |
| Chatwoot client | `internal/services/chatwoot_client.go` | none; Chatwoot's contacts and conversations | search then create; stale ids; re-posts |
| Outbound replies | `bridge.go:924-1088`, `internal/handlers/chatwoot.go` | none; the `evolution_instance` attribute of Chatwoot's conversations | the attribute is written by inbound webhooks and read from the payload of another |
| Provisioning, agents, widget | `admin_service.go:91-638` | rows, Chatwoot objects | sagas with partial failure |
| Meta send and webhook | `internal/handlers/notify_meta.go`, `meta_webhook.go`, `pkg/wamidstore`, `pkg/metaconfig` | wamid map, two caches | a store filled after the answer; stale credentials |
| HTTP rate limiter | `internal/middleware/rate_limiter.go` | a Redis key per address | INCR then EXPIRE; stands before the webhooks too |
| HTTP layer, authentication, configuration, metrics | the rest | counters | little |

How they interact: Evolution GO's webhooks and the panel's calls reach the
same row through two services that share the coordinator; `POST /notify`
writes a row and a stream entry, which a worker turns into a call to Evolution
GO behind the cooldown, the daily limit and the breaker; an inbound message
reads the instance's row for its inbox and ends in Chatwoot, where it leaves
the instance's name for the agent's answer to find; `POST /notify` with the
provider meta and Meta's webhooks meet in the wamid store and the caches.

What makes each part correct: at most one connect flow per instance, an
auto-reconnect that gives way to any later change of state, flows that always
release the mutex; jobs that are neither lost nor executed by two goroutines
at once, duplicates only through faults; a breaker that pauses, and not for
ever; messages marked only once they are settled, in the bound inbox, once;
answers that leave by a number the customer wrote to; limits that hold
whatever the order of commands; statuses of Meta that find their message; compensation that
leaves no orphan and deletes nobody else's user.
`PROJECT.json` lists the hazards by line.

## Modules

Every action is one access to state that processes share: a SQL statement, a
Redis command, an operation on a mutex or a `sync.Map`, an HTTP exchange.
That is the grain at which goroutines, crashes and other services interleave.

| Module | Models | |
|---|---|---|
| `ExclusiveConnect` | abstract: what the coordinator promises about connect flows and the instance in Evolution GO | |
| `ConnectionLifecycle` | one instance: webhooks, auto-reconnect, `/connect`, `/recreate`, `/logout`, health checker, restart | implements `ExclusiveConnect` |
| `JobDelivery` | abstract: what the queue promises about a job | |
| `NotificationQueue` | `SendMessage` to the final status: stream, group, retry queue, workers, retry loop, restart, loss of Redis | implements `JobDelivery` |
| `CircuitBreaker` | `Allow`, `Success`, `Failure` with clock and TTLs | |
| `InboundMessage` | `handleIncomingMessage` with Redis, the rows and the part of Chatwoot it relies on | |
| `AgentReply` | `handleOutgoingMessage`, composed with the inbound bridge | extends `InboundMessage` |
| `WindowCounter` | `LimitByIP` and `AllowInstanceSend`: INCR, EXPIRE, verdict; the DEL of the day's counter | |
| `MetaApi` | Meta's send and status webhook behind the limiter, the caches of its configuration and the wamid store | extends `WindowCounter` |
| `ChatwootAdmin` | agents (create with rollback, remove) and the widget's inbox, webhook and attribute definitions, beside Chatwoot's deletion job and its panel | |
| `*_proofs` | the theorems about the module of that name | extend it |
| `MC*` | names for model values and the symmetry sets | |

### ConnectionLifecycle

`Tasks` are executions: of a webhook handler, of a panel request or of one
iteration of the health checker for the instance. A task takes its first step
with an action of `Arrive` (which handler runs is chosen freely) and continues
with the actions of `Continue`; `pc` is where it is. Locks, epoch, marker and
QR keys are all per instance name, so a single instance is modelled.

* `db` holds the status and whether a phone number is stored: what
  `isInstanceConnected` and the handlers test. `UpdateConnectionState`,
  `LogoutInstance`, `DeleteInstance` and the status column of `Update` are the
  writes; a failed UPDATE is the alternative in which `db` stays.
* `lock` and the label set `Critical` are `LockInstance` and its deferred
  unlock. `epoch` is a counter where the code stores `UnixNano`: two bumps in
  one nanosecond are taken to differ, and the clock not to go backwards.
* `evo` is the instance inside Evolution GO: `gap` between the delete and the
  create of a recreate, `lost` when it is not there and nobody is about to
  create it. A recreate that ends in an error may leave either: `DeleteInstance`
  and `CreateInstance` are repeated by the HTTP client (`RetryMax` 3), so an
  error can mean that the request was not carried out, that its answer was
  lost, or that the repeated request was refused (404 for the delete, a
  conflict for the create) because the first one had been carried out. The
  delete that fails therefore leaves `evo` as it was or `lost`, the create that
  fails leaves `present` or `lost`, and a crash in the gap leaves `lost`. A
  request is carried out while it is awaited: one that Evolution GO carries out
  after the bridge gave up on it is left out.
* `overtakenBy` is history: which tasks changed the row, or recreated the
  instance, since an auto-reconnect captured its epoch.
* A missing API key ends a handler like a row that cannot be read, so both
  are one alternative. Limits of the QR payload (`qrcount`, `maxCount`,
  `forceLogout`) are a free choice. Evolution GO's answers are free. The
  two-second sleeps need no action: other tasks may run between any two steps.
* `ExclusiveConnect` is the promise in terms of `holder` and `evo` alone: a
  flow begins when nobody holds the instance and it is not in the gap, only the
  holder deletes and creates it, and a flow whose delete was answered does not
  end before it tried to create the instance. It promises nothing after an
  error: `RecreateInstance` returns it, and the instance may be gone until
  somebody recreates it (whose delete may then get a 404 and end the same way).
  The mapping is `holder <- lock`, `evo` is shared;
  `ImplementsExclusiveConnect` is its specification.
* Not in it: `ClearInstanceRateLimits` (keys that no action here reads; the
  day's counter is in `WindowCounter`), the outbound event of `notifyConnectionEvent`, and the value of the token.

### NotificationQueue

Jobs carry fresh UUIDs and go to one instance and one recipient, the only case
in which they share keys. `pc` of a worker or of the retry loop walks through
`Consume` or `ProcessRetries` and `ProcessSendMessage`. `pel` is the group's
list of pending entries; nothing in the code reads it again after a crash.
`MaxResends` is the HTTP client's `RetryMax`: a POST whose answer is lost may
be posted again. The daily limit and the breaker answer freely. Commands whose
error the code ignores may have no effect, and the job is then in `faulted`.
`delivered`, `unanswered`, `ended`, `dropped`, `executions` are history. Not
in it: entries that are not JSON, empty recipient lists, the length of the
backoff. A Redis command that returns an error is taken to have had no effect:
an XADD whose answer alone is lost is not modelled.

`JobDelivery` forgets streams, groups, hashes and the kinds of goroutines. A
request refuses a job or has it kept; one goroutine at a time executes it, and
only that one sends messages for it; an execution settles the job or leaves it
kept. A job is lost only if Redis was in trouble with it (`troubled`: dropped
by a reset, or a command for it failed), and a settled job is executed again
only after such trouble or a crash. The mapping computes the place from the
stream, the pending entries and the retry queue (`Kept`, `Place`).

### CircuitBreaker

`state` and `ttl` are `cb:evolution`, `openedAge` is `opened_at` as an age,
`failures` and `countTTL` the counter. Ages are capped one above `Timeout`,
where the comparison in `Allow` no longer tells them apart, and the counter at
`MaxFailures`, likewise; so the clock and the calls are unbounded and the
state space finite. A tick is a second, and a key may expire anywhere in the
second its TTL ends in. `blind` is history: a caller that the latest trip did
not inform, because it was past the `GET`, or Redis did not answer, or
`opened_at` was still that of an older trip.

### InboundMessage

`Webhooks` are executions of `handleIncomingMessage` for one contact, who may
write to several instances (`from`). Chatwoot is modelled as far as the code
relies on it: one contact per phone number (the 422), conversations with inbox,
status (open and pending are one) and the `evolution_instance` attribute
(`tag`), 404 for what was deleted; a reply on a resolved conversation does not
reopen it here, which only leaves fewer conversations to reuse.
`SetCustomAttribute` is taken to add an attribute to the others, as its three
calls in a row presume; whether it stores anything is free, as nobody looks at
its answer (`SetTag`; `tagged` is history and says whether it did). `local`
holds an execution's local variables, and is blank once they are dead. The
attribute and the preparation of the content are one action, because the
latter touches nothing shared. `Rebind` is the operator, `Agent` Chatwoot's
users. `Faults` turns on other failing exchanges, lost answers and crashes. `overlapped` and `excused` are history.

### AgentReply

A composition: a step is one of the inbound bridge, of the operator or of the
agents (`Inbound`, which also notes the histories `customers` and `heard`), an
agent who opens a conversation of their own, an agent who writes, or the
bridge that handles Chatwoot's `message_created`. Between `Write` and `Receive`
lies Chatwoot's webhook job; the payload carries the attribute as it is when
the job builds it, and everything that follows in the bridge reads only the
instances' rows, so `Receive` is one step. `Default` is what `FindDefault`
answers. Notes, edits, lifecycle events and empty messages are the alternative
in which nothing is sent; a reply posted twice adds nothing to the set `sent`.
Deduplication keys do not expire here: that is `InboundMessage`'s subject.

### WindowCounter and MetaApi

A call is one HTTP request or one execution of a job. `WindowCounter` gives
the steps of both limiters: `Incr`, and for the first of a window `Expire`,
whose error nobody looks at. The Redis client repeats an INCR that gets no
answer (`MaxLost` bounds how often), and each of them may have counted: who
then sees a count above one, or no answer at all, sends no EXPIRE. The two
differ when there is no answer (`Unanswered`): the rate limiter lets the
request through, the daily limit blocks the job. A key goes when its time to
live runs out; the day's also when the instance connects or is deleted
(`ClearInstanceRateLimits`). `passed` counts, as history, the calls a key
counted and let through since it was there; `strays` are the calls whose key
went while they waited to set its time to live, which no key counts. The age of the
connection chooses among the three answers of `effectiveMaxPerDay` freely,
because it grows and starts over. `MetaApi` puts the counter for addresses
before `POST /notify` (key `client`) and before Meta's webhook (key `meta`);
calls with the key `daily` end with the verdict. A call then reads the cache,
the row, and stores (`Load`, `Fetch`, `Store`); a send goes on to `Post` and
`SetWamid`, a status to `LookUp`. The row's versions differ in the token; the
phone number and the instance do not change. A refused webhook that Meta
repeats is a new call. `stale`, `late` and `untracked` are history.

### ChatwootAdmin

`Requests` are executions of the admin handlers of agents and of the widget;
their `kind` is chosen freely and they run concurrently, without a lock in the
code. All agents have one e-mail, the only case in which they meet. `users`
are the users that e-mail ever had, by id: `CreateUser` finds the existing
one, and a deleted user stays `doomed` until Chatwoot's job has run. A resend
of an exchange whose answer was lost is a step that keeps `pc`. `fresh` is
`len(user.Accounts) == 0`, `seen` the webhook as listed, `Merged` what is sent
back. A widget request's webhook URL is taken to be configured
(`NEXTJS_APP_URL`), and the order in which attribute definitions are created
is free. The role of an agent is left out. `known`, `abandoned`, `edited` and
`troubled` are history.

## Runs

| Run | Instance | Checks | Result |
|---|---|---|---|
| `connection` | 2 tasks, 1 restart, `FairSpec`; 44 k states | `TypeOK`, `OneConnectFlow`, `RecreateGapPrivate`, `OvertakenReconnectAborts`, `EveryTaskEnds`, `ImplementsExclusiveConnect` | hold |
| `connection_qrtimeout` | 2 tasks | `LateQRTimeoutKeepsSession` | violated |
| `queue` | 2 jobs, 2 workers, 2 executions of a job, 1 retry, 1 restart, symmetry; 650 k states | `TypeOK`, `JobKept`, `OneExecutor` | hold |
| `queue_progress` | 1 job, 2 workers, 3 executions, 1 retry, 1 resend, 1 restart, 1 loss of Redis, `FairSpec` | `DuplicateNeedsFault`, `SentIsFinal`, `EnqueuedIsExecuted`, `RetryIsExecuted`, `ImplementsJobDelivery` | hold |
| `queue_cooldown` | 1 job, 2 workers, as in `queue_progress`, `Spec` | `RetryNotBlockedByItself` | violated |
| `breaker` | 2 callers, `Timeout` 2, `CountTTL` 3, `MaxFailures` 2, Redis may fail, `FairSpec`; 540 k states | `TypeOK`, `OverruledOnlyByBlindCalls`, `OpenIsTemporary` | hold |
| `breaker_pause` | 3 callers, Redis answers | `PausesSends` | violated |
| `inbound` | 2 webhooks, 2 messages, 1 instance, 2 inboxes, 2 contacts, 2 conversations, faults, symmetry; 1.5 M states | `TypeOK`, `MarkedIsSettled`, `DuplicateNeedsOverlap`, `RoutedInbox` | hold |
| `inbound_duplicate` | 2 webhooks, 1 message, no faults | `NoDuplicate` | violated |
| `chatwoot_admin` | 2 requests of any kinds, 2 users, 2 webhooks, 3 events, 1 attribute, symmetry; 1.1 M states | `TypeOK`, `NoOrphanUser`, `ConfirmedAgentSpared`, `SyncSubscribes`, `MigrationOnlyAdds` | hold |
| `replies` | 2 webhooks, 2 messages, 2 instances, 1 inbox, 2 conversations, 1 reply, symmetry, no faults but the write of the attribute; 1.7 M states | `ReplyTypeOK`, `AnsweredWhereAsked` | hold |
| `meta` | 3 calls in three mixes, limit 1 per address and 1 or 2 a day, 1 lost answer per INCR, TTL 2, 2 versions of the row, 1 restart; 2.5 M states | `TypeOK`, `PassedWithinLimit`, `StaleAtMostTTL`, `StatusTracked` | hold |

### What the violations show

* `connection_qrtimeout`: `handleQRTimeout` reads the row, `Connected` commits,
  then the handler marks the row disconnected. The test
  `bridge_qr_timeout_test.go:37` and the comment at `bridge.go:709` say that a
  late QRTimeout does not do this; the test runs the two one after the other.
* `queue_cooldown`: every execution sets the recipient's cooldown of 300 s
  before it sends; the retry follows after 2, 4 or 8 s and is discarded as
  blocked. The retry queue that `docs/ui-dashboard-api-reference.md:1018`
  describes retries nothing at these values.
* `breaker_pause`: a success under way when the breaker opens closes it, so
  sends are not paused for the 30 s of `docs/ui-dashboard-api-reference.md:1019`.
* `inbound_duplicate`: two overlapping webhooks with one id both create the
  message, which the comment at `bridge.go:322` excludes.

### What the runs of `ChatwootAdmin` leave open

`ConfirmedAgentSpared` says what the rollback guards against and no more: of
two creates of one e-mail that overlap, both read a user without accounts, and
the rollback of one deletes the user that the other has linked. The comment at
`internal/models/chatwoot.go:34` takes an empty list of accounts as proof that
the user is new; under that overlap it is not.

### What the runs of `AgentReply` and `MetaApi` leave open

`AnsweredWhereAsked` is about replies to conversations whose attribute was
stored. `SetCustomAttribute` never reads the HTTP status
(`chatwoot_client.go:983-988`) and its error is dropped (`bridge.go:436-438`),
so `SetTag` may store nothing in any run, and a conversation without the
attribute is answered by the default number, which the property allows and
nothing in the code detects.

On how often that happens the repository disagrees with itself.
`docs/ui-dashboard-api-reference.md:1014` says that the name is written
("Gravado") in `custom_attributes.evolution_instance` of every conversation.
The comment at `internal/models/chatwoot.go:164-168` says that Chatwoot accepts
the request and silently discards a key that has no Custom Attribute
Definition; the code defines `profile_id` and `profile_slug`
(`admin_service.go:345-358`) and not `evolution_instance`. If the comment is
right and nobody defines the key by hand, no attribute is ever stored and every
answer leaves by the default number. Which of the two Chatwoot does is not in
this repository; the model allows both, for each write.

The property also allows any of the numbers that share a conversation: the
last webhook to write the attribute wins, even if its message is then not
forwarded.

`StatusTracked` names the window between Meta's answer and the `Set`
(`notify_meta.go:161-170`), in which a status is dropped. The comment at
`notify_meta.go:167` stores the wamid before logging so that the webhook finds
it; the window is shorter for that, not closed. `StaleAtMostTTL` has the
exception of a row that changed between the query and the `Store`.
`PassedWithinLimit` says that no more passes than the limit, not that a limit
ends. A counter is left without a time to live when its first call dies, when
its EXPIRE fails (LimitByIP's is cancelled when the client goes away), or when
the INCR counted and its answer was lost; past the limit it then refuses for
good. Nothing repairs a counter of an address; the day's counter goes when the
instance connects the next time or is deleted. The run reaches these states,
and the code promises nothing about them. Each `Connected` starts the day's
count afresh, so the limit is one per day and connection.

### What the run of `ConnectionLifecycle` leaves open

`RecreateGapPrivate` and `ExclusiveConnect` are about the gap after a delete
that was answered. A recreate that ends with an error may leave the instance
removed, with nobody about to create it: the delete was carried out and its
answer lost, or its repetition got a 404 (`admin_service.go:891-894`), or the
create failed (`admin_service.go:911-914`). The caller gets the error, and the
instance is missing until a later recreate succeeds, whose delete must first be
answered without one.

### Why the bounds are enough

The safety properties are proved for every bound (see Proofs), so the
instances matter for liveness, and for the mutations and violations to show
up. The run `connection` has two tasks, the least for an auto-reconnect and a
handler that overtakes it, and adds that every task ends. In the queue, two jobs and
two workers are enough for two executors of one job and for two jobs of one
recipient; one retry exercises
scheduling, rescheduling to zero and exhaustion, as the code treats every
positive `RetriesLeft` alike; one job is executed up to 3 times in
`queue_progress`, one more than its retries allow without a fault: a third
execution is a repetition, which is what its properties are about. Two jobs
(`queue`) are executed at most twice each, which is enough for a retry to
overlap with its first execution. In the breaker, two
callers suffice for the races of one call with a trip, and `CountTTL` >
`Timeout` as in the code (60 s and 30 s). In the inbound model, two
executions are the smallest overlap, two contacts and conversations the
smallest recovery from a deletion. For the replies, two numbers and two
messages are the least for two instances to meet in a conversation, and two
conversations for a recovery to a second one; agents, replies and webhooks
meet only there, so one reply suffices, and one inbox, as `inbound` shows that
messages keep to theirs. `replies` has text messages only: an unsupported one
differs in that nothing follows its attribute, as when a webhook has not yet
posted its message. For Meta, two sends and a status or a send and two
statuses are the least in which a status meets another call's row, cache or
counter; with a limit of 1 the second request of an address is already
refused, one lost answer makes the first count of a key 2 or its caller blind, and an entry of age 0 or 1 tells a fresh one from one at its last
tick. The daily counter shares no variable with the rest, so its three calls
run alone; three are one more than its largest limit. For the admin requests,
two creates are the smallest overlap; a third request that removes the agent
is the panel's removal, which is an action of its own, so that two requests
suffice for create, create, remove in every order; two users are one and its
successor. `CHECK_DEADLOCK FALSE` is set where the
tasks, jobs or webhooks of an instance are finite and the system rests after
them; the breaker never rests, and its runs check for deadlock.

### Fairness

* `ConnectionLifecycle`: weak fairness of each task that has started. Go runs
  every runnable goroutine; SQL, Redis and HTTP calls return an answer or an
  error. A task waits for the mutex with the others, and as tasks are used
  once, weak fairness is enough for each to get it (Go's mutex hands over to a
  waiter that starves). Nothing has to arrive.
* `NotificationQueue`: weak fairness of each worker and of the retry loop, and
  the score of a retry passes. Requests, expiry of the cooldown and faults are
  not fair.
* `CircuitBreaker`: the clock and the expiry of keys. Calls are not fair: a
  caller may hang for ever.
* The other modules state safety only.

## Proofs

Each proof is for every value of the constants: any number of tasks, workers,
callers, webhooks, calls or requests, and any bound. The theorems named
`Inductive` (`ReplyInductive`) are `Spec => []IInv`; the others follow from
them. Few of the properties are inductive as they stand; what strengthens them
is stated beside them in the component's module, where TLC
checked it on the run's instance before the proof was written. A step lemma
per part of `IInv` has a case per action, or per group of actions that leave
the part alone for the same reason.

| Module | Theorems | Property |
|---|---|---|
| `ConnectionLifecycle_proofs` | `TypeCorrect`, `ConnectMutualExclusion`, `RecreateIsolation`, `OvertakenAborts`, `ExclusiveConnectImplemented` | `TypeOK`, `OneConnectFlow`, `RecreateGapPrivate`, `OvertakenReconnectAborts`, `ImplementsExclusiveConnect` |
| `NotificationQueue_proofs` | `TypeCorrect`, `AcceptedIsKept`, `ExecutedByOne`, `NoOtherDuplicates`, `SentRowsRest`, `DeliveryImplemented` | `TypeOK`, `JobKept`, `OneExecutor`, `DuplicateNeedsFault`, `SentIsFinal`, `ImplementsJobDelivery` |
| `CircuitBreaker_proofs` | `TypeCorrect`, `TripHolds` | `TypeOK`, `OverruledOnlyByBlindCalls` |
| `InboundMessage_proofs` | `TypeCorrect`, `MarksSettled`, `NoOtherDuplicates`, `RoutedRight` | `TypeOK`, `MarkedIsSettled`, `DuplicateNeedsOverlap`, `RoutedInbox` |
| `AgentReply_proofs` | `ReplyTypeCorrect`, `AnsweredRight` | `ReplyTypeOK`, `AnsweredWhereAsked` |
| `MetaApi_proofs` | `TypeCorrect`, `LimitKept`, `StaleEnds`, `StatusesTracked` | `TypeOK`, `PassedWithinLimit`, `StaleAtMostTTL`, `StatusTracked` |
| `ChatwootAdmin_proofs` | `TypeCorrect`, `NoOrphanLeft`, `AgentSpared`, `SecretMeansSubscribed`, `MigrationAdds` | `TypeOK`, `NoOrphanUser`, `ConfirmedAgentSpared`, `SyncSubscribes`, `MigrationOnlyAdds` |

The assumptions are those the modules state and TLC evaluates: bounds are
numbers (and not zero where the code's are not), the values that stand for
nothing (`NoTask`, `NoJob`, `NoInbox`, `NoHook`, ...) are none of the things
they stand beside, the widget's subscriptions are events. `AnsweredRight` is
for any `Faults`; the run `replies` has it FALSE, because with it the instance
is beyond TLC's time.

### The connection lifecycle

`OneConnectFlow` says nothing of who holds the mutex, so a state with a task
in its critical section and the mutex free satisfies it and the next `Acquire`
breaks it; `RecreateGapPrivate` does not say who made the gap;
`OvertakenReconnectAborts` compares an epoch with a history that nothing
relates. The strengthening is

    IInv == TypeOK /\ LockHeld /\ GapOwned /\ EpochBehind

* `LockHeld`: a task in a connect flow is the holder. It gives mutual
  exclusion, since a holder is one task.
* `GapOwned`: Evolution GO lacks the instance exactly while some task is about
  to create it. That task is in the critical section, so by `LockHeld` no
  other task is, and every call to connect is made in it. The other direction
  is what the refinement needs: a create starts from a gap.
* `EpochBehind`: a captured epoch is at most the current one, and as long as
  it is equal, every task that overtook the auto-reconnect is still between
  its write and its bump. A bump makes the epochs of all who captured before
  it strictly smaller; a restart resets the epoch but ends every task.

The refinement follows the same cases: a step that leaves the lock and `evo`
alone is a stutter of `ExclusiveConnect` (`AbstractStutter`); acquiring and
releasing the mutex begin and end a flow (`AbstractBeginEnd`); the delete and
the create of a recreate are the holder's by `LockHeld` and `GapOwned`
(`AbstractDeleteCreate`); the restart is the crash. Most actions move one
program counter and leave the lock, the gap or the epoch alone, which
`OtherMoves`, `GapMoves`, `QuietMoves` and `CompareMoves` say once.

### The queue

All workers read under one consumer name and the retry loop works beside them,
without a lock. What keeps them apart is where a job is, so `IInv` adds to
`TypeOK` and `JobKept`:

* `LocalsFit`: what a goroutine's locals hold where it stands.
* `Untouched`: an entry is in the stream once, and a job that no worker has
  read is nowhere else.
* `OneOwner`: a job has one worker, and neither `retry:queue` nor the retry
  loop's batch knows the job before that worker's `ZADD`. From there the job
  is the retry loop's alone, because the stream has one entry for it. With
  `LocalsFit` this gives `OneExecutor`.
* `Scheduled`: who is about to XACK has scheduled a retry, settled the job or
  met a failed command. `JobKept` survives the XACK by it.
* `EndedRests`, `DeliveredOnce`, `SentEnded`: without a crash or a failed
  command nobody executes a settled job again, and a job that was delivered is
  settled or about to be marked. `DuplicateNeedsFault` and `SentIsFinal`
  follow.

The refinement maps a job's place: the stream, the pending entries, the hands
of a goroutine and the retry queue are all "kept". `Consume` of an entry and
the retry loop's `FetchRetry` are the abstract start of an execution, a POST
its send, the steps after the outcome its end; all the bookkeeping between
them stutters, which is where `OneOwner` and `Scheduled` are used: an end
leaves the job kept because it is scheduled, and a start is allowed because
nobody else executes it.

### The breaker

A trip's pause is measured by `tripAge`, which no key holds. `OpenLasts` ties
the TTL to it: the key open lives until `Timeout` after the trip. An informed
caller compares an `opened_at` no older than the trip (`InformedCompares`), so
it gets past `Allow` only after the pause (`InformedPasses`); who closes or
half-opens within the pause is therefore not informed.

### The inbound bridge and the replies

`OnRoute`: an execution past `Route` keeps an inbox, and the conversation it
has chosen is of that inbox and its contact, through appends, deletions and
the recovery from a 404; `RoutedInbox` follows. `SettledAtMark` and
`CreatedOnce` are the deduplication: without overlap and excuse one execution
carries an id, and once Chatwoot has the message that execution is at its mark
or the mark is set.

`ReplyIInv` adds that an attribute names an instance whose message was routed
to the conversation (`TagsNoted`, with `ChoicesNoted` for who is about to
write it) and that an attribute that was stored is there before the message
is, and stays (`TaggedFirst`). The step lemmas use those of `InboundMessage`:
a step of the composition is one of its steps or leaves its variables, the
agent's new conversation excepted.

### Meta

`PassedWithinLimit` does not say how many of the calls that passed the key
has counted. `OneWaits`: of the calls a key counted at most one has seen a
count of 1 and waits to set the time to live. `PassedCounted`: the calls let
through are no more than the count, and fewer by one while such a call waits,
so a later verdict, on a count, keeps the limit and leaves room for it; if the
key goes meanwhile, the call strays and is no longer the key's. `StaleByAge`: an
entry has not been out of date longer than it has been in the cache, and at
`TTL` it is dropped. `Tracked`: the id of an accepted message is in the store,
lost, or its sender is about to store it; a status is only about an accepted
message (`ReportsAccepted`, `PlacesFit`), so it finds the id in one of these.

### The admin requests

No lock separates concurrent requests, so each part says what a request's
memory still tells about Chatwoot.

* `OldUserKept`: a create that may not delete its user has one with an
  account, or one that is no longer live. Any step on a user keeps this: an
  account is taken away only with the deletion job started or another account
  left (`UserKept`). A failed link without rollback then leaves no orphan, and
  one with rollback stands at the rollback, which `NoOrphanUser` allows.
* `AgentsLinked`, `KnownIsOld`: a confirmed agent is in the account, so a
  create that finds one reads a user with an account.
* `ListedHook`: unless the panel edited the webhook since the request listed
  it, it is the same webhook and differs from the list at most in the widget's
  subscriptions, as other migrations only add those. Writing the merged list
  back then drops nothing, and leaves all that the widget needs.
* `OnTrack` says which kind of request stands where.

### Only model-checked

Liveness under fairness (`EveryTaskEnds`, `EnqueuedIsExecuted`,
`RetryIsExecuted`, `OpenIsTemporary`), which is outside the proof system's
reach. Every invariant, action property and refinement that a passing run
checks is proved.

## What is not modelled, and why

* `CreateInstance` is one request that shares no state with another: it creates
  the instance in Evolution GO, connects it and inserts the row. It logs the
  orphan a failed INSERT leaves as critical and promises nothing about it.
  From the INSERT on, its binding is what `Rebind` of `InboundMessage` does.
* The webhooks of Meta that carry customers' messages only write a log entry.
* Authentication, media decryption and the token cipher are pure functions of
  bytes or cryptography; configuration, metrics, health and wiring carry no
  protocol. The idempotency service is never called.
* Pending entries of a crashed worker are never executed again: `JobKept`
  counts them as kept, because the entry is still in Redis, and
  `RetryIsExecuted` excludes a job whose data a crash kept from the hash.

## Plan

1. Done: the components above, two refinements, and the proofs of every safety
   property and refinement that the runs check.
2. Abstract specifications that say in a few lines what the larger proofs
   establish piecemeal, with their refinements proved: of the inbound bridge
   (a message of an id is created, then marked) and of the breaker (pauses,
   and callers that a pause does not bind).
3. The token column in `ConnectionLifecycle`, for the health checker's lost
   update.
