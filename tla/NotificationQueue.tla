-------------------------- MODULE NotificationQueue --------------------------
(***************************************************************************)
(* The path of an outbound notification: POST /notify writes a row and     *)
(* appends a job to the Redis stream; the worker goroutines read the       *)
(* stream as one consumer of the group and execute the job; a job that     *)
(* fails goes to the sorted set retry:queue with its data in a hash, from  *)
(* where a single retry goroutine executes it again.                       *)
(*                                                                         *)
(* Each action is one Redis command, one UPDATE of the notification's row, *)
(* one call to Evolution GO or one policy check, so that a crash and every *)
(* other process fit between any two of them.  All jobs have the same      *)
(* instance and recipient: with other recipients they share no key.  The   *)
(* daily counter and the circuit breaker answer freely here; the breaker   *)
(* has a module of its own.                                                *)
(***************************************************************************)
EXTENDS Naturals, Sequences, SequencesExt

CONSTANTS
  Jobs,           \* one per recipient of a request, with a fresh UUID
  Workers,        \* goroutines running Consume, all named worker-1
  Retrier,        \* the goroutine running ProcessRetries
  NoJob, NoData,  \* absent values
  MaxRetries,     \* RetriesLeft of a new job: 3 in the code
  MaxResends,     \* RetryMax of the HTTP client: 3 in the code
  MaxExecutions,  \* bound: executions of one job that are explored
  MaxRestarts,    \* bound: crashes of the process
  MaxResets       \* bound: times Redis comes back empty

ASSUME NamesAssumption == Retrier \notin Workers /\ NoJob \notin Jobs
ASSUME BoundsAssumption ==
  /\ {MaxRetries, MaxExecutions} \subseteq Nat \ {0}
  /\ {MaxResends, MaxRestarts, MaxResets} \subseteq Nat
ASSUME NoDataAssumption == NoData \notin Nat

VARIABLES
  stage,       \* where SendMessage is with each job
  status,      \* the row of the notification; none before the INSERT
  stream,      \* entries of the stream the group has not delivered yet
  group,       \* does the consumer group exist
  pel,         \* the group's pending entries: delivered, not acknowledged
  retry,       \* retry:queue: is the job in it, and has its score passed
  hash,        \* the RetriesLeft saved under job:<id>
  cooldown,    \* the job that set the recipient's cooldown key, if it exists
  pc, job, left, outcome, resends,  \* the processes that execute jobs
  batch,       \* ids the retry goroutine read in this tick
  executions,  \* history: executions of each job
  delivered,   \* history: messages WhatsApp got for each job, 2 for more
  unanswered,  \* history: jobs whose delivered message got no answer
  ended,       \* history: jobs that were sent or discarded
  dropped,     \* history: jobs Redis lost, or the group was created past
  faulted,     \* history: jobs for which an unchecked Redis command failed
  restarts, resets

redis == <<stream, group, pel, retry, hash, cooldown>>
procs == <<pc, job, left, outcome, resends, batch>>
history == <<executions, delivered, unanswered, ended, dropped, faulted>>
bounds == <<restarts, resets>>
vars == <<stage, status, redis, procs, history, bounds>>

Processes == Workers \cup {Retrier}

At(p, l) == pc[p] = l
Goto(p, l) == pc' = [pc EXCEPT ![p] = l]

(* The process is inside ProcessSendMessage for a job.                     *)
Handling == {"find", "cooldown", "policy", "post", "mark"}
Executes(p, j) == pc[p] \in Handling /\ job[p] = j

(* The process is done with its job; its local variables are gone.         *)
Rest(p) ==
  /\ pc' = [pc EXCEPT ![p] = "poll"]
  /\ job' = [job EXCEPT ![p] = NoJob]
  /\ left' = [left EXCEPT ![p] = 0]

Init ==
  /\ stage = [j \in Jobs |-> "new"]
  /\ status = [j \in Jobs |-> "none"]
  /\ stream = <<>> /\ group = TRUE /\ pel = {}
  /\ retry = [j \in Jobs |-> "none"]
  /\ hash = [j \in Jobs |-> NoData]
  /\ cooldown = NoJob
  /\ pc = [p \in Processes |-> "poll"]
  /\ job = [p \in Processes |-> NoJob]
  /\ left = [p \in Processes |-> 0]
  /\ outcome = [p \in Processes |-> "none"]
  /\ resends = [p \in Processes |-> 0]
  /\ batch = {}
  /\ executions = [j \in Jobs |-> 0]
  /\ delivered = [j \in Jobs |-> 0]
  /\ unanswered = {} /\ ended = {} /\ dropped = {} /\ faulted = {}
  /\ restarts = 0 /\ resets = 0

(* An UPDATE of the row, whose error nobody looks at.                      *)
Report(j, s) == status' \in {[status EXCEPT ![j] = s], status}

----------------------------------------------------------------------------
(* SendMessage: the row first, then the job.  A failed INSERT ends the     *)
(* request; a failed XADD is reported in the row.                          *)
Create(j) ==
  /\ stage[j] = "new"
  /\ stage' = [stage EXCEPT ![j] = "created"]
  /\ status' = [status EXCEPT ![j] = "queued"]
  /\ UNCHANGED <<redis, procs, history, bounds>>

Enqueue(j) ==
  /\ stage[j] = "created"
  /\ stage' = [stage EXCEPT ![j] = "enqueued"]
  /\ stream' = Append(stream, j)
  /\ UNCHANGED <<status, group, pel, retry, hash, cooldown, procs, history, bounds>>

EnqueueFails(j) ==
  /\ stage[j] = "created"
  /\ stage' = [stage EXCEPT ![j] = "refused"]
  /\ Report(j, "failed")
  /\ UNCHANGED <<redis, procs, history, bounds>>

----------------------------------------------------------------------------
(* Start executing job j with n retries left.                              *)
Start(p, j, n) ==
  /\ job' = [job EXCEPT ![p] = j]
  /\ left' = [left EXCEPT ![p] = n]
  /\ UNCHANGED <<outcome, resends>>
  /\ executions' = [executions EXCEPT ![j] = @ + 1]
  /\ Goto(p, "find")

(* XREADGROUP with ">" and COUNT 1: the entry becomes pending.             *)
MutConsume(w) ==
  /\ At(w, "poll") /\ group
  /\ \E j \in ToSet(stream) \cup pel :
       /\ executions[j] < MaxExecutions
       /\ stream' = Remove(stream, j)
       /\ pel' = pel \cup {j}
       /\ Start(w, j, MaxRetries)
  /\ UNCHANGED <<stage, status, group, retry, hash, cooldown, batch, delivered,
                 unanswered, ended, dropped, faulted, bounds>>

Consume(w) ==
  /\ At(w, "poll") /\ group /\ stream # <<>>
  /\ stream' = Tail(stream)
  /\ pel' = pel \cup {Head(stream)}
  /\ Start(w, Head(stream), MaxRetries)
  /\ UNCHANGED <<stage, status, group, retry, hash, cooldown, batch, delivered,
                 unanswered, ended, dropped, faulted, bounds>>

(* XGROUP CREATE at "$", the end of the stream: an error if it exists.     *)
CreateGroup ==
  /\ group' = TRUE
  /\ stream' = IF group THEN stream ELSE <<>>
  /\ dropped' = IF group THEN dropped ELSE dropped \cup ToSet(stream)

(* NOGROUP: the group is created again.                                    *)
MutRecreateGroup(w) ==
  /\ At(w, "poll") /\ ~group
  /\ UNCHANGED vars

RecreateGroup(w) ==
  /\ At(w, "poll") /\ ~group
  /\ CreateGroup
  /\ UNCHANGED <<stage, status, pel, retry, hash, cooldown, procs, executions,
                 delivered, unanswered, ended, faulted, bounds>>

(* Every second: ZRANGEBYSCORE up to now, then the ids one by one.         *)
ScanRetries ==
  /\ At(Retrier, "poll") /\ batch = {}
  /\ batch' = {j \in Jobs : retry[j] = "due"}
  /\ batch' # {}
  /\ UNCHANGED <<stage, status, redis, pc, job, left, outcome, resends, history, bounds>>

MutFetchRetry(j) ==
  /\ At(Retrier, "poll") /\ j \in batch
  /\ hash[j] # NoData /\ executions[j] < MaxExecutions
  /\ Start(Retrier, j, hash[j])
  /\ UNCHANGED <<stage, status, redis, batch, delivered, unanswered, ended, dropped,
                 faulted, bounds>>

FetchRetry(j) ==
  /\ At(Retrier, "poll") /\ j \in batch
  /\ batch' = batch \ {j}
  /\ \/ /\ hash[j] # NoData
        /\ executions[j] < MaxExecutions
        /\ Start(Retrier, j, hash[j])
     \/ /\ hash[j] = NoData \/ executions[j] = MaxExecutions
        /\ UNCHANGED <<pc, job, left, outcome, resends, executions>>
  /\ UNCHANGED <<stage, status, redis, delivered, unanswered, ended, dropped,
                 faulted, bounds>>

----------------------------------------------------------------------------
(* ProcessSendMessage.  Each check either lets the job pass or decides     *)
(* that it is discarded; what the row will say is decided with it.         *)
Decide(p, o) == outcome' = [outcome EXCEPT ![p] = o] /\ Goto(p, "mark")

FindInstance(p) ==
  /\ At(p, "find")
  /\ \/ Goto(p, "cooldown") /\ UNCHANGED outcome
     \/ Decide(p, "unknown")
  /\ UNCHANGED <<stage, status, redis, job, left, resends, batch, history, bounds>>

(* SET NX of the recipient's cooldown key; an error blocks as well.        *)
CheckCooldown(p) ==
  /\ At(p, "cooldown")
  /\ \/ cooldown = NoJob /\ cooldown' = job[p] /\ Goto(p, "policy") /\ UNCHANGED outcome
     \/ cooldown # NoJob /\ Decide(p, "blocked") /\ UNCHANGED cooldown
     \/ Decide(p, "blocked") /\ UNCHANGED cooldown
  /\ UNCHANGED <<stage, status, stream, group, pel, retry, hash, job, left, resends,
                 batch, history, bounds>>

(* The daily counter of the instance, then the circuit breaker: what they  *)
(* keep is read and written by no other action here.                       *)
CheckPolicy(p) ==
  /\ At(p, "policy")
  /\ \/ Goto(p, "post") /\ UNCHANGED outcome
     \/ Decide(p, "blocked")
  /\ UNCHANGED <<stage, status, redis, job, left, resends, batch, history, bounds>>

(* One POST to Evolution GO.  The message may go out although no answer    *)
(* comes back; the HTTP client posts again up to MaxResends times on a     *)
(* transport error or a 5xx, and gives up at once on a 4xx.                *)
Post(p) ==
  LET j == job[p]
      Deliver == delivered' = [delivered EXCEPT ![j] = IF @ < 2 THEN @ + 1 ELSE 2]
  IN
  /\ At(p, "post")
  /\ \/ /\ Deliver /\ Decide(p, "ok") /\ UNCHANGED unanswered
        /\ resends' = [resends EXCEPT ![p] = 0]
     \/ /\ \/ Deliver /\ unanswered' = unanswered \cup {j}
           \/ UNCHANGED <<delivered, unanswered>>
        /\ \/ /\ resends[p] < MaxResends
              /\ resends' = [resends EXCEPT ![p] = @ + 1]
              /\ UNCHANGED <<pc, outcome>>
           \/ Decide(p, "error") /\ resends' = [resends EXCEPT ![p] = 0]
  /\ UNCHANGED <<stage, status, redis, job, left, batch, executions, ended, dropped,
                 faulted, bounds>>

MutRetryable(p) == outcome[p] = "error"
Retryable(p) == outcome[p] = "error" /\ left[p] > 0

StatusOf == [ok |-> "sent", error |-> "failed", unknown |-> "failed",
             blocked |-> "blocked"]

(* UpdateStatus, and the return of the handler to its caller.  A worker    *)
(* acknowledges unless it first schedules a retry; the retry goroutine     *)
(* removes the entry, reschedules it, or leaves it when no retry is left.  *)
Mark(p) ==
  LET o == outcome[p] IN
  /\ At(p, "mark")
  /\ Report(job[p], StatusOf[o])
  /\ ended' = IF o = "error" THEN ended ELSE ended \cup {job[p]}
  /\ outcome' = [outcome EXCEPT ![p] = "none"]
  /\ \/ Retryable(p) /\ Goto(p, "zadd") /\ UNCHANGED <<job, left>>
     \/ ~Retryable(p) /\ p \in Workers /\ Goto(p, "ack") /\ UNCHANGED <<job, left>>
     \/ ~Retryable(p) /\ p = Retrier /\ o = "error" /\ Rest(p)
     \/ p = Retrier /\ o # "error" /\ Goto(p, "zrem") /\ UNCHANGED <<job, left>>
  /\ UNCHANGED <<stage, redis, resends, batch, executions, delivered, unanswered,
                 dropped, faulted, bounds>>

----------------------------------------------------------------------------
(* The bookkeeping after an execution.  No caller looks at the error of    *)
(* these commands: each one may also have no effect.                       *)
MutScheduleRetry(p) ==
  /\ At(p, "zadd")
  /\ pel' = pel \ {job[p]}
  /\ left' = [left EXCEPT ![p] = @ - 1]
  /\ Goto(p, "hset")
  /\ UNCHANGED <<stage, status, stream, group, retry, hash, cooldown, job, outcome,
                 resends, batch, history, bounds>>

ScheduleRetry(p) ==
  /\ At(p, "zadd")
  /\ left' = [left EXCEPT ![p] = @ - 1]
  /\ \/ retry' = [retry EXCEPT ![job[p]] = "waiting"] /\ UNCHANGED faulted
     \/ faulted' = faulted \cup {job[p]} /\ UNCHANGED retry
  /\ Goto(p, "hset")
  /\ UNCHANGED <<stage, status, stream, group, pel, hash, cooldown, job, outcome,
                 resends, batch, executions, delivered, unanswered, ended, dropped, bounds>>

MutSaveJob(p) ==
  /\ At(p, "hset")
  /\ \/ p \in Workers /\ Goto(p, "ack") /\ UNCHANGED <<job, left>>
     \/ p = Retrier /\ Rest(p)
  /\ UNCHANGED <<stage, status, redis, outcome, resends, batch, history, bounds>>

SaveJob(p) ==
  /\ At(p, "hset")
  /\ \/ hash' = [hash EXCEPT ![job[p]] = left[p]] /\ UNCHANGED faulted
     \/ faulted' = faulted \cup {job[p]} /\ UNCHANGED hash
  /\ \/ p \in Workers /\ Goto(p, "ack") /\ UNCHANGED <<job, left>>
     \/ p = Retrier /\ Rest(p)
  /\ UNCHANGED <<stage, status, stream, group, pel, retry, cooldown, outcome, resends,
                 batch, executions, delivered, unanswered, ended, dropped, bounds>>

Acknowledge(p) ==
  /\ At(p, "ack")
  /\ \/ pel' = pel \ {job[p]} /\ UNCHANGED faulted
     \/ faulted' = faulted \cup {job[p]} /\ UNCHANGED pel
  /\ Rest(p)
  /\ UNCHANGED <<stage, status, stream, group, retry, hash, cooldown, outcome, resends,
                 batch, executions, delivered, unanswered, ended, dropped, bounds>>

(* ZREM; the HDEL that follows names no field and Redis refuses it, so the *)
(* hash stays.                                                             *)
MutForget(p) ==
  /\ At(p, "zrem")
  /\ Rest(p)
  /\ UNCHANGED <<stage, status, redis, outcome, resends, batch, history, bounds>>

Forget(p) ==
  /\ At(p, "zrem")
  /\ \/ retry' = [retry EXCEPT ![job[p]] = "none"] /\ UNCHANGED faulted
     \/ faulted' = faulted \cup {job[p]} /\ UNCHANGED retry
  /\ Rest(p)
  /\ UNCHANGED <<stage, status, stream, group, pel, hash, cooldown, outcome, resends,
                 batch, executions, delivered, unanswered, ended, dropped, bounds>>

----------------------------------------------------------------------------
(* Time: the score of a retry passes; the cooldown key expires.            *)
RetryFallsDue(j) ==
  /\ retry[j] = "waiting"
  /\ retry' = [retry EXCEPT ![j] = "due"]
  /\ UNCHANGED <<stage, status, stream, group, pel, hash, cooldown, procs, history, bounds>>

CooldownExpires ==
  /\ cooldown # NoJob
  /\ cooldown' = NoJob
  /\ UNCHANGED <<stage, status, stream, group, pel, retry, hash, procs, history, bounds>>

(* The process dies and starts again (NewRedisQueue creates the group if   *)
(* need be).  Pending entries stay pending: no consumer reads or claims    *)
(* them.  A request cut between its INSERT and its XADD leaves the row     *)
(* queued for good.                                                        *)
Restart ==
  /\ restarts < MaxRestarts
  /\ restarts' = restarts + 1
  /\ stage' = [j \in Jobs |-> IF stage[j] = "created" THEN "refused" ELSE stage[j]]
  /\ pc' = [p \in Processes |-> "poll"]
  /\ job' = [p \in Processes |-> NoJob]
  /\ left' = [p \in Processes |-> 0]
  /\ outcome' = [p \in Processes |-> "none"]
  /\ resends' = [p \in Processes |-> 0]
  /\ batch' = {}
  /\ CreateGroup
  /\ UNCHANGED <<status, pel, retry, hash, cooldown, executions, delivered, unanswered,
                 ended, faulted, resets>>

(* Redis comes back without its data, the consumer group included.         *)
RedisReset ==
  /\ resets < MaxResets
  /\ resets' = resets + 1
  /\ dropped' = dropped \cup {j \in Jobs : stage[j] = "enqueued"}
  /\ stream' = <<>> /\ group' = FALSE /\ pel' = {} /\ cooldown' = NoJob
  /\ retry' = [j \in Jobs |-> "none"]
  /\ hash' = [j \in Jobs |-> NoData]
  /\ UNCHANGED <<stage, status, procs, executions, delivered, unanswered, ended,
                 faulted, restarts>>

Request(j) == Create(j) \/ Enqueue(j) \/ EnqueueFails(j)

Execute(p) ==
  \/ FindInstance(p) \/ CheckCooldown(p) \/ CheckPolicy(p) \/ Post(p) \/ Mark(p)
  \/ ScheduleRetry(p) \/ SaveJob(p) \/ Acknowledge(p) \/ Forget(p)

Worker(w) == Consume(w) \/ RecreateGroup(w) \/ Execute(w)

RetryLoop == ScanRetries \/ (\E j \in Jobs : FetchRetry(j)) \/ Execute(Retrier)

Next ==
  \/ \E j \in Jobs : Request(j) \/ RetryFallsDue(j)
  \/ \E w \in Workers : Worker(w)
  \/ RetryLoop
  \/ CooldownExpires \/ Restart \/ RedisReset

Spec == Init /\ [][Next]_vars

(* The goroutines run, their calls return, and the clock moves on.         *)
Fairness ==
  /\ \A w \in Workers : WF_vars(Worker(w))
  /\ WF_vars(RetryLoop)
  /\ \A j \in Jobs : WF_vars(RetryFallsDue(j))

FairSpec == Spec /\ Fairness

----------------------------------------------------------------------------
(* The types of what is in Redis, in the goroutines and in the histories.  *)
RedisTypes ==
  /\ stream \in Seq(Jobs) /\ group \in BOOLEAN /\ pel \subseteq Jobs
  /\ retry \in [Jobs -> {"none", "waiting", "due"}]
  /\ hash \in [Jobs -> 0..MaxRetries \cup {NoData}]
  /\ cooldown \in Jobs \cup {NoJob}

ProcessTypes ==
  /\ pc \in [Processes -> Handling \cup {"poll", "zadd", "hset", "ack", "zrem"}]
  /\ job \in [Processes -> Jobs \cup {NoJob}]
  /\ left \in [Processes -> 0..MaxRetries]
  /\ outcome \in [Processes -> {"none", "ok", "error", "unknown", "blocked"}]
  /\ resends \in [Processes -> 0..MaxResends]
  /\ batch \subseteq Jobs

HistoryTypes ==
  /\ executions \in [Jobs -> 0..MaxExecutions]
  /\ delivered \in [Jobs -> 0..2]
  /\ unanswered \subseteq Jobs /\ ended \subseteq Jobs
  /\ dropped \subseteq Jobs /\ faulted \subseteq Jobs
  /\ restarts \in 0..MaxRestarts /\ resets \in 0..MaxResets

(* Type invariant.                                                         *)
TypeOK ==
  /\ stage \in [Jobs -> {"new", "created", "enqueued", "refused"}]
  /\ status \in [Jobs -> {"none", "queued", "sent", "failed", "blocked"}]
  /\ RedisTypes /\ ProcessTypes /\ HistoryTypes

(* A job that the API accepted is in the stream, pending or in the retry   *)
(* queue until it is sent or discarded, whenever the process crashes: it   *)
(* vanishes only if Redis loses its data, if the group is created past it  *)
(* or if an unchecked Redis command fails for it (Consume: ZADD and HSET   *)
(* come before XACK; ProcessRetries: ZREM comes last).                     *)
JobKept ==
  \A j \in Jobs : stage[j] = "enqueued" =>
    \/ j \in ToSet(stream) \cup pel \/ retry[j] # "none"
    \/ j \in ended \cup dropped \cup faulted

(* No two goroutines execute the same job at once, although all workers    *)
(* read under one consumer name and the retry loop runs beside them.       *)
OneExecutor ==
  \A p, q \in Processes, j \in Jobs : Executes(p, j) /\ Executes(q, j) => p = q

(* The recipient gets a notification twice only because an answer was lost *)
(* on the way back, the process crashed, or the ZREM of the job failed.    *)
DuplicateNeedsFault ==
  \A j \in Jobs : delivered[j] > 1 => j \in unanswered \cup faulted \/ restarts > 0

(* A row that says sent is overwritten only after a crash between the send *)
(* and the ZREM, or a failed ZREM: the repeated job is then blocked by the *)
(* cooldown it set itself (UpdateStatus has no condition on the old value).*)
SentIsFinal ==
  [][\A j \in Jobs : status[j] = "sent" /\ status'[j] # "sent"
       => restarts > 0 \/ j \in faulted]_vars

(* A job appended to the stream is executed, unless Redis lost it or the   *)
(* group was created past it: the workers survive NOGROUP.                 *)
EnqueuedIsExecuted ==
  \A j \in Jobs : stage[j] = "enqueued" ~> executions[j] > 0 \/ j \in dropped

(* A job in the retry queue is executed again, crashes included, except    *)
(* for one that a crash left without its data (it is still pending then).  *)
RetryIsExecuted ==
  \A j \in Jobs :
    retry[j] # "none" /\ j \notin pel /\ executions[j] < MaxExecutions
      ~> Executes(Retrier, j) \/ j \in ended \cup faulted \cup dropped

(* The abstract view of a job: kept by the structures of Redis, by the ids *)
(* the retry goroutine has read or by a goroutine that works on it.        *)
Kept(j) ==
  \/ j \in ToSet(stream) \cup pel \cup batch \/ retry[j] # "none"
  \/ \E p \in Processes : job[p] = j

Place(j) ==
  IF stage[j] = "refused" THEN "refused"
  ELSE IF stage[j] # "enqueued" THEN "outside"
  ELSE IF j \in ended THEN "settled"
  ELSE IF Kept(j) THEN "kept" ELSE "lost"

Delivery == INSTANCE JobDelivery WITH
  Executors <- Processes,
  place <- [j \in Jobs |-> Place(j)],
  executors <- [j \in Jobs |-> {p \in Processes : Executes(p, j)}],
  copies <- delivered,
  troubled <- dropped \cup faulted,
  crashed <- restarts > 0

(* The stream, the group, the pending list, the sorted set and the hash,   *)
(* with two kinds of goroutines working on them, implement what a caller   *)
(* of /notify relies on: one executor at a time, messages only from it, a  *)
(* settled or lost job left alone (Consume, ProcessRetries).               *)
ImplementsJobDelivery == Delivery!Spec

(* The inductive strengthening the proofs use.  The local variables of a   *)
(* process fit the place where it is.                                      *)
LocalsFit ==
  \A p \in Processes :
    /\ At(p, "poll") <=> job[p] = NoJob
    /\ job[p] \in Jobs => stage[job[p]] = "enqueued"
    /\ At(p, "mark") => outcome[p] # "none"
    /\ At(p, "zadd") => left[p] > 0
    /\ At(p, "zrem") => p = Retrier /\ job[p] \in ended
    /\ At(p, "ack") => p \in Workers
    /\ p \in Workers /\ pc[p] \in Handling => left[p] = MaxRetries

(* A job that no request has appended, or no worker has read, is nowhere   *)
(* else, and it is in the stream once.                                     *)
Untouched ==
  /\ IsInjective(stream)
  /\ \A j \in ToSet(stream) : stage[j] = "enqueued"
  /\ \A j \in Jobs : stage[j] # "enqueued" \/ j \in ToSet(stream) =>
       /\ executions[j] = 0 /\ delivered[j] = 0
       /\ retry[j] = "none" /\ j \notin pel \cup batch \cup ended
       /\ \A p \in Processes : job[p] # j

(* A job has one worker at most, and the retry queue and the goroutine     *)
(* that reads it do not know the job before that worker has scheduled it.  *)
OneOwner ==
  /\ \A v, w \in Workers : job[v] = job[w] /\ job[v] # NoJob => v = w
  /\ \A w \in Workers : pc[w] \in Handling \cup {"zadd"} =>
       retry[job[w]] = "none" /\ job[w] \notin batch /\ job[w] # job[Retrier]
  /\ job[Retrier] \notin batch

(* What a worker is about to acknowledge is kept elsewhere or done with.   *)
Scheduled ==
  \A w \in Workers : pc[w] \in {"hset", "ack"} =>
    retry[job[w]] # "none" \/ job[w] \in ended \cup dropped \cup faulted

(* A job that was sent or discarded is left alone, unless a crash or a     *)
(* failed command got in between.                                          *)
EndedRests ==
  restarts = 0 => \A j \in ended \ faulted :
    /\ j \notin batch
    /\ \A w \in Workers : job[w] = j => pc[w] \in {"hset", "ack"}
    /\ job[Retrier] = j => At(Retrier, "zrem")
    /\ retry[j] = "none" \/ job[Retrier] = j

(* Without those and without lost answers a delivered job is one that was  *)
(* sent, or that its executor is about to mark as sent.                    *)
DeliveredOnce ==
  \A j \in Jobs : restarts = 0 /\ delivered[j] > 0 /\ j \notin unanswered \cup faulted =>
    /\ delivered[j] = 1
    /\ \/ j \in ended
       \/ \E p \in Processes : At(p, "mark") /\ job[p] = j /\ outcome[p] = "ok"

SentEnded == \A j \in Jobs : status[j] = "sent" => j \in ended

IInv ==
  /\ TypeOK /\ JobKept
  /\ LocalsFit /\ Untouched /\ OneOwner /\ Scheduled
  /\ EndedRests /\ DeliveredOnce /\ SentEnded

(* What docs/ui-dashboard-api-reference.md:1018 says of the retry queue: a *)
(* failed job waits there for its reprocessing.  The cooldown its failed   *)
(* execution set is then no reason to discard it.                          *)
RetryNotBlockedByItself ==
  [][\A p \in Processes : At(p, "cooldown") /\ cooldown = job[p]
       => outcome'[p] # "blocked"]_vars

=============================================================================
