---------------------- MODULE NotificationQueue_proofs ----------------------
(***************************************************************************)
(* Theorems about NotificationQueue, for any jobs, any number of workers   *)
(* and any bounds.                                                         *)
(***************************************************************************)
EXTENDS NotificationQueue, TLAPS, SequenceTheorems

----------------------------------------------------------------------------
(* What the stream holds when an entry is appended, read or dropped.       *)
LEMMA AppendToStream ==
  ASSUME NEW S, NEW s \in Seq(S), NEW e \in S
  PROVE  /\ Append(s, e) \in Seq(S)
         /\ ToSet(Append(s, e)) = ToSet(s) \cup {e}
         /\ IsInjective(s) /\ e \notin ToSet(s) => IsInjective(Append(s, e))
  BY AppendProperties DEF ToSet, IsInjective

(* The entry a group reads is the first, and is then gone.                 *)
LEMMA ReadFromStream ==
  ASSUME NEW S, NEW s \in Seq(S), s # <<>>
  PROVE  /\ Head(s) \in S /\ Head(s) \in ToSet(s)
         /\ Tail(s) \in Seq(S)
         /\ ToSet(Tail(s)) \subseteq ToSet(s)
         /\ IsInjective(s) => Head(s) \notin ToSet(Tail(s)) /\ IsInjective(Tail(s))
  BY HeadTailProperties, LenProperties, EmptySeq DEF ToSet, IsInjective

(* A dropped stream holds nothing.                                         *)
LEMMA EmptyStream ==
  ASSUME NEW S
  PROVE  <<>> \in Seq(S) /\ ToSet(<<>>) = {} /\ IsInjective(<<>>)
  BY DEF ToSet, IsInjective

(* A stream holds nothing but jobs.                                        *)
LEMMA StreamEntries ==
  ASSUME NEW S, NEW s \in Seq(S)
  PROVE  ToSet(s) \subseteq S
  BY LenProperties DEF ToSet

----------------------------------------------------------------------------
(* A process that is not polling works on a job some request appended.     *)
LEMMA Working ==
  ASSUME ProcessTypes, LocalsFit, NEW p \in Processes, pc[p] # "poll"
  PROVE  job[p] \in Jobs /\ stage[job[p]] = "enqueued"
  BY DEF ProcessTypes, LocalsFit, At

(* The bounds are numbers.                                                 *)
LEMMA Bounds ==
  /\ MaxRetries \in Nat \ {0} /\ MaxExecutions \in Nat \ {0}
  /\ MaxResends \in Nat /\ MaxRestarts \in Nat /\ MaxResets \in Nat
  BY BoundsAssumption

(* The structures in Redis keep their types.                               *)
LEMMA RedisTypesStep ==
  ASSUME IInv, [Next]_vars
  PROVE  RedisTypes'
<1> USE DEF redis
<1>1. RedisTypes /\ ProcessTypes /\ LocalsFit
  BY DEF IInv, TypeOK
<1>2. ASSUME NEW j \in Jobs, Request(j) \/ RetryFallsDue(j) PROVE RedisTypes'
  <2>1. CASE Create(j) \/ EnqueueFails(j)
    BY <1>1, <2>1 DEF Create, EnqueueFails, RedisTypes
  <2>2. CASE Enqueue(j)
    <3>1. stream' \in Seq(Jobs)
      BY <1>1, <2>2, AppendToStream DEF Enqueue, RedisTypes
    <3>2. QED
      BY <1>1, <2>2, <3>1 DEF Enqueue, RedisTypes
  <2>3. CASE RetryFallsDue(j)
    BY <1>1, <2>3 DEF RetryFallsDue, RedisTypes
  <2>4. QED
    BY <1>2, <2>1, <2>2, <2>3 DEF Request
<1>3. ASSUME NEW w \in Workers, Consume(w) PROVE RedisTypes'
  <2>1. Head(stream) \in Jobs /\ stream' \in Seq(Jobs)
    BY <1>1, <1>3, ReadFromStream DEF Consume, RedisTypes
  <2>2. QED
    BY <1>1, <1>3, <2>1 DEF Consume, RedisTypes
<1>4. CASE CreateGroup /\ UNCHANGED <<pel, retry, hash, cooldown>>
  <2>1. stream' \in Seq(Jobs) /\ group' \in BOOLEAN
    BY <1>1, <1>4, EmptyStream DEF CreateGroup, RedisTypes
  <2>2. QED
    BY <1>1, <1>4, <2>1 DEF RedisTypes
<1>5. CASE ScanRetries \/ \E j \in Jobs : FetchRetry(j)
  BY <1>1, <1>5 DEF ScanRetries, FetchRetry, RedisTypes
<1>6. ASSUME NEW p \in Processes, Execute(p) PROVE RedisTypes'
  <2>1. pc[p] # "poll"
    BY <1>6 DEF Execute, FindInstance, CheckCooldown, CheckPolicy, Post, Mark,
       ScheduleRetry, SaveJob, Acknowledge, Forget, At
  <2>2. job[p] \in Jobs /\ left[p] \in 0..MaxRetries
    BY <1>1, <2>1, Working DEF ProcessTypes
  <2>3. CASE FindInstance(p) \/ CheckCooldown(p) \/ CheckPolicy(p) \/ Post(p) \/ Mark(p)
    BY <1>1, <2>2, <2>3 DEF FindInstance, CheckCooldown, CheckPolicy, Post, Mark, RedisTypes
  <2>4. CASE ScheduleRetry(p) \/ SaveJob(p) \/ Acknowledge(p) \/ Forget(p)
    BY <1>1, <2>2, <2>4 DEF ScheduleRetry, SaveJob, Acknowledge, Forget, RedisTypes
  <2>5. QED
    BY <1>6, <2>3, <2>4 DEF Execute
<1>7. CASE CooldownExpires \/ UNCHANGED vars
  BY <1>1, <1>7 DEF CooldownExpires, vars, RedisTypes
<1>8. CASE RedisReset
  BY <1>1, <1>8, EmptyStream DEF RedisReset, RedisTypes
<1>9. QED
  BY <1>2, <1>3, <1>4, <1>5, <1>6, <1>7, <1>8
  DEF Next, Worker, RetryLoop, RecreateGroup, Restart, Processes

(* A process that starts a job is inside ProcessSendMessage for it.        *)
LEMMA StartTypes ==
  ASSUME ProcessTypes, NEW p \in Processes, NEW j \in Jobs, NEW n \in 0..MaxRetries,
         Start(p, j, n), batch' \subseteq Jobs
  PROVE  ProcessTypes'
<1> USE DEF ProcessTypes, Start
<1>1. pc' \in [Processes -> Handling \cup {"poll", "zadd", "hset", "ack", "zrem"}]
  BY DEF Goto, Handling
<1>2. job' \in [Processes -> Jobs \cup {NoJob}] /\ left' \in [Processes -> 0..MaxRetries]
  OBVIOUS
<1>3. QED
  BY <1>1, <1>2

(* The local variables of the goroutines keep their types.                 *)
LEMMA ProcessTypesStep ==
  ASSUME IInv, [Next]_vars
  PROVE  ProcessTypes'
<1> USE Bounds DEF procs, Goto, Handling
<1>1. RedisTypes /\ ProcessTypes /\ LocalsFit
  BY DEF IInv, TypeOK
<1>2. CASE UNCHANGED procs
  BY <1>1, <1>2 DEF ProcessTypes
<1>3. ASSUME NEW w \in Workers, Consume(w) PROVE ProcessTypes'
  <2>1. Head(stream) \in Jobs
    BY <1>1, <1>3, ReadFromStream DEF Consume, RedisTypes
  <2>2. Start(w, Head(stream), MaxRetries) /\ UNCHANGED batch
    BY <1>3 DEF Consume
  <2>3. QED
    BY <1>1, <2>1, <2>2, StartTypes DEF ProcessTypes, Processes
<1>4. CASE ScanRetries
  BY <1>1, <1>4 DEF ScanRetries, ProcessTypes
<1>5. ASSUME NEW j \in Jobs, FetchRetry(j) PROVE ProcessTypes'
  <2>1. batch' \subseteq Jobs
    BY <1>1, <1>5 DEF FetchRetry, ProcessTypes
  <2>2. CASE hash[j] # NoData /\ Start(Retrier, j, hash[j])
    BY <1>1, <2>1, <2>2, StartTypes DEF RedisTypes, Processes
  <2>3. CASE UNCHANGED <<pc, job, left, outcome, resends>>
    BY <1>1, <2>1, <2>3 DEF ProcessTypes
  <2>4. QED
    BY <1>5, <2>2, <2>3 DEF FetchRetry
<1>6. ASSUME NEW p \in Processes, Execute(p) PROVE ProcessTypes'
  <2>1. CASE FindInstance(p) \/ CheckCooldown(p) \/ CheckPolicy(p)
    BY <1>1, <2>1 DEF FindInstance, CheckCooldown, CheckPolicy, Decide, ProcessTypes
  <2>2. CASE Post(p)
    BY <1>1, <2>2 DEF Post, Decide, ProcessTypes
  <2>3. CASE Mark(p)
    BY <1>1, <2>3 DEF Mark, Rest, ProcessTypes
  <2>4. CASE ScheduleRetry(p)
    BY <1>1, <2>4 DEF ScheduleRetry, LocalsFit, At, ProcessTypes
  <2>5. CASE SaveJob(p) \/ Acknowledge(p) \/ Forget(p)
    BY <1>1, <2>5 DEF SaveJob, Acknowledge, Forget, Rest, ProcessTypes
  <2>6. QED
    BY <1>6, <2>1, <2>2, <2>3, <2>4, <2>5 DEF Execute
<1>7. CASE Restart
  BY <1>1, <1>7 DEF Restart, ProcessTypes
<1>8. QED
  BY <1>2, <1>3, <1>4, <1>5, <1>6, <1>7
  DEF Next, Request, Create, Enqueue, EnqueueFails, RetryFallsDue, Worker, RecreateGroup,
      RetryLoop, CooldownExpires, RedisReset, vars, Processes

(* The histories and the bounds keep their types.                          *)
LEMMA HistoryTypesStep ==
  ASSUME IInv, [Next]_vars
  PROVE  HistoryTypes'
<1> USE Bounds DEF history, bounds
<1>1. RedisTypes /\ ProcessTypes /\ HistoryTypes /\ LocalsFit /\ Untouched
  BY DEF IInv, TypeOK
<1>2. CASE UNCHANGED <<history, bounds>>
  BY <1>1, <1>2 DEF HistoryTypes
<1>3. ASSUME NEW w \in Workers, Consume(w) PROVE HistoryTypes'
  <2>1. Head(stream) \in Jobs /\ executions[Head(stream)] = 0
    BY <1>1, <1>3, ReadFromStream DEF Consume, RedisTypes, Untouched
  <2>2. QED
    BY <1>1, <1>3, <2>1 DEF Consume, Start, HistoryTypes
<1>4. CASE CreateGroup /\ UNCHANGED <<executions, delivered, unanswered, ended, faulted, resets>>
           /\ restarts' \in 0..MaxRestarts
  BY <1>1, <1>4, StreamEntries DEF CreateGroup, HistoryTypes, RedisTypes
<1>5. ASSUME NEW j \in Jobs, FetchRetry(j) PROVE HistoryTypes'
  BY <1>1, <1>5 DEF FetchRetry, Start, HistoryTypes
<1>6. ASSUME NEW p \in Processes, Post(p) \/ Mark(p) \/ ScheduleRetry(p) \/ SaveJob(p)
                                  \/ Acknowledge(p) \/ Forget(p)
      PROVE  HistoryTypes'
  <2>1. job[p] \in Jobs
    BY <1>1, <1>6, Working DEF Post, Mark, ScheduleRetry, SaveJob, Acknowledge, Forget, At
  <2>2. CASE Post(p)
    BY <1>1, <2>1, <2>2 DEF Post, HistoryTypes
  <2>3. CASE ~Post(p)
    BY <1>1, <1>6, <2>1, <2>3 DEF Mark, ScheduleRetry, SaveJob, Acknowledge, Forget, HistoryTypes
  <2>4. QED
    BY <2>2, <2>3
<1>7. CASE RedisReset
  BY <1>1, <1>7 DEF RedisReset, HistoryTypes
<1>8. ASSUME NEW p \in Processes, Execute(p) PROVE HistoryTypes'
  BY <1>2, <1>6, <1>8 DEF Execute, FindInstance, CheckCooldown, CheckPolicy
<1>9. CASE Restart
  BY <1>1, <1>4, <1>9 DEF Restart, HistoryTypes
<1>10. ASSUME NEW w \in Workers, RecreateGroup(w) PROVE HistoryTypes'
  BY <1>1, <1>4, <1>10 DEF RecreateGroup, HistoryTypes
<1>11. QED
  BY <1>2, <1>3, <1>5, <1>7, <1>8, <1>9, <1>10
  DEF Next, Request, Create, Enqueue, EnqueueFails, RetryFallsDue, Worker,
      RetryLoop, ScanRetries, CooldownExpires, vars, Processes

(* So do the request's stage and the notification's row: type correctness. *)
LEMMA TypeStep ==
  ASSUME IInv, [Next]_vars
  PROVE  TypeOK'
<1> USE DEF procs, Goto
<1>1. stage \in [Jobs -> {"new", "created", "enqueued", "refused"}]
      /\ status \in [Jobs -> {"none", "queued", "sent", "failed", "blocked"}]
  BY DEF IInv, TypeOK
<1>2. stage' \in [Jobs -> {"new", "created", "enqueued", "refused"}]
      /\ status' \in [Jobs -> {"none", "queued", "sent", "failed", "blocked"}]
  <2>1. ASSUME NEW j \in Jobs, Request(j)
        PROVE  stage' \in [Jobs -> {"new", "created", "enqueued", "refused"}]
               /\ status' \in [Jobs -> {"none", "queued", "sent", "failed", "blocked"}]
    BY <1>1, <2>1 DEF Request, Create, Enqueue, EnqueueFails, Report
  <2>2. ASSUME NEW p \in Processes, Mark(p)
        PROVE  stage' = stage
               /\ status' \in [Jobs -> {"none", "queued", "sent", "failed", "blocked"}]
    <3>1. StatusOf[outcome[p]] \in {"sent", "failed", "blocked"}
      BY <2>2 DEF Mark, At, IInv, TypeOK, ProcessTypes, LocalsFit, StatusOf
    <3>2. QED
      BY <1>1, <2>2, <3>1 DEF Mark, Report
  <2>3. CASE Restart
    BY <1>1, <2>3 DEF Restart
  <2>4. ASSUME NEW p \in Processes, Execute(p), ~Mark(p) PROVE UNCHANGED <<stage, status>>
    BY <2>4 DEF Execute, FindInstance, CheckCooldown, CheckPolicy, Post,
       ScheduleRetry, SaveJob, Acknowledge, Forget
  <2>5. QED
    BY <1>1, <2>1, <2>2, <2>3, <2>4
    DEF Next, Worker, Consume, RecreateGroup, RetryLoop, ScanRetries, FetchRetry,
        RetryFallsDue, CooldownExpires, RedisReset, vars, Processes
<1>3. QED
  BY <1>2, RedisTypesStep, ProcessTypesStep, HistoryTypesStep DEF TypeOK

----------------------------------------------------------------------------
(* The local variables of a process go with its place.                     *)
LEMMA LocalsStep ==
  ASSUME IInv, [Next]_vars
  PROVE  LocalsFit'
<1> USE NamesAssumption DEF At, Goto, procs, Handling
<1>1. ProcessTypes /\ LocalsFit /\ RedisTypes
  BY DEF IInv, TypeOK
<1>2. CASE UNCHANGED procs /\ ended \subseteq ended'
           /\ \A j \in Jobs : stage[j] = "enqueued" => stage'[j] = "enqueued"
  BY <1>1, <1>2 DEF LocalsFit
<1>3. ASSUME NEW j \in Jobs, Request(j) PROVE LocalsFit'
  <2>1. \A i \in Jobs : stage[i] = "enqueued" => stage'[i] = "enqueued"
    BY <1>3 DEF Request, Create, Enqueue, EnqueueFails, IInv, TypeOK
  <2>2. QED
    BY <1>2, <1>3, <2>1 DEF Request, Create, Enqueue, EnqueueFails, history
<1>4. ASSUME NEW w \in Workers, Consume(w) PROVE LocalsFit'
  <2>1. Head(stream) \in Jobs /\ stage[Head(stream)] = "enqueued"
    BY <1>1, <1>4, ReadFromStream DEF Consume, RedisTypes, IInv, Untouched
  <2>2. QED
    BY <1>1, <1>4, <2>1 DEF Consume, Start, LocalsFit, ProcessTypes, Processes
<1>5. CASE ScanRetries
  BY <1>1, <1>5 DEF ScanRetries, LocalsFit, history
<1>6. ASSUME NEW j \in Jobs, FetchRetry(j) PROVE LocalsFit'
  <2>1. stage[j] = "enqueued"
    BY <1>6 DEF FetchRetry, IInv, Untouched
  <2>2. QED
    BY <1>1, <1>6, <2>1 DEF FetchRetry, Start, LocalsFit, ProcessTypes, Processes
<1>7. ASSUME NEW p \in Processes, Execute(p) PROVE LocalsFit'
  <2>1. CASE FindInstance(p) \/ CheckCooldown(p) \/ CheckPolicy(p) \/ Post(p)
    BY <1>1, <2>1 DEF FindInstance, CheckCooldown, CheckPolicy, Post, Decide, LocalsFit,
       ProcessTypes, history
  <2>2. CASE Mark(p)
    BY <1>1, <2>2, Working DEF Mark, Retryable, Rest, LocalsFit, ProcessTypes, Processes
  <2>3. CASE ScheduleRetry(p) \/ SaveJob(p)
    BY <1>1, <2>3 DEF ScheduleRetry, SaveJob, Rest, LocalsFit, ProcessTypes, Processes
  <2>4. CASE Acknowledge(p) \/ Forget(p)
    BY <1>1, <2>4 DEF Acknowledge, Forget, Rest, LocalsFit, ProcessTypes, Processes
  <2>5. QED
    BY <1>7, <2>1, <2>2, <2>3, <2>4 DEF Execute
<1>8. CASE Restart
  BY <1>8 DEF Restart, LocalsFit, Processes
<1>9. CASE RedisReset
  BY <1>2, <1>9 DEF RedisReset
<1>10. QED
  BY <1>2, <1>3, <1>4, <1>5, <1>6, <1>7, <1>8, <1>9
  DEF Next, Worker, RecreateGroup, RetryLoop, RetryFallsDue, CooldownExpires, vars,
      history, Processes

(* A job leaves its first place only through a request or a worker.        *)
LEMMA UntouchedStep ==
  ASSUME IInv, [Next]_vars
  PROVE  Untouched'
<1> USE NamesAssumption DEF At, Goto, procs, redis, history, bounds
<1>1. /\ ProcessTypes /\ LocalsFit /\ RedisTypes /\ HistoryTypes /\ Untouched
      /\ stage \in [Jobs -> {"new", "created", "enqueued", "refused"}]
  BY DEF IInv, TypeOK
<1>2. CASE UNCHANGED <<stage, stream, executions, delivered, ended, job>>
           /\ \A j \in Jobs : /\ retry[j] = "none" => retry'[j] = "none"
                              /\ j \notin pel => j \notin pel'
                              /\ j \notin batch => j \notin batch'
  BY <1>1, <1>2 DEF Untouched
<1>3. ASSUME NEW j \in Jobs, Request(j) PROVE Untouched'
  <2>1. CASE Create(j) \/ EnqueueFails(j)
    <3>1. stage[j] \in {"new", "created"} /\ stage'[j] \in {"created", "refused"}
          /\ \A i \in Jobs : i # j => stage'[i] = stage[i]
      BY <1>1, <2>1 DEF Create, EnqueueFails
    <3>2. UNCHANGED <<stream, executions, delivered, retry, pel, batch, ended, job>>
      BY <2>1 DEF Create, EnqueueFails
    <3>3. ToSet(stream) \subseteq Jobs
      BY <1>1, StreamEntries DEF RedisTypes
    <3>4. QED
      BY <1>1, <3>1, <3>2, <3>3 DEF Untouched
  <2>2. CASE Enqueue(j)
    <3>1. stage[j] = "created" /\ stage'[j] = "enqueued" /\ stream' = Append(stream, j)
          /\ \A i \in Jobs : i # j => stage'[i] = stage[i]
      BY <1>1, <2>2 DEF Enqueue
    <3>2. UNCHANGED <<executions, delivered, retry, pel, batch, ended, job>>
      BY <2>2 DEF Enqueue
    <3>3. ToSet(stream) \subseteq Jobs /\ j \notin ToSet(stream)
      BY <1>1, <3>1, StreamEntries DEF RedisTypes, Untouched
    <3>4. ToSet(stream') = ToSet(stream) \cup {j} /\ IsInjective(stream')
      BY <1>1, <3>1, <3>3, AppendToStream DEF RedisTypes, Untouched
    <3>5. QED
      BY <1>1, <3>1, <3>2, <3>3, <3>4 DEF Untouched
  <2>3. QED
    BY <1>3, <2>1, <2>2 DEF Request
<1>4. ASSUME NEW w \in Workers, Consume(w) PROVE Untouched'
  <2> DEFINE h == Head(stream)
  <2>1. /\ h \in Jobs /\ h \in ToSet(stream) /\ h \notin ToSet(stream')
        /\ ToSet(stream') \subseteq ToSet(stream) /\ IsInjective(stream')
    BY <1>1, <1>4, ReadFromStream DEF Consume, RedisTypes, Untouched
  <2>2. stage[h] = "enqueued"
    BY <1>1, <2>1 DEF Untouched
  <2>3. /\ \A j \in Jobs : j # h => executions'[j] = executions[j] /\ (j \in pel' => j \in pel)
        /\ \A p \in Processes : job'[p] \in {job[p], h}
        /\ UNCHANGED <<stage, delivered, retry, batch, ended>>
    BY <1>1, <1>4 DEF Consume, Start, HistoryTypes, ProcessTypes
  <2>4. QED
    BY <1>1, <2>1, <2>2, <2>3 DEF Untouched
<1>5. CASE CreateGroup /\ UNCHANGED <<executions, delivered, retry, pel, ended>>
           /\ (UNCHANGED <<job, batch, stage>> \/ Restart)
  <2>1. stream' \in {stream, <<>>}
    BY <1>5 DEF CreateGroup
  <2>2. IsInjective(stream') /\ ToSet(stream') \subseteq ToSet(stream)
    BY <1>1, <2>1, EmptyStream DEF Untouched
  <2>3. /\ \A p \in Processes : job'[p] \in {job[p], NoJob}
        /\ \A j \in Jobs : j \notin batch => j \notin batch'
        /\ \A j \in Jobs : stage'[j] = "enqueued" <=> stage[j] = "enqueued"
    BY <1>5 DEF Restart
  <2>4. ToSet(stream) \subseteq Jobs
    BY <1>1, StreamEntries DEF RedisTypes
  <2>5. QED
    BY <1>1, <1>5, <2>2, <2>3, <2>4 DEF Untouched
<1>6. CASE ScanRetries
  BY <1>1, <1>6 DEF ScanRetries, Untouched
<1>7. ASSUME NEW j \in Jobs, FetchRetry(j) PROVE Untouched'
  <2>1. stage[j] = "enqueued" /\ j \notin ToSet(stream)
    BY <1>1, <1>7 DEF FetchRetry, Untouched
  <2>2. /\ \A i \in Jobs : i # j => executions'[i] = executions[i]
        /\ \A i \in Jobs : i \notin batch => i \notin batch'
        /\ \A p \in Processes : job'[p] \in {job[p], j}
        /\ UNCHANGED <<stage, stream, delivered, retry, pel, ended>>
    BY <1>1, <1>7 DEF FetchRetry, Start, HistoryTypes, ProcessTypes
  <2>3. QED
    BY <1>1, <2>1, <2>2 DEF Untouched
<1>8. ASSUME NEW p \in Processes, Execute(p) PROVE Untouched'
  <2>1. pc[p] # "poll"
    BY <1>8 DEF Execute, FindInstance, CheckCooldown, CheckPolicy, Post, Mark,
       ScheduleRetry, SaveJob, Acknowledge, Forget
  <2>2. job[p] \in Jobs /\ stage[job[p]] = "enqueued" /\ job[p] \notin ToSet(stream)
    BY <1>1, <2>1, Working DEF Untouched
  <2>3. /\ \A i \in Jobs : i # job[p] =>
             /\ delivered'[i] = delivered[i] /\ retry'[i] = retry[i]
             /\ i \in pel' => i \in pel
             /\ i \in ended' => i \in ended
        /\ \A q \in Processes : job'[q] \in {job[q], NoJob}
        /\ UNCHANGED <<stage, stream, executions, batch>>
    BY <1>1, <1>8, <2>2 DEF Execute, FindInstance, CheckCooldown, CheckPolicy, Post, Mark,
       ScheduleRetry, SaveJob, Acknowledge, Forget, Rest, HistoryTypes, RedisTypes, ProcessTypes
  <2>4. QED
    BY <1>1, <2>2, <2>3 DEF Untouched
<1>9. CASE RedisReset
  BY <1>1, <1>9, EmptyStream DEF RedisReset, Untouched
<1>10. ASSUME NEW j \in Jobs, RetryFallsDue(j) PROVE Untouched'
  BY <1>1, <1>2, <1>10 DEF RetryFallsDue, RedisTypes
<1>11. QED
  BY <1>2, <1>3, <1>4, <1>5, <1>6, <1>7, <1>8, <1>9, <1>10
  DEF Next, Worker, RecreateGroup, RetryLoop, Restart, CooldownExpires, vars, Processes

----------------------------------------------------------------------------
(* A step of an execution concerns one process and the job it works on.    *)
LEMMA ExecuteTouches ==
  ASSUME RedisTypes, ProcessTypes, HistoryTypes, LocalsFit, NEW p \in Processes, Execute(p)
  PROVE  /\ pc[p] # "poll" /\ job[p] \in Jobs /\ stage[job[p]] = "enqueued"
         /\ job'[p] \in {job[p], NoJob}
         /\ \A q \in Processes \ {p} :
              pc'[q] = pc[q] /\ job'[q] = job[q] /\ outcome'[q] = outcome[q]
         /\ \A i \in Jobs \ {job[p]} :
              /\ retry'[i] = retry[i] /\ delivered'[i] = delivered[i]
              /\ i \in pel' <=> i \in pel
              /\ i \in ended' <=> i \in ended
              /\ i \in faulted' <=> i \in faulted
              /\ i \in unanswered' <=> i \in unanswered
         /\ ended \subseteq ended' /\ faulted \subseteq faulted' /\ unanswered \subseteq unanswered'
         /\ UNCHANGED <<stage, stream, group, executions, batch, dropped, restarts, resets>>
<1> USE DEF At, Goto, redis, procs, history, bounds
<1>1. pc[p] # "poll"
  BY DEF Execute, FindInstance, CheckCooldown, CheckPolicy, Post, Mark,
     ScheduleRetry, SaveJob, Acknowledge, Forget
<1>2. job[p] \in Jobs /\ stage[job[p]] = "enqueued"
  BY <1>1, Working
<1>3. /\ job'[p] \in {job[p], NoJob}
      /\ \A q \in Processes \ {p} :
           pc'[q] = pc[q] /\ job'[q] = job[q] /\ outcome'[q] = outcome[q]
  BY DEF Execute, FindInstance, CheckCooldown, CheckPolicy, Post, Mark, Decide,
     ScheduleRetry, SaveJob, Acknowledge, Forget, Rest, ProcessTypes
<1>4. /\ \A i \in Jobs \ {job[p]} :
           /\ retry'[i] = retry[i] /\ delivered'[i] = delivered[i]
           /\ i \in pel' <=> i \in pel
  BY <1>2 DEF Execute, FindInstance, CheckCooldown, CheckPolicy, Post, Mark,
     ScheduleRetry, SaveJob, Acknowledge, Forget, RedisTypes, HistoryTypes
<1>5. /\ \A i \in Jobs \ {job[p]} :
           /\ i \in ended' <=> i \in ended
           /\ i \in faulted' <=> i \in faulted
           /\ i \in unanswered' <=> i \in unanswered
      /\ ended \subseteq ended' /\ faulted \subseteq faulted' /\ unanswered \subseteq unanswered'
  BY <1>2 DEF Execute, FindInstance, CheckCooldown, CheckPolicy, Post, Mark,
     ScheduleRetry, SaveJob, Acknowledge, Forget
<1>6. UNCHANGED <<stage, stream, group, executions, batch, dropped, restarts, resets>>
  BY DEF Execute, FindInstance, CheckCooldown, CheckPolicy, Post, Mark,
     ScheduleRetry, SaveJob, Acknowledge, Forget
<1>7. QED
  BY <1>1, <1>2, <1>3, <1>4, <1>5, <1>6

(* A worker reads a job that nothing but the stream knows.                 *)
LEMMA ConsumeTakes ==
  ASSUME IInv, NEW w \in Workers, Consume(w)
  PROVE  \E j \in Jobs :
           /\ j \in ToSet(stream) /\ j \notin ToSet(stream')
           /\ ToSet(stream') \subseteq ToSet(stream)
           /\ ToSet(stream) \subseteq ToSet(stream') \cup {j}
           /\ stage[j] = "enqueued" /\ executions[j] = 0 /\ delivered[j] = 0
           /\ retry[j] = "none" /\ j \notin batch \cup ended
           /\ \A p \in Processes : job[p] # j
           /\ pc[w] = "poll" /\ pel' = pel \cup {j}
           /\ Start(w, j, MaxRetries)
           /\ UNCHANGED <<stage, status, retry, batch, delivered, unanswered, ended,
                          dropped, faulted, restarts>>
<1>1. RedisTypes /\ Untouched
  BY DEF IInv, TypeOK
<1>2. /\ Head(stream) \in Jobs /\ Head(stream) \in ToSet(stream)
      /\ stream' = Tail(stream) /\ Head(stream) \notin ToSet(stream')
      /\ ToSet(stream') \subseteq ToSet(stream)
  BY <1>1, ReadFromStream DEF Consume, RedisTypes, Untouched
<1>3. ToSet(stream) \subseteq ToSet(stream') \cup {Head(stream)}
  <2>1. /\ stream \in Seq(Jobs) /\ Len(stream) \in Nat /\ stream # <<>>
        /\ stream' = Tail(stream) /\ Len(Tail(stream)) = Len(stream) - 1
        /\ \A i \in 1 .. Len(Tail(stream)) : Tail(stream)[i] = stream[i + 1]
        /\ Head(stream) = stream[1] /\ DOMAIN stream = 1 .. Len(stream)
        /\ DOMAIN Tail(stream) = 1 .. Len(Tail(stream))
    BY <1>1, HeadTailProperties, LenProperties, EmptySeq DEF RedisTypes, Consume
  <2>2. ASSUME NEW i \in 1 .. Len(stream), i # 1
        PROVE  i - 1 \in 1 .. Len(Tail(stream)) /\ stream[i] = Tail(stream)[i - 1]
    BY <2>1, <2>2
  <2>3. \A i \in 1 .. Len(stream) : stream[i] = Head(stream) \/ stream[i] \in ToSet(stream')
    <3>1. \A k \in 1 .. Len(Tail(stream)) : Tail(stream)[k] \in ToSet(stream')
      BY <2>1 DEF ToSet
    <3>2. QED
      BY <2>1, <2>2, <3>1
  <2>4. QED
    BY <2>1, <2>3 DEF ToSet
<1>4. /\ stage[Head(stream)] = "enqueued"
      /\ executions[Head(stream)] = 0 /\ delivered[Head(stream)] = 0
      /\ retry[Head(stream)] = "none" /\ Head(stream) \notin batch \cup ended
      /\ \A p \in Processes : job[p] # Head(stream)
  BY <1>1, <1>2 DEF Untouched
<1>5. QED
  BY <1>2, <1>3, <1>4 DEF Consume, At, bounds

(* What CreateGroup leaves of the stream.                                  *)
LEMMA GroupCreated ==
  ASSUME CreateGroup
  PROVE  /\ ToSet(stream') \subseteq ToSet(stream)
         /\ dropped \subseteq dropped'
         /\ ToSet(stream) \subseteq ToSet(stream') \cup dropped'
         /\ dropped' \subseteq dropped \cup ToSet(stream)
  BY EmptyStream DEF CreateGroup

----------------------------------------------------------------------------
(* Whoever holds a job holds it alone.                                     *)
LEMMA OwnerStep ==
  ASSUME IInv, [Next]_vars
  PROVE  OneOwner'
<1> USE NamesAssumption DEF At, Goto, procs, redis, history, bounds
<1>1. ProcessTypes /\ LocalsFit /\ RedisTypes /\ HistoryTypes /\ Untouched /\ OneOwner
  BY DEF IInv, TypeOK
<1>2. CASE UNCHANGED <<job, pc, batch, retry>>
  BY <1>1, <1>2 DEF OneOwner
<1>3. ASSUME NEW w \in Workers, Consume(w) PROVE OneOwner'
  <2>1. PICK j \in Jobs :
          /\ retry[j] = "none" /\ j \notin batch
          /\ \A p \in Processes : job[p] # j
          /\ Start(w, j, MaxRetries) /\ UNCHANGED <<retry, batch>>
    BY <1>3, ConsumeTakes
  <2>2. /\ \A v \in Processes \ {w} : job'[v] = job[v] /\ pc'[v] = pc[v]
        /\ job'[w] = j
    BY <1>1, <2>1 DEF Start, ProcessTypes, Processes
  <2>3. QED
    BY <1>1, <2>1, <2>2 DEF OneOwner, Processes
<1>4. CASE ScanRetries
  BY <1>1, <1>4 DEF ScanRetries, OneOwner, LocalsFit, ProcessTypes, Processes
<1>5. ASSUME NEW j \in Jobs, FetchRetry(j) PROVE OneOwner'
  <2>1. /\ \A v \in Processes \ {Retrier} : job'[v] = job[v] /\ pc'[v] = pc[v]
        /\ job'[Retrier] \in {job[Retrier], j}
        /\ j \in batch /\ batch' = batch \ {j} /\ UNCHANGED retry
    BY <1>1, <1>5 DEF FetchRetry, Start, ProcessTypes, Processes
  <2>2. QED
    BY <1>1, <2>1 DEF OneOwner, Processes
<1>6. ASSUME NEW p \in Processes, Execute(p) PROVE OneOwner'
  <2>1. /\ job[p] \in Jobs /\ job'[p] \in {job[p], NoJob}
        /\ \A q \in Processes \ {p} : pc'[q] = pc[q] /\ job'[q] = job[q]
        /\ \A i \in Jobs \ {job[p]} : retry'[i] = retry[i]
        /\ UNCHANGED batch
    BY <1>1, <1>6, ExecuteTouches
  <2>2. p \in Workers /\ pc'[p] \in Handling \cup {"zadd"} =>
          pc[p] \in Handling \cup {"zadd"} /\ UNCHANGED retry
    BY <1>1, <1>6 DEF Execute, FindInstance, CheckCooldown, CheckPolicy, Post, Mark, Decide,
       ScheduleRetry, SaveJob, Acknowledge, Forget, Rest, ProcessTypes, Handling
  <2>3. \A w \in Workers : pc'[w] \in Handling \cup {"zadd"} => pc[w] \in Handling \cup {"zadd"}
    BY <2>1, <2>2 DEF Processes
  <2>4. \A w \in Workers \ {p} : pc[w] \in Handling \cup {"zadd"} =>
          job[w] \in Jobs /\ job[w] # job[p]
    BY <1>1, <2>1, Working DEF OneOwner, Processes, Handling
  <2>5. \A w \in Workers : pc'[w] \in Handling \cup {"zadd"} => retry'[job[w]] = "none"
    BY <1>1, <2>1, <2>2, <2>3, <2>4 DEF OneOwner
  <2>6. NoJob \notin batch
    BY <1>1 DEF ProcessTypes
  <2>7. \A w \in Workers : pc'[w] \in Handling \cup {"zadd"} => job'[w] = job[w]
    BY <1>1, <1>6, <2>1 DEF Execute, FindInstance, CheckCooldown, CheckPolicy, Post, Mark,
       Decide, ScheduleRetry, SaveJob, Acknowledge, Forget, Rest, ProcessTypes, Handling, Processes
  <2>8. \A w \in Workers : pc[w] \in Handling \cup {"zadd"} => job[w] \in Jobs
    BY <1>1, Working DEF Processes, Handling
  <2>9. QED
    BY <1>1, <2>1, <2>3, <2>5, <2>6, <2>7, <2>8 DEF OneOwner, Processes
<1>7. CASE Restart
  BY <1>7 DEF Restart, OneOwner, Processes, Handling
<1>8. CASE RedisReset
  <2>1. \A w \in Workers : pc[w] \in Handling \cup {"zadd"} => job[w] \in Jobs
    BY <1>1, Working DEF Processes, Handling
  <2>2. QED
    BY <1>1, <1>8, <2>1 DEF RedisReset, OneOwner
<1>9. ASSUME NEW j \in Jobs, RetryFallsDue(j) PROVE OneOwner'
  BY <1>1, <1>9 DEF RetryFallsDue, OneOwner, RedisTypes
<1>10. QED
  BY <1>2, <1>3, <1>4, <1>5, <1>6, <1>7, <1>8, <1>9
  DEF Next, Request, Create, Enqueue, EnqueueFails, Worker, RecreateGroup, RetryLoop,
      CooldownExpires, vars, Processes

----------------------------------------------------------------------------
(* No two processes execute a job: the workers never share one, and what   *)
(* the retry goroutine holds no worker is executing.                       *)
LEMMA ExecutesAlone ==
  ASSUME IInv
  PROVE  OneExecutor
<1> USE NamesAssumption
<1>1. \A p \in Processes : pc[p] \in Handling => job[p] \in Jobs
  BY Working DEF IInv, TypeOK, Handling
<1>2. QED
  BY <1>1 DEF IInv, OneOwner, OneExecutor, Executes, Processes

(* A job stays somewhere as long as it is not settled.                     *)
LEMMA KeptStep ==
  ASSUME IInv, [Next]_vars
  PROVE  JobKept'
<1> USE NamesAssumption DEF At, Goto, procs, redis, history, bounds
<1>1. /\ ProcessTypes /\ LocalsFit /\ RedisTypes /\ HistoryTypes /\ JobKept /\ Scheduled
      /\ stage \in [Jobs -> {"new", "created", "enqueued", "refused"}]
  BY DEF IInv, TypeOK
<1>2. CASE UNCHANGED <<stream, pel, retry, ended, dropped, faulted>>
           /\ \A j \in Jobs : stage'[j] = "enqueued" => stage[j] = "enqueued"
  BY <1>1, <1>2 DEF JobKept
<1>3. ASSUME NEW j \in Jobs, Request(j) PROVE JobKept'
  <2>1. CASE Create(j) \/ EnqueueFails(j)
    BY <1>1, <1>2, <2>1 DEF Create, EnqueueFails
  <2>2. CASE Enqueue(j)
    <3>1. ToSet(stream') = ToSet(stream) \cup {j}
      BY <1>1, <2>2, AppendToStream DEF Enqueue, RedisTypes
    <3>2. \A i \in Jobs \ {j} : stage'[i] = stage[i]
      BY <1>1, <2>2 DEF Enqueue
    <3>3. QED
      BY <1>1, <2>2, <3>1, <3>2 DEF Enqueue, JobKept
  <2>3. QED
    BY <1>3, <2>1, <2>2 DEF Request
<1>4. ASSUME NEW w \in Workers, Consume(w) PROVE JobKept'
  <2>1. ToSet(stream) \cup pel \subseteq ToSet(stream') \cup pel'
        /\ UNCHANGED <<stage, retry, ended, dropped, faulted>>
    <3>1. PICK j \in Jobs : ToSet(stream) \subseteq ToSet(stream') \cup {j} /\ pel' = pel \cup {j}
      BY <1>4, ConsumeTakes
    <3>2. QED
      BY <1>4, <3>1 DEF Consume
  <2>2. QED
    BY <1>1, <2>1 DEF JobKept
<1>5. CASE CreateGroup /\ UNCHANGED <<pel, retry, ended, faulted>>
           /\ \A j \in Jobs : stage'[j] = "enqueued" => stage[j] = "enqueued"
  BY <1>1, <1>5, GroupCreated DEF JobKept
<1>6. ASSUME NEW p \in Processes, Execute(p) PROVE JobKept'
  <2>1. /\ job[p] \in Jobs
        /\ \A i \in Jobs \ {job[p]} : retry'[i] = retry[i] /\ (i \in pel' <=> i \in pel)
        /\ ended \subseteq ended' /\ faulted \subseteq faulted'
        /\ UNCHANGED <<stage, stream, dropped>>
    BY <1>1, <1>6, ExecuteTouches
  <2>2. CASE Acknowledge(p)
    <3>1. retry[job[p]] # "none" \/ job[p] \in ended \cup dropped \cup faulted
      BY <1>1, <2>2 DEF Acknowledge, LocalsFit, Scheduled
    <3>2. UNCHANGED retry
      BY <2>2 DEF Acknowledge
    <3>3. QED
      BY <1>1, <2>1, <3>1, <3>2 DEF JobKept
  <2>3. CASE Forget(p)
    <3>1. job[p] \in ended
      BY <1>1, <2>3 DEF Forget, LocalsFit
    <3>2. QED
      BY <1>1, <2>1, <3>1 DEF JobKept
  <2>4. CASE ~Acknowledge(p) /\ ~Forget(p)
    <3>1. UNCHANGED pel /\ (retry[job[p]] # "none" => retry'[job[p]] # "none")
      BY <1>1, <1>6, <2>1, <2>4 DEF Execute, FindInstance, CheckCooldown, CheckPolicy, Post, Mark,
         ScheduleRetry, SaveJob, RedisTypes
    <3>2. QED
      BY <1>1, <2>1, <3>1 DEF JobKept
  <2>5. QED
    BY <2>2, <2>3, <2>4
<1>7. CASE RedisReset
  BY <1>7 DEF RedisReset, JobKept
<1>8. ASSUME NEW j \in Jobs, RetryFallsDue(j) PROVE JobKept'
  BY <1>1, <1>8 DEF RetryFallsDue, JobKept, RedisTypes
<1>9. QED
  BY <1>2, <1>3, <1>4, <1>5, <1>6, <1>7, <1>8
  DEF Next, Worker, RecreateGroup, RetryLoop, ScanRetries, FetchRetry, Restart,
      CooldownExpires, vars, Processes

(* ZADD comes before XACK, and only what is settled is acknowledged        *)
(* without it: a worker's job has all its retries left.                    *)
LEMMA ScheduledStep ==
  ASSUME IInv, [Next]_vars
  PROVE  Scheduled'
<1> USE NamesAssumption, Bounds DEF At, Goto, procs, redis, history, bounds
<1>1. ProcessTypes /\ LocalsFit /\ RedisTypes /\ HistoryTypes /\ Scheduled
  BY DEF IInv, TypeOK
<1>2. CASE UNCHANGED <<pc, job, retry>> /\ ended \subseteq ended'
           /\ dropped \subseteq dropped' /\ faulted \subseteq faulted'
  BY <1>1, <1>2 DEF Scheduled
<1>3. ASSUME NEW w \in Workers, Consume(w) PROVE Scheduled'
  BY <1>1, <1>3 DEF Consume, Start, Scheduled, ProcessTypes
<1>4. ASSUME NEW j \in Jobs, FetchRetry(j) PROVE Scheduled'
  <2>1. /\ \A w \in Workers : pc'[w] = pc[w] /\ job'[w] = job[w]
        /\ UNCHANGED <<retry, ended, dropped, faulted>>
    BY <1>1, <1>4 DEF FetchRetry, Start, ProcessTypes, Processes
  <2>2. QED
    BY <1>1, <2>1 DEF Scheduled
<1>5. ASSUME NEW p \in Processes, Execute(p) PROVE Scheduled'
  <2>1. /\ job[p] \in Jobs
        /\ \A q \in Processes \ {p} : pc'[q] = pc[q] /\ job'[q] = job[q]
        /\ \A i \in Jobs \ {job[p]} : retry'[i] = retry[i]
        /\ ended \subseteq ended' /\ faulted \subseteq faulted' /\ UNCHANGED dropped
    BY <1>1, <1>5, ExecuteTouches
  <2>2. retry'[job[p]] = "none" => retry[job[p]] = "none" \/ job[p] \in ended \cup faulted'
    BY <1>1, <1>5, <2>1 DEF Execute, FindInstance, CheckCooldown, CheckPolicy, Post, Mark,
       ScheduleRetry, SaveJob, Acknowledge, Forget, LocalsFit, RedisTypes
  <2>3. \A w \in Workers \ {p} : pc[w] \in {"hset", "ack"} => job[w] \in Jobs
    BY <1>1, Working DEF Processes
  <2>4. \A w \in Workers \ {p} : pc'[w] \in {"hset", "ack"} =>
          retry'[job'[w]] # "none" \/ job'[w] \in ended' \cup dropped' \cup faulted'
    BY <1>1, <2>1, <2>2, <2>3 DEF Scheduled, Processes
  <2>5. ASSUME p \in Workers, pc'[p] \in {"hset", "ack"}
        PROVE  retry'[job'[p]] # "none" \/ job'[p] \in ended' \cup dropped' \cup faulted'
    <3>1. CASE Mark(p)
      <4>1. left[p] = MaxRetries
        BY <1>1, <2>5, <3>1 DEF Mark, LocalsFit, Handling, Processes
      <4>2. outcome[p] # "error"
        BY <1>1, <2>5, <3>1, <4>1 DEF Mark, Retryable, ProcessTypes, Rest, Processes
      <4>3. job'[p] = job[p] /\ job[p] \in ended'
        BY <1>1, <2>5, <3>1, <4>2 DEF Mark, Rest
      <4>4. QED
        BY <4>3
    <3>2. CASE ScheduleRetry(p)
      BY <1>1, <2>1, <3>2 DEF ScheduleRetry, RedisTypes
    <3>3. CASE SaveJob(p)
      BY <1>1, <2>5, <3>3 DEF SaveJob, Rest, Scheduled
    <3>4. CASE Acknowledge(p) \/ Forget(p)
      BY <1>1, <2>5, <3>4 DEF Acknowledge, Forget, Rest, ProcessTypes
    <3>5. CASE FindInstance(p) \/ CheckCooldown(p) \/ CheckPolicy(p) \/ Post(p)
      BY <1>1, <2>5, <3>5 DEF FindInstance, CheckCooldown, CheckPolicy, Post, Decide, ProcessTypes
    <3>6. QED
      BY <1>5, <3>1, <3>2, <3>3, <3>4, <3>5 DEF Execute
  <2>6. QED
    BY <2>4, <2>5 DEF Scheduled
<1>6. CASE Restart
  BY <1>6 DEF Restart, Scheduled, Processes
<1>7. CASE RedisReset
  <2>1. \A w \in Workers : pc[w] \in {"hset", "ack"} => job[w] \in dropped'
    BY <1>1, <1>7, Working DEF RedisReset, Processes
  <2>2. QED
    BY <1>7, <2>1 DEF RedisReset, Scheduled
<1>8. ASSUME NEW j \in Jobs, RetryFallsDue(j) PROVE Scheduled'
  BY <1>1, <1>8 DEF RetryFallsDue, Scheduled, RedisTypes
<1>9. ASSUME NEW w \in Workers, RecreateGroup(w) PROVE Scheduled'
  BY <1>2, <1>9, GroupCreated DEF RecreateGroup
<1>10. QED
  BY <1>2, <1>3, <1>4, <1>5, <1>6, <1>7, <1>8, <1>9
  DEF Next, Request, Create, Enqueue, EnqueueFails, Worker, RetryLoop, ScanRetries,
      CooldownExpires, vars, Processes

----------------------------------------------------------------------------
(* A settled job is not started again.                                     *)
LEMMA EndedStep ==
  ASSUME IInv, [Next]_vars
  PROVE  EndedRests'
<1> USE NamesAssumption DEF At, Goto, procs, redis, history, bounds
<1>1. ProcessTypes /\ LocalsFit /\ RedisTypes /\ HistoryTypes /\ EndedRests /\ OneOwner
  BY DEF IInv, TypeOK
<1>2. CASE /\ UNCHANGED <<restarts, ended, faulted, batch, job, pc>>
           /\ \A j \in Jobs : retry[j] = "none" => retry'[j] = "none"
  BY <1>1, <1>2 DEF EndedRests, HistoryTypes
<1>3. ASSUME NEW w \in Workers, Consume(w) PROVE EndedRests'
  <2>1. PICK j \in Jobs :
          /\ j \notin ended /\ Start(w, j, MaxRetries)
          /\ UNCHANGED <<retry, batch, ended, faulted, restarts>>
    BY <1>3, ConsumeTakes
  <2>2. \A p \in Processes : \/ pc'[p] = pc[p] /\ job'[p] = job[p]
                             \/ p = w /\ job'[p] = j
    BY <1>1, <2>1 DEF Start, ProcessTypes
  <2>3. QED
    BY <1>1, <2>1, <2>2 DEF EndedRests, Processes
<1>4. CASE ScanRetries
  <2>1. job[Retrier] = NoJob
    BY <1>1, <1>4 DEF ScanRetries, LocalsFit, Processes
  <2>2. QED
    BY <1>1, <1>4, <2>1 DEF ScanRetries, EndedRests, HistoryTypes
<1>5. ASSUME NEW j \in Jobs, FetchRetry(j) PROVE EndedRests'
  <2>1. /\ \A p \in Processes : \/ pc'[p] = pc[p] /\ job'[p] = job[p]
                                \/ p = Retrier /\ job[p] = NoJob /\ job'[p] = j
        /\ j \in batch /\ batch' \subseteq batch
        /\ UNCHANGED <<retry, ended, faulted, restarts>>
    BY <1>1, <1>5 DEF FetchRetry, Start, ProcessTypes, LocalsFit, Processes
  <2>2. QED
    BY <1>1, <2>1 DEF EndedRests, Processes, HistoryTypes
<1>6. ASSUME NEW p \in Processes, Execute(p) PROVE EndedRests'
  <2> SUFFICES ASSUME restarts = 0, NEW j \in Jobs, j \in ended', j \notin faulted'
               PROVE  /\ j \notin batch
                      /\ \A w \in Workers : job'[w] = j => pc'[w] \in {"hset", "ack"}
                      /\ job'[Retrier] = j => pc'[Retrier] = "zrem"
                      /\ retry'[j] = "none" \/ job'[Retrier] = j
    <3>1. UNCHANGED <<batch, restarts>> /\ ended' \subseteq Jobs
      BY <1>1, <1>6, ExecuteTouches, HistoryTypesStep DEF HistoryTypes
    <3>2. QED
      BY <3>1 DEF EndedRests
  <2>1. /\ pc[p] # "poll" /\ job[p] \in Jobs /\ job'[p] \in {job[p], NoJob}
        /\ \A q \in Processes \ {p} : pc'[q] = pc[q] /\ job'[q] = job[q]
        /\ \A i \in Jobs \ {job[p]} :
             /\ retry'[i] = retry[i]
             /\ i \in ended' <=> i \in ended
             /\ i \in faulted' <=> i \in faulted
        /\ faulted \subseteq faulted'
    BY <1>1, <1>6, ExecuteTouches
  <2>2. CASE j # job[p]
    BY <1>1, <2>1, <2>2 DEF EndedRests, Processes
  <2>3. CASE j = job[p] /\ j \notin ended
    <3>1. Mark(p) /\ outcome[p] # "error"
      BY <1>6, <2>3 DEF Execute, FindInstance, CheckCooldown, CheckPolicy, Post, Mark,
         ScheduleRetry, SaveJob, Acknowledge, Forget
    <3>2. UNCHANGED <<job, retry>> /\ pc'[p] = (IF p \in Workers THEN "ack" ELSE "zrem")
      BY <1>1, <3>1 DEF Mark, Retryable, Processes, ProcessTypes
    <3>3. CASE p \in Workers
      <4>1. retry[j] = "none" /\ j \notin batch /\ job[Retrier] # j
            /\ \A w \in Workers : job[w] = j => w = p
        BY <1>1, <2>1, <2>3, <3>1, <3>3 DEF OneOwner, Mark, Handling
      <4>2. QED
        BY <3>2, <3>3, <4>1
    <3>4. CASE p = Retrier
      <4>1. j \notin batch
        BY <1>1, <2>3, <3>4 DEF OneOwner
      <4>2. \A w \in Workers : job[w] = j => pc[w] \in {"hset", "ack"}
        BY <1>1, <2>1, <2>3, <3>4 DEF OneOwner, LocalsFit, ProcessTypes, Processes, Handling
      <4>3. QED
        BY <2>1, <2>3, <3>2, <3>4, <4>1, <4>2 DEF Processes
    <3>5. QED
      BY <3>3, <3>4 DEF Processes
  <2>4. CASE j = job[p] /\ j \in ended
    <3>1. j \notin faulted
      BY <2>1
    <3>2. /\ j \notin batch
          /\ \A w \in Workers : job[w] = j => pc[w] \in {"hset", "ack"}
          /\ job[Retrier] = j => pc[Retrier] = "zrem"
          /\ retry[j] = "none" \/ job[Retrier] = j
      BY <1>1, <2>4, <3>1 DEF EndedRests
    <3>3. (pc[p] \in {"hset", "ack"} /\ p \in Workers) \/ (pc[p] = "zrem" /\ p = Retrier)
      BY <2>4, <3>2 DEF Processes
    <3>4. CASE SaveJob(p) \/ Acknowledge(p)
      <4>1. p \in Workers /\ UNCHANGED retry
        BY <3>3, <3>4 DEF SaveJob, Acknowledge
      <4>2. job'[p] = NoJob \/ pc'[p] = "ack"
        BY <1>1, <3>4, <4>1 DEF SaveJob, Acknowledge, Rest, ProcessTypes, Processes
      <4>3. QED
        BY <2>1, <2>4, <3>2, <4>1, <4>2 DEF Processes
    <3>5. CASE Forget(p)
      <4>1. p = Retrier /\ job'[p] = NoJob
        BY <1>1, <3>3, <3>5 DEF Forget, Rest, ProcessTypes
      <4>2. retry'[j] = "none"
        BY <1>1, <2>4, <3>5 DEF Forget, RedisTypes
      <4>3. QED
        BY <2>1, <2>4, <3>2, <4>1, <4>2 DEF Processes
    <3>6. QED
      BY <1>6, <3>3, <3>4, <3>5 DEF Execute, FindInstance, CheckCooldown, CheckPolicy, Post, Mark,
         ScheduleRetry
  <2>5. QED
    BY <2>2, <2>3, <2>4
<1>7. CASE Restart
  BY <1>1, <1>7 DEF Restart, EndedRests, HistoryTypes
<1>8. CASE RedisReset
  BY <1>1, <1>2, <1>8 DEF RedisReset
<1>9. ASSUME NEW j \in Jobs, RetryFallsDue(j) PROVE EndedRests'
  BY <1>1, <1>2, <1>9 DEF RetryFallsDue, RedisTypes
<1>10. QED
  BY <1>2, <1>3, <1>4, <1>5, <1>6, <1>7, <1>8, <1>9
  DEF Next, Request, Create, Enqueue, EnqueueFails, Worker, RecreateGroup, RetryLoop,
      CooldownExpires, vars, Processes

(* A second message for a job needs a lost answer, a failed command or a   *)
(* crash.                                                                  *)
LEMMA DeliveredStep ==
  ASSUME IInv, [Next]_vars
  PROVE  DeliveredOnce'
<1> USE NamesAssumption DEF At, Goto, procs, redis, history, bounds
<1>1. /\ ProcessTypes /\ LocalsFit /\ RedisTypes /\ HistoryTypes
      /\ EndedRests /\ DeliveredOnce /\ OneExecutor
  BY ExecutesAlone DEF IInv, TypeOK
<1>2. CASE UNCHANGED <<restarts, delivered, unanswered, faulted, ended, outcome>>
           /\ \A p \in Processes : pc[p] = "mark" => pc'[p] = pc[p] /\ job'[p] = job[p]
  BY <1>1, <1>2 DEF DeliveredOnce
<1>3. ASSUME NEW p \in Processes, Execute(p) PROVE DeliveredOnce'
  <2> SUFFICES ASSUME restarts = 0, NEW j \in Jobs, delivered'[j] > 0,
                      j \notin unanswered' \cup faulted'
               PROVE  /\ delivered'[j] = 1
                      /\ \/ j \in ended'
                         \/ \E q \in Processes :
                              pc'[q] = "mark" /\ job'[q] = j /\ outcome'[q] = "ok"
    <3>1. UNCHANGED restarts
      BY <1>1, <1>3, ExecuteTouches
    <3>2. QED
      BY <3>1 DEF DeliveredOnce
  <2>1. /\ job[p] \in Jobs
        /\ \A q \in Processes \ {p} :
             pc'[q] = pc[q] /\ job'[q] = job[q] /\ outcome'[q] = outcome[q]
        /\ \A i \in Jobs \ {job[p]} : delivered'[i] = delivered[i]
        /\ ended \subseteq ended' /\ faulted \subseteq faulted' /\ unanswered \subseteq unanswered'
    BY <1>1, <1>3, ExecuteTouches
  <2>2. ASSUME delivered[j] > 0
        PROVE  /\ delivered[j] = 1
               /\ j \in ended \/ \E q \in Processes :
                                   pc[q] = "mark" /\ job[q] = j /\ outcome[q] = "ok"
    BY <1>1, <2>1, <2>2 DEF DeliveredOnce
  <2>3. CASE j # job[p]
    BY <2>1, <2>2, <2>3
  <2>4. CASE j = job[p] /\ Post(p)
    <3>1. ~(delivered[j] > 0)
      <4>1. SUFFICES ASSUME delivered[j] > 0 PROVE FALSE
        OBVIOUS
      <4>2. j \notin ended
        BY <1>1, <2>1, <2>4 DEF Post, EndedRests, Processes
      <4>3. PICK q \in Processes : pc[q] = "mark" /\ job[q] = j
        BY <2>2, <4>1, <4>2
      <4>4. QED
        BY <1>1, <2>4, <4>3 DEF Post, OneExecutor, Executes, Handling
    <3>2. delivered[j] = 0
      BY <1>1, <3>1 DEF HistoryTypes
    <3>3. delivered' = [delivered EXCEPT ![j] = IF @ < 2 THEN @ + 1 ELSE 2] /\ Decide(p, "ok")
          /\ UNCHANGED job
      BY <2>4, <3>2 DEF Post
    <3>4. delivered'[j] = 1 /\ pc'[p] = "mark" /\ outcome'[p] = "ok" /\ job'[p] = j
      BY <1>1, <2>4, <3>2, <3>3 DEF Decide, ProcessTypes, HistoryTypes
    <3>5. QED
      BY <3>4
  <2>5. CASE j = job[p] /\ Mark(p)
    <3>1. UNCHANGED delivered /\ (outcome[p] = "ok" => j \in ended')
      BY <2>5 DEF Mark
    <3>2. \A q \in Processes : pc[q] = "mark" /\ job[q] = j => q = p
      BY <1>1, <2>5 DEF Mark, OneExecutor, Executes, Handling
    <3>3. QED
      BY <2>1, <2>2, <3>1, <3>2
  <2>6. CASE ~Post(p) /\ ~Mark(p)
    <3>1. UNCHANGED delivered /\ pc[p] # "mark"
      BY <1>3, <2>6 DEF Execute, FindInstance, CheckCooldown, CheckPolicy, ScheduleRetry, SaveJob,
         Acknowledge, Forget
    <3>2. QED
      BY <2>1, <2>2, <3>1
  <2>7. QED
    BY <2>3, <2>4, <2>5, <2>6
<1>4. ASSUME NEW w \in Workers, Consume(w) PROVE DeliveredOnce'
  BY <1>1, <1>2, <1>4 DEF Consume, Start, ProcessTypes
<1>5. ASSUME NEW j \in Jobs, FetchRetry(j) PROVE DeliveredOnce'
  BY <1>1, <1>2, <1>5 DEF FetchRetry, Start, ProcessTypes
<1>6. CASE Restart
  BY <1>1, <1>6 DEF Restart, DeliveredOnce, HistoryTypes
<1>7. QED
  BY <1>2, <1>3, <1>4, <1>5, <1>6
  DEF Next, Request, Create, Enqueue, EnqueueFails, Worker, RecreateGroup, RetryLoop,
      ScanRetries, RetryFallsDue, CooldownExpires, RedisReset, vars, Processes

(* A row says sent only of a job that was sent.                            *)
LEMMA SentStep ==
  ASSUME IInv, [Next]_vars
  PROVE  SentEnded'
<1> USE DEF procs, redis, history, bounds
<1>1. /\ ProcessTypes /\ LocalsFit /\ SentEnded
      /\ status \in [Jobs -> {"none", "queued", "sent", "failed", "blocked"}]
  BY DEF IInv, TypeOK
<1>2. CASE UNCHANGED status /\ ended \subseteq ended'
  BY <1>1, <1>2 DEF SentEnded
<1>3. ASSUME NEW j \in Jobs, Request(j) PROVE SentEnded'
  BY <1>1, <1>3 DEF Request, Create, Enqueue, EnqueueFails, Report, SentEnded
<1>4. ASSUME NEW p \in Processes, Mark(p) PROVE SentEnded'
  <2>1. outcome[p] \in {"ok", "error", "unknown", "blocked"}
    BY <1>1, <1>4 DEF Mark, ProcessTypes, LocalsFit, At
  <2>2. StatusOf[outcome[p]] = "sent" => job[p] \in ended'
    BY <1>4, <2>1 DEF Mark, StatusOf
  <2>3. ended \subseteq ended'
    BY <1>4 DEF Mark
  <2>4. QED
    BY <1>1, <1>4, <2>2, <2>3 DEF Mark, Report, SentEnded
<1>5. QED
  BY <1>2, <1>3, <1>4
  DEF Next, Worker, Consume, RecreateGroup, RetryLoop, ScanRetries, FetchRetry, Execute,
      FindInstance, CheckCooldown, CheckPolicy, Post, ScheduleRetry, SaveJob, Acknowledge, Forget,
      RetryFallsDue, CooldownExpires, Restart, RedisReset, vars, Processes

----------------------------------------------------------------------------
(* The initial states.                                                     *)
LEMMA InitInvariant == Init => IInv
<1> USE NamesAssumption, Bounds DEF Init, At, Processes
<1>1. Init => TypeOK
  BY EmptyStream DEF TypeOK, RedisTypes, ProcessTypes, HistoryTypes, Handling
<1>2. Init => JobKept /\ Untouched
  BY EmptyStream DEF JobKept, Untouched
<1>3. Init => LocalsFit /\ OneOwner /\ Scheduled
  BY DEF LocalsFit, OneOwner, Scheduled, Handling
<1>4. Init => EndedRests /\ DeliveredOnce /\ SentEnded
  BY DEF EndedRests, DeliveredOnce, SentEnded
<1>5. QED
  BY <1>1, <1>2, <1>3, <1>4 DEF IInv

(* IInv holds in every reachable state.                                    *)
THEOREM Inductive == Spec => []IInv
<1>1. IInv /\ [Next]_vars => IInv'
  BY TypeStep, LocalsStep, UntouchedStep, OwnerStep, KeptStep, ScheduledStep, EndedStep,
     DeliveredStep, SentStep DEF IInv
<1>2. QED
  BY <1>1, InitInvariant, PTL DEF Spec

(* Type correctness; the width of the history counters included.           *)
THEOREM TypeCorrect == Spec => []TypeOK
<1>1. IInv => TypeOK
  BY DEF IInv
<1>2. QED
  BY <1>1, Inductive, PTL

(* An accepted job is kept until it is settled, whatever crashes.          *)
THEOREM AcceptedIsKept == Spec => []JobKept
<1>1. IInv => JobKept
  BY DEF IInv
<1>2. QED
  BY <1>1, Inductive, PTL

(* Any number of workers under one consumer name, and the retry loop       *)
(* beside them, never execute one job at once.                             *)
THEOREM ExecutedByOne == Spec => []OneExecutor
  BY ExecutesAlone, Inductive, PTL

(* Without a lost answer, a failed command and a crash there is no second  *)
(* message for a job.                                                      *)
THEOREM NoOtherDuplicates == Spec => []DuplicateNeedsFault
<1>1. IInv => DuplicateNeedsFault
  BY Bounds DEF IInv, TypeOK, HistoryTypes, DeliveredOnce, DuplicateNeedsFault
<1>2. QED
  BY <1>1, Inductive, PTL

(* The row of a sent notification is rewritten only for a job that is      *)
(* executed again after a crash or a failed command.                       *)
THEOREM SentRowsRest == Spec => SentIsFinal
<1> DEFINE Final == \A j \in Jobs : status[j] = "sent" /\ status'[j] # "sent"
                                    => restarts > 0 \/ j \in faulted
<1>1. IInv /\ [Next]_vars => [Final]_vars
  <2> SUFFICES ASSUME IInv, [Next]_vars, NEW j \in Jobs, status[j] = "sent",
                      status'[j] # "sent", ~(restarts > 0), j \notin faulted
               PROVE  FALSE
    OBVIOUS
  <2>1. /\ ProcessTypes /\ LocalsFit /\ EndedRests /\ HistoryTypes /\ Untouched /\ SentEnded
        /\ status \in [Jobs -> {"none", "queued", "sent", "failed", "blocked"}]
    BY DEF IInv, TypeOK
  <2>2. j \in ended /\ restarts = 0
    BY <2>1 DEF SentEnded, HistoryTypes
  <2>3. stage[j] = "enqueued"
    BY <2>1, <2>2 DEF Untouched
  <2>4. ASSUME NEW i \in Jobs, Request(i) PROVE FALSE
    BY <2>1, <2>3, <2>4 DEF Request, Create, Enqueue, EnqueueFails, Report
  <2>5. ASSUME NEW p \in Processes, Mark(p) PROVE FALSE
    <3>1. pc[p] = "mark"
      BY <2>5 DEF Mark, At
    <3>2. job[p] # j
      BY <2>1, <2>2, <3>1 DEF EndedRests, Processes, At
    <3>3. QED
      BY <2>1, <2>5, <3>2 DEF Mark, Report
  <2>6. QED
    BY <2>4, <2>5
    DEF Next, Worker, Consume, RecreateGroup, RetryLoop, ScanRetries, FetchRetry, Execute,
        FindInstance, CheckCooldown, CheckPolicy, Post, ScheduleRetry, SaveJob, Acknowledge,
        Forget, RetryFallsDue, CooldownExpires, Restart, RedisReset, vars, procs, redis,
        history, bounds, Processes
<1>2. QED
  BY <1>1, Inductive, PTL DEF Spec, SentIsFinal

----------------------------------------------------------------------------
(* A step that accepts no job, starts or ends no execution and sends no    *)
(* message at most takes a job away, and JobKept says whose fault that is. *)
LEMMA AbstractTrouble ==
  ASSUME JobKept',
         UNCHANGED <<ended, delivered, restarts>>,
         \A j \in Jobs : /\ stage'[j] = "enqueued" <=> stage[j] = "enqueued"
                         /\ stage'[j] = "refused" <=> stage[j] = "refused",
         dropped \cup faulted \subseteq (dropped \cup faulted)',
         \A j \in Jobs, p \in Processes : Executes(p, j)' <=> Executes(p, j),
         \A j \in Jobs : Kept(j)' => Kept(j)
  PROVE  Delivery!Trouble
<1> DEFINE Team(j) == {p \in Processes : Executes(p, j)}
<1>1. \A j \in Jobs : Team(j)' = Team(j)
  OBVIOUS
<1>2. ASSUME NEW j \in Jobs, Place(j)' # Place(j)
      PROVE  /\ Place(j) = "kept" /\ Place(j)' = "lost"
             /\ Team(j) = {} /\ j \in (dropped \cup faulted)'
  <2>1. stage[j] = "enqueued" /\ j \notin ended /\ Kept(j) /\ ~Kept(j)'
    BY <1>2 DEF Place
  <2>2. Place(j) = "kept" /\ Place(j)' = "lost"
    BY <2>1 DEF Place
  <2>3. \A p \in Processes : job'[p] # j
    BY <2>1 DEF Kept
  <2>4. Team(j)' = {}
    BY <2>3 DEF Executes
  <2>5. j \in (dropped \cup faulted)'
    BY <2>1 DEF Kept, JobKept
  <2>6. QED
    BY <1>1, <2>2, <2>4, <2>5
<1> HIDE DEF Team
<1>3. \A j \in Jobs : \/ Place(j)' = Place(j)
                      \/ /\ Place(j) = "kept" /\ Place(j)' = "lost"
                         /\ Team(j) = {} /\ j \in (dropped \cup faulted)'
  BY <1>2
<1>4. [j \in Jobs |-> Team(j)]' = [j \in Jobs |-> Team(j)]
  BY <1>1
<1>5. QED
  BY <1>3, <1>4 DEF Delivery!Trouble, Team

(* Enqueue accepts the job, and a failed XADD refuses it.                  *)
LEMMA AbstractRequest ==
  ASSUME IInv, NEW j \in Jobs
  PROVE  /\ Enqueue(j) => Delivery!Accept(j)
         /\ EnqueueFails(j) => Delivery!Refuse(j)
<1> USE DEF redis, procs, history, bounds
<1>1. /\ RedisTypes /\ ProcessTypes /\ Untouched
      /\ stage \in [Jobs -> {"new", "created", "enqueued", "refused"}]
  BY DEF IInv, TypeOK
<1> DEFINE Team(i) == {p \in Processes : Executes(p, i)}
<1>2. ASSUME Enqueue(j) PROVE Delivery!Accept(j)
  <2>1. /\ stage[j] = "created" /\ stage'[j] = "enqueued" /\ j \notin ended'
        /\ \A i \in Jobs \ {j} : stage'[i] = stage[i]
    BY <1>1, <1>2 DEF Enqueue, Untouched
  <2>2. ToSet(stream') = ToSet(stream) \cup {j}
    BY <1>1, <1>2, AppendToStream DEF Enqueue, RedisTypes
  <2>3. Place(j) = "outside" /\ Place(j)' = "kept"
    BY <2>1, <2>2 DEF Place, Kept
  <2>4. \A i \in Jobs \ {j} : Place(i)' = Place(i)
    BY <1>2, <2>1, <2>2 DEF Enqueue, Place, Kept
  <2>5. [i \in Jobs |-> Place(i)]' = [[i \in Jobs |-> Place(i)] EXCEPT ![j] = "kept"]
    BY <2>3, <2>4
  <2>6. [i \in Jobs |-> Team(i)]' = [i \in Jobs |-> Team(i)]
        /\ UNCHANGED <<delivered, dropped, faulted, restarts>>
    BY <1>2 DEF Enqueue, Executes
  <2> HIDE DEF Team
  <2>7. QED
    BY <2>3, <2>5, <2>6 DEF Delivery!Accept, Team
<1>3. ASSUME EnqueueFails(j) PROVE Delivery!Refuse(j)
  <2>1. /\ stage[j] = "created" /\ stage'[j] = "refused"
        /\ \A i \in Jobs \ {j} : stage'[i] = stage[i]
        /\ UNCHANGED <<ended, stream, pel, batch, retry, job, pc, delivered, dropped, faulted,
                       restarts>>
    BY <1>1, <1>3 DEF EnqueueFails
  <2>2. Place(j) = "outside" /\ Place(j)' = "refused"
    BY <2>1 DEF Place
  <2>3. \A i \in Jobs \ {j} : Place(i)' = Place(i)
    BY <2>1 DEF Place, Kept
  <2>4. [i \in Jobs |-> Place(i)]' = [[i \in Jobs |-> Place(i)] EXCEPT ![j] = "refused"]
    BY <2>2, <2>3
  <2>5. [i \in Jobs |-> Team(i)]' = [i \in Jobs |-> Team(i)]
    BY <2>1 DEF Executes
  <2> HIDE DEF Team
  <2>6. QED
    BY <2>1, <2>2, <2>4, <2>5 DEF Delivery!Refuse, Team
<1>4. QED
  BY <1>2, <1>3

(* A process that starts a job nobody executes begins an execution.        *)
LEMMA AbstractStart ==
  ASSUME IInv, NEW p \in Processes, NEW j \in Jobs,
         pc[p] = "poll", Kept(j), Place(j) = "settled" => restarts > 0 \/ j \in dropped \cup faulted,
         stage[j] = "enqueued",
         \A q \in Processes : ~Executes(q, j),
         pc'[p] = "find", job' = [job EXCEPT ![p] = j],
         \A q \in Processes \ {p} : pc'[q] = pc[q],
         \A i \in Jobs \ {j} : Kept(i)' <=> Kept(i),
         UNCHANGED <<stage, ended, delivered, dropped, faulted, restarts>>
  PROVE  Delivery!Execute(p, j)
<1> DEFINE Team(i) == {q \in Processes : Executes(q, i)}
<1>1. ProcessTypes /\ LocalsFit
  BY DEF IInv, TypeOK
<1>2. job[p] = NoJob /\ job'[p] = j /\ \A q \in Processes \ {p} : job'[q] = job[q]
  BY <1>1 DEF LocalsFit, At, ProcessTypes
<1>3. Kept(j)'
  BY <1>2 DEF Kept
<1>4. Place(j) \in {"kept", "settled"}
  BY DEF Place
<1>5. \A i \in Jobs : Place(i)' = Place(i)
  BY <1>3 DEF Place
<1>6. Team(j) = {} /\ Team(j)' = {p}
  BY <1>2 DEF Executes, Handling
<1>7. \A i \in Jobs \ {j} : Team(i)' = Team(i)
  BY <1>2, NamesAssumption DEF Executes, Handling
<1> HIDE DEF Team
<1>8. [i \in Jobs |-> Team(i)]' = [[i \in Jobs |-> Team(i)] EXCEPT ![j] = {p}]
  BY <1>6, <1>7
<1>9. [i \in Jobs |-> Place(i)]' = [i \in Jobs |-> Place(i)]
  BY <1>5
<1>10. QED
  BY <1>4, <1>6, <1>8, <1>9 DEF Delivery!Execute, Team

(* A worker that reads the stream, and the retry goroutine that has found  *)
(* the data of a job, are such processes.                                  *)
LEMMA AbstractConsume ==
  ASSUME IInv, NEW w \in Workers, Consume(w)
  PROVE  \E j \in Jobs : Delivery!Execute(w, j)
<1>1. PICK j \in Jobs :
        /\ j \in ToSet(stream) /\ j \notin ended
        /\ ToSet(stream') \subseteq ToSet(stream)
        /\ ToSet(stream) \subseteq ToSet(stream') \cup {j}
        /\ stage[j] = "enqueued"
        /\ \A p \in Processes : job[p] # j
        /\ pc[w] = "poll" /\ pel' = pel \cup {j}
        /\ Start(w, j, MaxRetries)
        /\ UNCHANGED <<stage, retry, batch, delivered, ended, dropped, faulted, restarts>>
  BY ConsumeTakes DEF Consume
<1>2. ProcessTypes /\ LocalsFit /\ w \in Processes
  BY DEF IInv, TypeOK, Processes
<1>3. /\ job' = [job EXCEPT ![w] = j] /\ pc'[w] = "find"
      /\ \A q \in Processes \ {w} : pc'[q] = pc[q]
      /\ job[w] = NoJob
  BY <1>1, <1>2 DEF Start, Goto, ProcessTypes, LocalsFit, At
<1>4. Kept(j) /\ Place(j) # "settled" /\ \A q \in Processes : ~Executes(q, j)
  BY <1>1 DEF Kept, Place, Executes
<1>5. \A i \in Jobs \ {j} : Kept(i)' <=> Kept(i)
  <2>1. \A i \in Jobs \ {j}, q \in Processes : job'[q] = i <=> job[q] = i
    BY <1>2, <1>3, NamesAssumption DEF ProcessTypes
  <2>2. QED
    BY <1>1, <2>1 DEF Kept
<1>6. QED
  BY <1>1, <1>2, <1>3, <1>4, <1>5, AbstractStart

(* The same of the entry that the retry loop takes.                        *)
LEMMA AbstractFetch ==
  ASSUME IInv, NEW j \in Jobs, FetchRetry(j), Start(Retrier, j, hash[j])
  PROVE  Delivery!Execute(Retrier, j)
<1>1. ProcessTypes /\ LocalsFit /\ OneOwner /\ EndedRests /\ Untouched /\ HistoryTypes
      /\ Retrier \in Processes
  BY DEF IInv, TypeOK, Processes
<1>2. /\ pc[Retrier] = "poll" /\ j \in batch /\ batch' = batch \ {j}
      /\ UNCHANGED <<stage, stream, pel, retry, delivered, ended, dropped, faulted, restarts>>
  BY DEF FetchRetry, At, redis, bounds
<1>3. stage[j] = "enqueued" /\ Kept(j)
  BY <1>1, <1>2 DEF Untouched, Kept
<1>4. /\ job' = [job EXCEPT ![Retrier] = j] /\ pc'[Retrier] = "find"
      /\ \A q \in Processes \ {Retrier} : pc'[q] = pc[q]
      /\ job[Retrier] = NoJob
  BY <1>1, <1>2 DEF Start, Goto, ProcessTypes, LocalsFit, At
<1>5. \A q \in Processes : ~Executes(q, j)
  BY <1>1, <1>2 DEF OneOwner, Executes, Processes, Handling
<1>6. Place(j) = "settled" => restarts > 0 \/ j \in dropped \cup faulted
  <2>1. Place(j) = "settled" => j \in ended
    BY <1>3 DEF Place
  <2>2. QED
    BY <1>1, <1>2, <2>1 DEF EndedRests, HistoryTypes
<1>7. \A i \in Jobs \ {j} : Kept(i)' <=> Kept(i)
  <2>1. \A i \in Jobs \ {j}, q \in Processes : job'[q] = i <=> job[q] = i
    BY <1>1, <1>4, NamesAssumption DEF ProcessTypes
  <2>2. QED
    BY <1>2, <2>1 DEF Kept
<1>8. QED
  BY <1>1, <1>2, <1>3, <1>4, <1>5, <1>6, <1>7, AbstractStart

(* A message that goes out is the executor's.                              *)
LEMMA AbstractPost ==
  ASSUME IInv, JobKept', NEW p \in Processes, Post(p)
  PROVE  Delivery!Deliver(p, job[p]) \/ Delivery!Trouble
<1> DEFINE j == job[p]
           Team(i) == {q \in Processes : Executes(q, i)}
<1> USE DEF redis, bounds
<1>1. ProcessTypes /\ LocalsFit /\ HistoryTypes /\ OneExecutor
  BY ExecutesAlone DEF IInv, TypeOK
<1>2. pc[p] = "post" /\ job[p] \in Jobs
  BY <1>1, Working DEF Post, At
<1>3. /\ UNCHANGED <<stage, stream, pel, batch, retry, job, ended, dropped, faulted, restarts>>
      /\ pc'[p] \in Handling /\ \A q \in Processes \ {p} : pc'[q] = pc[q]
  BY <1>1, <1>2 DEF Post, Decide, Goto, Handling, ProcessTypes
<1>4. \A i \in Jobs, q \in Processes : Executes(q, i)' <=> Executes(q, i)
  BY <1>2, <1>3 DEF Executes, Handling
<1>5. \A i \in Jobs : Kept(i)' <=> Kept(i)
  BY <1>3 DEF Kept
<1>6. CASE UNCHANGED delivered
  BY <1>3, <1>4, <1>5, <1>6, AbstractTrouble
<1>7. CASE delivered' = [delivered EXCEPT ![j] = IF @ < 2 THEN @ + 1 ELSE 2]
  <2>1. Team(j) = {p}
    BY <1>1, <1>2 DEF OneExecutor, Executes, Handling
  <2>2. \A i \in Jobs : Place(i)' = Place(i) /\ Team(i)' = Team(i)
    BY <1>3, <1>4, <1>5 DEF Place
  <2> HIDE DEF Team
  <2>3. [i \in Jobs |-> Team(i)]' = [i \in Jobs |-> Team(i)]
        /\ [i \in Jobs |-> Place(i)]' = [i \in Jobs |-> Place(i)]
    BY <2>2
  <2>4. Delivery!Deliver(p, j)
    BY <1>2, <1>3, <1>7, <2>1, <2>3 DEF Delivery!Deliver, Team
  <2>5. QED
    BY <2>4
<1>8. QED
  BY <1>6, <1>7 DEF Post

(* The end of an execution settles the job or leaves it where it is kept.  *)
LEMMA AbstractMark ==
  ASSUME IInv, JobKept', NEW p \in Processes, NEW j \in Jobs, job[p] = j, Mark(p)
  PROVE  Delivery!Finish(p, j)
<1> DEFINE Team(i) == {q \in Processes : Executes(q, i)}
<1> USE DEF redis, bounds
<1>1. ProcessTypes /\ RedisTypes /\ HistoryTypes /\ LocalsFit /\ OneExecutor
  BY ExecutesAlone DEF IInv, TypeOK
<1>2. pc[p] = "mark" /\ stage[j] = "enqueued"
  BY <1>1, Working DEF Mark, At
<1>3. /\ UNCHANGED <<stage, stream, pel, batch, retry, delivered, dropped, faulted, restarts>>
      /\ pc'[p] \notin Handling /\ \A q \in Processes \ {p} : pc'[q] = pc[q]
      /\ job'[p] \in {j, NoJob} /\ \A q \in Processes \ {p} : job'[q] = job[q]
      /\ ended' \in {ended, ended \cup {j}}
  BY <1>1, <1>2 DEF Mark, Rest, Goto, Handling, ProcessTypes
<1>4. Team(j) = {p} /\ Team(j)' = {}
  BY <1>1, <1>2, <1>3 DEF OneExecutor, Executes, Handling
<1>5. \A i \in Jobs \ {j} : Team(i)' = Team(i)
  BY <1>2, <1>3, NamesAssumption DEF Executes, Handling
<1>6. \A i \in Jobs \ {j} : Place(i)' = Place(i)
  <2>1. \A i \in Jobs \ {j}, q \in Processes : job'[q] = i <=> job[q] = i
    BY <1>2, <1>3, NamesAssumption
  <2>2. \A i \in Jobs \ {j} : Kept(i)' <=> Kept(i)
    BY <1>3, <2>1 DEF Kept
  <2>3. QED
    BY <1>3, <2>2 DEF Place
<1>7. \/ Place(j)' = "settled" \/ Place(j)' = Place(j)
      \/ Place(j) = "kept" /\ Place(j)' = "lost" /\ j \in dropped \cup faulted
  <2>1. Kept(j)
    BY <1>2 DEF Kept
  <2>2. j \notin ended' /\ ~Kept(j)' => j \in dropped \cup faulted
    BY <1>2, <1>3 DEF JobKept, Kept
  <2>3. QED
    BY <1>2, <1>3, <2>1, <2>2 DEF Place
<1> HIDE DEF Team
<1>8. [i \in Jobs |-> Team(i)]' = [[i \in Jobs |-> Team(i)] EXCEPT ![j] = {}]
  BY <1>2, <1>4, <1>5
<1>9. \/ [i \in Jobs |-> Place(i)]' = [[i \in Jobs |-> Place(i)] EXCEPT ![j] = "settled"]
      \/ [i \in Jobs |-> Place(i)]' = [i \in Jobs |-> Place(i)]
      \/ /\ Place(j) = "kept" /\ j \in dropped \cup faulted
         /\ [i \in Jobs |-> Place(i)]' = [[i \in Jobs |-> Place(i)] EXCEPT ![j] = "lost"]
  BY <1>2, <1>6, <1>7
<1>10. QED
  BY <1>2, <1>3, <1>4, <1>8, <1>9 DEF Delivery!Finish, Team

(* The other steps of an execution are no one's promise.                   *)
LEMMA AbstractBookkeeping ==
  ASSUME IInv, JobKept', NEW p \in Processes, Execute(p), ~Post(p), ~Mark(p)
  PROVE  Delivery!Trouble
<1> USE DEF redis, history, bounds, Goto, At
<1>1. ProcessTypes /\ RedisTypes /\ HistoryTypes /\ LocalsFit
  BY DEF IInv, TypeOK
<1>2. /\ job[p] \in Jobs /\ job'[p] \in {job[p], NoJob}
      /\ \A q \in Processes \ {p} : pc'[q] = pc[q] /\ job'[q] = job[q]
      /\ \A i \in Jobs \ {job[p]} : retry'[i] = retry[i] /\ (i \in pel' <=> i \in pel)
      /\ faulted \subseteq faulted'
      /\ UNCHANGED <<stage, stream, batch, dropped, restarts>>
  BY <1>1, ExecuteTouches
<1>3. UNCHANGED <<ended, delivered>>
  BY DEF Execute, FindInstance, CheckCooldown, CheckPolicy, ScheduleRetry, SaveJob, Acknowledge,
     Forget
<1>4. \/ pc[p] \in Handling /\ pc'[p] \in Handling /\ job'[p] = job[p]
      \/ pc[p] \notin Handling /\ pc'[p] \notin Handling
  <2>1. CASE FindInstance(p) \/ CheckCooldown(p) \/ CheckPolicy(p)
    BY <1>1, <2>1 DEF FindInstance, CheckCooldown, CheckPolicy, Decide, ProcessTypes, Handling
  <2>2. CASE ScheduleRetry(p) \/ SaveJob(p) \/ Acknowledge(p) \/ Forget(p)
    BY <1>1, <2>2 DEF ScheduleRetry, SaveJob, Acknowledge, Forget, Rest, ProcessTypes, Handling
  <2>3. QED
    BY <2>1, <2>2 DEF Execute
<1>5. \A i \in Jobs, q \in Processes : Executes(q, i)' <=> Executes(q, i)
  BY <1>2, <1>4 DEF Executes
<1>6. \A i \in Jobs : Kept(i)' => Kept(i)
  BY <1>2, NamesAssumption DEF Kept
<1>7. QED
  BY <1>2, <1>3, <1>5, <1>6, AbstractTrouble

(* What the environment and Redis do by themselves, and a retry whose data *)
(* is missing.                                                             *)
LEMMA AbstractRest ==
  ASSUME IInv, JobKept',
         \/ \E j \in Jobs : Create(j) \/ RetryFallsDue(j)
         \/ \E j \in Jobs : FetchRetry(j) /\ UNCHANGED <<pc, job>>
         \/ \E w \in Workers : RecreateGroup(w)
         \/ ScanRetries \/ CooldownExpires \/ RedisReset
  PROVE  Delivery!Trouble
<1> USE DEF redis, procs, history, bounds
<1>1. /\ RedisTypes
      /\ stage \in [Jobs -> {"new", "created", "enqueued", "refused"}]
  BY DEF IInv, TypeOK
<1>2. \A j \in Jobs : /\ stage'[j] = "enqueued" <=> stage[j] = "enqueued"
                      /\ stage'[j] = "refused" <=> stage[j] = "refused"
  BY <1>1 DEF Create, RetryFallsDue, FetchRetry, RecreateGroup, ScanRetries, CooldownExpires,
     RedisReset
<1>3. UNCHANGED <<ended, delivered, restarts, pc, job>>
  BY DEF Create, RetryFallsDue, FetchRetry, RecreateGroup, ScanRetries, CooldownExpires, RedisReset
<1>4. dropped \cup faulted \subseteq (dropped \cup faulted)'
  BY GroupCreated DEF Create, RetryFallsDue, FetchRetry, RecreateGroup, ScanRetries,
     CooldownExpires, RedisReset
<1>5. \A j \in Jobs, p \in Processes : Executes(p, j)' <=> Executes(p, j)
  BY <1>3 DEF Executes
<1>6. ToSet(stream') \subseteq ToSet(stream)
  BY GroupCreated, EmptyStream DEF Create, RetryFallsDue, FetchRetry, RecreateGroup, ScanRetries,
     CooldownExpires, RedisReset
<1>7. \A j \in Jobs : /\ j \in pel' => j \in pel
                      /\ retry'[j] # "none" => retry[j] # "none"
                      /\ j \in batch' => j \in batch \/ retry[j] # "none"
  BY <1>1 DEF Create, RetryFallsDue, FetchRetry, RecreateGroup, ScanRetries,
     CooldownExpires, RedisReset, RedisTypes
<1>8. \A j \in Jobs : Kept(j)' => Kept(j)
  BY <1>3, <1>6, <1>7 DEF Kept
<1>9. QED
  BY <1>2, <1>3, <1>4, <1>5, <1>8, AbstractTrouble

(* A crash ends the executions and the requests under way.                 *)
LEMMA AbstractRestart ==
  ASSUME IInv, JobKept', Restart
  PROVE  Delivery!Crash
<1> DEFINE Team(i) == {q \in Processes : Executes(q, i)}
<1>1. HistoryTypes
      /\ stage \in [Jobs -> {"new", "created", "enqueued", "refused"}]
  BY DEF IInv, TypeOK
<1>2. \A j \in Jobs : Team(j)' = {}
  BY DEF Restart, Executes, Handling
<1>3. /\ (restarts > 0)' /\ UNCHANGED delivered
      /\ dropped \cup faulted \subseteq (dropped \cup faulted)'
  BY <1>1, GroupCreated DEF Restart, HistoryTypes
<1>4. ASSUME NEW j \in Jobs
      PROVE  \/ Place(j)' = Place(j)
             \/ Place(j) = "outside" /\ Place(j)' = "refused"
             \/ Place(j) = "kept" /\ Place(j)' = "lost" /\ j \in (dropped \cup faulted)'
  <2>1. CASE stage[j] = "enqueued" /\ j \notin ended
    <3>1. stage'[j] = "enqueued" /\ j \notin ended' /\ job' = [q \in Processes |-> NoJob]
          /\ batch' = {} /\ UNCHANGED <<pel, retry>>
      BY <2>1 DEF Restart
    <3>2. Kept(j)' => Kept(j)
      BY <3>1, GroupCreated, NamesAssumption DEF Restart, Kept
    <3>3. ~Kept(j)' => j \in (dropped \cup faulted)'
      BY <3>1 DEF JobKept, Kept
    <3>4. QED
      BY <2>1, <3>1, <3>2, <3>3 DEF Place
  <2>2. CASE ~(stage[j] = "enqueued" /\ j \notin ended)
    BY <1>1, <2>2 DEF Restart, Place
  <2>3. QED
    BY <2>1, <2>2
<1> HIDE DEF Team
<1>5. [i \in Jobs |-> Team(i)]' = [i \in Jobs |-> {}]
  BY <1>2
<1>6. QED
  BY <1>3, <1>4, <1>5 DEF Delivery!Crash, Team

(* The queue in Redis with its goroutines implements the delivery of jobs. *)
THEOREM DeliveryImplemented == Spec => ImplementsJobDelivery
<1>1. Init => Delivery!Init
  <2> SUFFICES ASSUME Init PROVE Delivery!Init
    OBVIOUS
  <2>1. \A j \in Jobs : Place(j) = "outside" /\ {p \in Processes : Executes(p, j)} = {}
    BY DEF Init, Place, Executes, Handling
  <2>2. QED
    BY <2>1 DEF Init, Delivery!Init
<1>2. IInv /\ IInv' /\ [Next]_vars => [Delivery!Next]_(Delivery!vars)
  <2> SUFFICES ASSUME IInv, IInv', [Next]_vars
               PROVE  [Delivery!Next]_(Delivery!vars)
    OBVIOUS
  <2>1. JobKept'
    BY DEF IInv
  <2>2. ASSUME NEW j \in Jobs, Request(j) \/ RetryFallsDue(j) PROVE Delivery!Next
    BY <2>1, <2>2, AbstractRequest, AbstractRest DEF Request, Delivery!Next
  <2>3. ASSUME NEW p \in Processes, Execute(p) PROVE Delivery!Next
    <3>1. CASE Post(p) \/ Mark(p)
      <4>1. job[p] \in Jobs
        BY <2>3, ExecuteTouches DEF IInv, TypeOK
      <4>2. QED
        BY <2>1, <3>1, <4>1, AbstractPost, AbstractMark DEF Delivery!Next
    <3>2. CASE ~Post(p) /\ ~Mark(p)
      BY <2>1, <2>3, <3>2, AbstractBookkeeping DEF Delivery!Next
    <3>3. QED
      BY <3>1, <3>2
  <2>4. ASSUME NEW w \in Workers, Consume(w) \/ RecreateGroup(w) PROVE Delivery!Next
    BY <2>1, <2>4, AbstractConsume, AbstractRest DEF Delivery!Next, Processes
  <2>5. ASSUME NEW j \in Jobs, FetchRetry(j) PROVE Delivery!Next
    <3>1. CASE Start(Retrier, j, hash[j])
      BY <2>5, <3>1, AbstractFetch DEF Delivery!Next, Processes
    <3>2. CASE UNCHANGED <<pc, job>>
      BY <2>1, <2>5, <3>2, AbstractRest DEF Delivery!Next
    <3>3. QED
      BY <2>5, <3>1, <3>2 DEF FetchRetry
  <2>6. CASE ScanRetries \/ CooldownExpires \/ RedisReset
    BY <2>1, <2>6, AbstractRest DEF Delivery!Next
  <2>7. CASE Restart
    BY <2>1, <2>7, AbstractRestart DEF Delivery!Next
  <2>8. CASE UNCHANGED vars
    <3>1. [j \in Jobs |-> Place(j)]' = [j \in Jobs |-> Place(j)]
      BY <2>8 DEF vars, redis, procs, history, Place, Kept
    <3>2. [j \in Jobs |-> {p \in Processes : Executes(p, j)}]'
          = [j \in Jobs |-> {p \in Processes : Executes(p, j)}]
      BY <2>8 DEF vars, procs, Executes
    <3>3. UNCHANGED <<delivered, dropped, faulted, restarts>>
      BY <2>8 DEF vars, history, bounds
    <3>4. QED
      BY <3>1, <3>2, <3>3 DEF Delivery!vars
  <2>9. QED
    BY <2>2, <2>3, <2>4, <2>5, <2>6, <2>7, <2>8 DEF Next, Worker, RetryLoop, Processes
<1>3. QED
  BY <1>1, <1>2, Inductive, PTL DEF Spec, ImplementsJobDelivery, Delivery!Spec

=============================================================================
