------------------------ MODULE ConnectionLifecycle ------------------------
(***************************************************************************)
(* The connection lifecycle of ONE WhatsApp instance: the Evolution GO     *)
(* webhooks that change its row in evolution_instances, the auto-reconnect *)
(* goroutine a QRTimeout spawns, the panel's /connect, /recreate and       *)
(* /logout, and the periodic webhook health checker.  Every map of the     *)
(* code (locks, epoch, reconnectInProgress, the qr: keys) is keyed by the  *)
(* instance name and no operation touches two names, so one instance is    *)
(* the whole story.                                                        *)
(*                                                                         *)
(* A task is one execution of a handler (net/http gives each request its   *)
(* own goroutine) or of one health-check iteration.  A task is used once.  *)
(* Each action is one access to state the tasks share: a SQL statement, a  *)
(* Redis command, an operation on a sync.Map or on the mutex, a call to    *)
(* Evolution GO.  The goroutine a QRTimeout starts continues its handler's *)
(* task, because the handler does nothing but log after the go statement.  *)
(***************************************************************************)
EXTENDS Naturals

CONSTANTS
  Tasks,        \* executions of handlers
  NoTask,       \* the owner of a free mutex
  MaxRestarts   \* bound: how often the process may crash and start again

ASSUME TasksAssumption == NoTask \notin Tasks
ASSUME RestartsAssumption == MaxRestarts \in Nat

VARIABLES
  db,           \* the row: its status and whether a phone number is stored
  qr,           \* is a QR code cached under qr:<instance> in Redis
  marker,       \* reconnectInProgress holds the instance
  epoch,        \* ConnectionCoordinator.epoch, ordered as UnixNano is
  lock,         \* the holder of the instance's connect mutex
  evo,          \* the instance inside Evolution GO: present, gap, lost
  pc,           \* where each task is
  seen,         \* the status a task read and still holds
  epochAt,      \* the epoch an auto-reconnect captured
  overtakenBy,  \* history: state changes an auto-reconnect was overtaken by
  restarts

shared == <<db, qr, marker, epoch, lock, evo>>
local == <<pc, seen, epochAt, overtakenBy>>
vars == <<shared, local, restarts>>

Statuses == {"created", "connecting", "connected", "disconnected", "deleted"}
Rows == [status : Statuses, phone : BOOLEAN]

----------------------------------------------------------------------------
(* Program points.                                                         *)

(* The lock is held here: /connect, /recreate, the health checker and the  *)
(* auto-reconnect, from LockInstance to its deferred unlock.               *)
Critical == {"arRecheck", "arCompare", "arConnect", "arUnlock",
             "cnRead", "cnToken", "cnWebhook", "cnReread", "cnInfo",
             "cnPromote", "cnReconnect", "cnUnlock", "cnUnlockQR",
             "rcBump", "rcRead", "rcDelete", "rcCreate", "rcWebhook",
             "rcUnlock", "rcUnlockFail", "hcRead", "hcWebhook", "hcUnlock"}

(* A task waiting for the lock enters the critical section at its image.   *)
AfterLock == [arLock |-> "arRecheck", cnLock |-> "cnRead",
              rcLock |-> "rcBump", hcLock |-> "hcRead"]

(* What runs after the deferred unlock: the goroutine's other defer, the   *)
(* HTTP handler's own Redis command, or nothing.                           *)
AfterUnlock == [arUnlock |-> "arUnmark", cnUnlock |-> "done",
                cnUnlockQR |-> "cnSaveQR", rcUnlock |-> "cleanQR",
                rcUnlockFail |-> "done", hcUnlock |-> "done"]

Labels == Critical \cup DOMAIN AfterLock \cup
          {"idle", "done", "cleanQR", "invMark", "invBump", "qrtClose",
           "qrtCleanQR", "qrtMark", "arEpoch", "arUnmark", "qrcStatus",
           "cnSaveQR", "loClose", "loBump", "hcInfo", "hcDown", "hcUp"}

(* An auto-reconnect that captured the epoch and has not yet compared it.  *)
Pending == {"arLock", "arRecheck", "arCompare"}

(* A handler that changed the row and has not yet bumped the epoch.        *)
Window == {"invMark", "invBump", "loBump"}

(* About to ask Evolution GO to connect the instance.                      *)
CallsConnect == {"arConnect", "cnWebhook", "cnReconnect", "hcWebhook"}

At(t, l) == pc[t] = l
Goto(t, l) == pc' = [pc EXCEPT ![t] = l]

IsInstanceConnected == db.status = "connected" /\ db.phone

(* Rows as UpdateConnectionState writes them.                              *)
MutRowClosed == [db EXCEPT !.status = "close"]
RowClosed == [db EXCEPT !.status = "disconnected"]
RowWith(s) == [db EXCEPT !.status = s]

(* A change of the connection state has reached the row: every pending     *)
(* auto-reconnect has been overtaken by task t.                            *)
Overtake(t) ==
  overtakenBy' = [g \in Tasks |-> IF pc[g] \in Pending
                                  THEN overtakenBy[g] \cup {t}
                                  ELSE overtakenBy[g]]

Init ==
  /\ db \in [status : {"created", "connecting", "connected", "disconnected"},
             phone : BOOLEAN]
  /\ qr = FALSE /\ marker = FALSE /\ epoch = 0 /\ lock = NoTask
  /\ evo = "present"
  /\ pc = [t \in Tasks |-> "idle"]
  /\ seen = [t \in Tasks |-> "created"]
  /\ epochAt = [t \in Tasks |-> 0]
  /\ overtakenBy = [t \in Tasks |-> {}]
  /\ restarts = 0

----------------------------------------------------------------------------
(* Connected, PairSuccess, QRSuccess.  On a database error nothing else    *)
(* is done.                                                                *)
MutConnected(t) ==
  /\ At(t, "idle")
  /\ \/ /\ db' = [status |-> "connected", phone |-> TRUE]
        /\ Overtake(t)
        /\ Goto(t, "cleanQR")
     \/ Goto(t, "done") /\ UNCHANGED <<db, overtakenBy>>
  /\ UNCHANGED <<qr, marker, epoch, lock, evo, seen, epochAt, restarts>>

Connected(t) ==
  /\ At(t, "idle")
  /\ \/ /\ db' = [status |-> "connected", phone |-> TRUE]
        /\ Overtake(t)
        /\ Goto(t, "invMark")
     \/ Goto(t, "done") /\ UNCHANGED <<db, overtakenBy>>
  /\ UNCHANGED <<qr, marker, epoch, lock, evo, seen, epochAt, restarts>>

(* Disconnected: the stream dropped, the pairing is kept.  A failed UPDATE *)
(* is logged and the handler goes on.                                      *)
Disconnected(t) ==
  /\ At(t, "idle")
  /\ db' \in {RowClosed, db}
  /\ Overtake(t)
  /\ Goto(t, "invMark")
  /\ UNCHANGED <<qr, marker, epoch, lock, evo, seen, epochAt, restarts>>

(* LoggedOut and DeleteInstance/RemoveInstance: a failed UPDATE ends them. *)
LoggedOut(t) ==
  /\ At(t, "idle")
  /\ \/ /\ db' = [status |-> "disconnected", phone |-> FALSE]
        /\ Overtake(t)
        /\ Goto(t, "invMark")
     \/ Goto(t, "done") /\ UNCHANGED <<db, overtakenBy>>
  /\ UNCHANGED <<qr, marker, epoch, lock, evo, seen, epochAt, restarts>>

InstanceDeleted(t) ==
  /\ At(t, "idle")
  /\ \/ /\ db' = RowWith("deleted")
        /\ Overtake(t)
        /\ Goto(t, "invMark")
     \/ Goto(t, "done") /\ UNCHANGED <<db, overtakenBy>>
  /\ UNCHANGED <<qr, marker, epoch, lock, evo, seen, epochAt, restarts>>

(* invalidatePendingQRCycle: drop the marker, then bump the epoch.         *)
InvalidateMarker(t) ==
  /\ At(t, "invMark")
  /\ marker' = FALSE
  /\ Goto(t, "invBump")
  /\ UNCHANGED <<db, qr, epoch, lock, evo, seen, epochAt, overtakenBy, restarts>>

InvalidateEpoch(t) ==
  /\ At(t, "invBump")
  /\ epoch' = epoch + 1
  /\ Goto(t, "cleanQR")
  /\ UNCHANGED <<db, qr, marker, lock, evo, seen, epochAt, overtakenBy, restarts>>

(* DeleteQRCode, the last shared access of most handlers.                  *)
CleanQR(t) ==
  /\ At(t, "cleanQR")
  /\ qr' = FALSE
  /\ Goto(t, "done")
  /\ UNCHANGED <<db, marker, epoch, lock, evo, seen, epochAt, overtakenBy, restarts>>

(* QRCode: cache the code when the payload has one, then mark the row      *)
(* connecting, whatever it was; a failed UPDATE is logged.                 *)
QRCode(t) ==
  /\ At(t, "idle")
  /\ qr' \in {TRUE, qr}
  /\ Goto(t, "qrcStatus")
  /\ UNCHANGED <<db, marker, epoch, lock, evo, seen, epochAt, overtakenBy, restarts>>

QRCodeStatus(t) ==
  /\ At(t, "qrcStatus")
  /\ db' \in {RowWith("connecting"), db}
  /\ Goto(t, "done")
  /\ UNCHANGED <<qr, marker, epoch, lock, evo, seen, epochAt, overtakenBy, restarts>>

----------------------------------------------------------------------------
(* QRTimeout: read the row and ignore the event when the session is        *)
(* connected (only its obsolete QR is dropped) or the row cannot be read.  *)
QRTimeout(t) ==
  /\ At(t, "idle")
  /\ \/ IsInstanceConnected /\ Goto(t, "cleanQR")
     \/ ~IsInstanceConnected /\ Goto(t, "qrtClose")
     \/ Goto(t, "done")
  /\ UNCHANGED <<shared, seen, epochAt, overtakenBy, restarts>>

QRTimeoutClose(t) ==
  /\ At(t, "qrtClose")
  /\ db' \in {RowClosed, db}
  /\ Goto(t, "qrtCleanQR")
  /\ UNCHANGED <<qr, marker, epoch, lock, evo, seen, epochAt, overtakenBy, restarts>>

(* qrcount >= maxCount or forceLogout, which the payload decides.          *)
QRTimeoutCleanQR(t) ==
  /\ At(t, "qrtCleanQR")
  /\ qr' = FALSE
  /\ \E next \in {"qrtMark", "done"} : Goto(t, next)
  /\ UNCHANGED <<db, marker, epoch, lock, evo, seen, epochAt, overtakenBy, restarts>>

(* reconnectInProgress.LoadOrStore: the goroutine starts unless the marker *)
(* is already there.                                                       *)
QRTimeoutMark(t) ==
  /\ At(t, "qrtMark")
  /\ marker' = TRUE
  /\ Goto(t, IF marker THEN "done" ELSE "arEpoch")
  /\ UNCHANGED <<db, qr, epoch, lock, evo, seen, epochAt, overtakenBy, restarts>>

(* The goroutine captures the epoch before it waits for the lock.          *)
AutoEpoch(t) ==
  /\ At(t, "arEpoch")
  /\ epochAt' = [epochAt EXCEPT ![t] = epoch]
  /\ overtakenBy' = [overtakenBy EXCEPT ![t] = {}]
  /\ Goto(t, "arLock")
  /\ UNCHANGED <<shared, seen, restarts>>

(* After two seconds it reads the row again: connected or connecting       *)
(* aborts; a failed read goes on to the comparison.                        *)
MutAutoRecheck(t) ==
  /\ At(t, "arRecheck")
  /\ \/ /\ IsInstanceConnected \/ db.status = "connecting"
        /\ Goto(t, "arUnmark")
     \/ /\ ~IsInstanceConnected /\ db.status # "connecting"
        /\ Goto(t, "arCompare")
     \/ Goto(t, "arCompare")
  /\ UNCHANGED <<shared, seen, epochAt, overtakenBy, restarts>>

AutoRecheck(t) ==
  /\ At(t, "arRecheck")
  /\ \/ /\ IsInstanceConnected \/ db.status = "connecting"
        /\ Goto(t, "arUnlock")
     \/ /\ ~IsInstanceConnected /\ db.status # "connecting"
        /\ Goto(t, "arCompare")
     \/ Goto(t, "arCompare")
  /\ UNCHANGED <<shared, seen, epochAt, overtakenBy, restarts>>

AutoCompare(t) ==
  /\ At(t, "arCompare")
  /\ Goto(t, IF epochAt[t] = epoch THEN "arConnect" ELSE "arUnlock")
  /\ UNCHANGED <<shared, seen, epochAt, overtakenBy, restarts>>

(* ConnectInstance with Immediate=false; an error is only logged.          *)
AutoConnect(t) ==
  /\ At(t, "arConnect")
  /\ Goto(t, "arUnlock")
  /\ UNCHANGED <<shared, seen, epochAt, overtakenBy, restarts>>

(* The deferred Delete, which runs after the deferred unlock.              *)
AutoUnmark(t) ==
  /\ At(t, "arUnmark")
  /\ marker' = FALSE
  /\ Goto(t, "done")
  /\ UNCHANGED <<db, qr, epoch, lock, evo, seen, epochAt, overtakenBy, restarts>>

----------------------------------------------------------------------------
(* LockInstance and the unlock it returns, shared by BridgeService and     *)
(* AdminService through the process-wide coordinator.                      *)
MutAcquire(t) ==
  /\ pc[t] \in DOMAIN AfterLock
  /\ lock = NoTask \/ pc[t] = "arLock"
  /\ lock' = t
  /\ Goto(t, AfterLock[pc[t]])
  /\ UNCHANGED <<db, qr, marker, epoch, evo, seen, epochAt, overtakenBy, restarts>>

Acquire(t) ==
  /\ pc[t] \in DOMAIN AfterLock
  /\ lock = NoTask
  /\ lock' = t
  /\ Goto(t, AfterLock[pc[t]])
  /\ UNCHANGED <<db, qr, marker, epoch, evo, seen, epochAt, overtakenBy, restarts>>

Release(t) ==
  /\ pc[t] \in DOMAIN AfterUnlock
  /\ lock' = NoTask
  /\ Goto(t, AfterUnlock[pc[t]])
  /\ UNCHANGED <<db, qr, marker, epoch, evo, seen, epochAt, overtakenBy, restarts>>

----------------------------------------------------------------------------
(* POST /instances/{name}/connect (ReconnectByInstanceName).               *)
StartConnect(t) ==
  /\ At(t, "idle")
  /\ Goto(t, "cnLock")
  /\ UNCHANGED <<shared, seen, epochAt, overtakenBy, restarts>>

(* reconfigureWebhook reads the row; with a token override it writes the   *)
(* whole row back, status included.                                        *)
ConnectRead(t) ==
  /\ At(t, "cnRead")
  /\ \/ /\ seen' = [seen EXCEPT ![t] = db.status]
        /\ \E next \in {"cnToken", "cnWebhook"} : Goto(t, next)
     \/ Goto(t, "cnUnlock") /\ UNCHANGED seen
  /\ UNCHANGED <<shared, epochAt, overtakenBy, restarts>>

ConnectToken(t) ==
  /\ At(t, "cnToken")
  /\ db' \in {RowWith(seen[t]), db}
  /\ Goto(t, "cnWebhook")
  /\ UNCHANGED <<qr, marker, epoch, lock, evo, seen, epochAt, overtakenBy, restarts>>

ConnectWebhook(t) ==
  /\ At(t, "cnWebhook")
  /\ \E next \in {"cnReread", "cnUnlock"} : Goto(t, next)
  /\ UNCHANGED <<shared, seen, epochAt, overtakenBy, restarts>>

ConnectReread(t) ==
  /\ At(t, "cnReread")
  /\ \/ Goto(t, "cnInfo") /\ seen' = [seen EXCEPT ![t] = db.status]
     \/ Goto(t, "cnUnlock") /\ UNCHANGED seen
  /\ UNCHANGED <<shared, epochAt, overtakenBy, restarts>>

(* GetInstanceInfo says whether Evolution GO holds a live session; if so   *)
(* the flow ends with ALREADY_CONNECTED, correcting a stale status.        *)
ConnectInfo(t) ==
  /\ At(t, "cnInfo")
  /\ \/ Goto(t, IF seen[t] = "connected" THEN "cnUnlock" ELSE "cnPromote")
     \/ Goto(t, "cnReconnect")
  /\ UNCHANGED <<shared, seen, epochAt, overtakenBy, restarts>>

ConnectPromote(t) ==
  /\ At(t, "cnPromote")
  /\ db' \in {RowWith("connected"), db}
  /\ Goto(t, "cnUnlock")
  /\ UNCHANGED <<qr, marker, epoch, lock, evo, seen, epochAt, overtakenBy, restarts>>

(* POST /instance/reconnect and the polling of the QR: inline, or not.     *)
ConnectReconnect(t) ==
  /\ At(t, "cnReconnect")
  /\ \E next \in {"cnUnlockQR", "cnUnlock"} : Goto(t, next)
  /\ UNCHANGED <<shared, seen, epochAt, overtakenBy, restarts>>

(* The handler caches the QR it returns, after the lock is released.       *)
ConnectSaveQR(t) ==
  /\ At(t, "cnSaveQR")
  /\ qr' = TRUE
  /\ Goto(t, "done")
  /\ UNCHANGED <<db, marker, epoch, lock, evo, seen, epochAt, overtakenBy, restarts>>

----------------------------------------------------------------------------
(* POST /instances/{name}/recreate.                                        *)
StartRecreate(t) ==
  /\ At(t, "idle")
  /\ Goto(t, "rcLock")
  /\ UNCHANGED <<shared, seen, epochAt, overtakenBy, restarts>>

RecreateBump(t) ==
  /\ At(t, "rcBump")
  /\ epoch' = epoch + 1
  /\ Overtake(t)
  /\ Goto(t, "rcRead")
  /\ UNCHANGED <<db, qr, marker, lock, evo, seen, epochAt, restarts>>

RecreateRead(t) ==
  /\ At(t, "rcRead")
  /\ \E next \in {"rcDelete", "rcUnlockFail"} : Goto(t, next)
  /\ UNCHANGED <<shared, seen, epochAt, overtakenBy, restarts>>

(* Delete at Evolution GO, then create with the same name and token.  The  *)
(* HTTP client repeats both: an error says that the request was not        *)
(* carried out, or that its answer got lost, or that the repeated one was  *)
(* refused because the first had been carried out.                         *)
MutRecreateDelete(t) ==
  /\ At(t, "rcDelete")
  /\ \/ evo' = "gap" /\ Goto(t, "rcCreate") /\ lock' = NoTask
     \/ evo' \in {evo, "lost"} /\ Goto(t, "rcUnlockFail") /\ UNCHANGED lock
  /\ UNCHANGED <<db, qr, marker, epoch, seen, epochAt, overtakenBy, restarts>>

RecreateDelete(t) ==
  /\ At(t, "rcDelete")
  /\ \/ evo' = "gap" /\ Goto(t, "rcCreate")
     \/ evo' \in {evo, "lost"} /\ Goto(t, "rcUnlockFail")
  /\ UNCHANGED <<db, qr, marker, epoch, lock, seen, epochAt, overtakenBy, restarts>>

MutRecreateCreate(t) ==
  /\ At(t, "rcCreate")
  /\ \/ evo' = "present" /\ Goto(t, "rcWebhook")
     \/ Goto(t, "rcUnlockFail") /\ UNCHANGED evo
  /\ UNCHANGED <<db, qr, marker, epoch, lock, seen, epochAt, overtakenBy, restarts>>

RecreateCreate(t) ==
  /\ At(t, "rcCreate")
  /\ \/ evo' = "present" /\ Goto(t, "rcWebhook")
     \/ evo' \in {"present", "lost"} /\ Goto(t, "rcUnlockFail")
  /\ UNCHANGED <<db, qr, marker, epoch, lock, seen, epochAt, overtakenBy, restarts>>

(* ConnectInstance (its error is not fatal), then UpdateConnectionState    *)
(* with "active", a state that no branch of the repository writes.         *)
RecreateWebhook(t) ==
  /\ At(t, "rcWebhook")
  /\ Goto(t, "rcUnlock")
  /\ UNCHANGED <<shared, seen, epochAt, overtakenBy, restarts>>

----------------------------------------------------------------------------
(* DELETE /instances/{name}/logout: Evolution GO's answer is ignored, then *)
(* the row, then the epoch; neither the marker nor the lock is touched.    *)
ForceLogout(t) ==
  /\ At(t, "idle")
  /\ \E next \in {"loClose", "done"} : Goto(t, next)
  /\ UNCHANGED <<shared, seen, epochAt, overtakenBy, restarts>>

ForceLogoutClose(t) ==
  /\ At(t, "loClose")
  /\ \/ db' = RowClosed /\ Overtake(t) /\ Goto(t, "loBump")
     \/ Goto(t, "done") /\ UNCHANGED <<db, overtakenBy>>
  /\ UNCHANGED <<qr, marker, epoch, lock, evo, seen, epochAt, restarts>>

ForceLogoutBump(t) ==
  /\ At(t, "loBump")
  /\ epoch' = epoch + 1
  /\ Goto(t, "cleanQR")
  /\ UNCHANGED <<db, qr, marker, lock, evo, seen, epochAt, overtakenBy, restarts>>

----------------------------------------------------------------------------
(* One iteration of checkAllWebhooks for this instance.                    *)
HealthCheck(t) ==
  /\ At(t, "idle")
  /\ seen' = [seen EXCEPT ![t] = db.status]
  /\ Goto(t, "hcInfo")
  /\ UNCHANGED <<shared, epochAt, overtakenBy, restarts>>

(* GetInstanceInfo fails, or finds the webhook and agrees or disagrees     *)
(* with the status read before the call, or finds no webhook.              *)
HealthInfo(t) ==
  /\ At(t, "hcInfo")
  /\ \/ seen[t] = "connected" /\ Goto(t, "hcDown")
     \/ seen[t] # "connected" /\ Goto(t, "hcUp")
     \/ Goto(t, "hcLock")
     \/ Goto(t, "done")
  /\ UNCHANGED <<shared, seen, epochAt, overtakenBy, restarts>>

(* The reconciling Update, without the lock.                               *)
HealthUpdate(t) ==
  /\ \/ At(t, "hcDown") /\ db' \in {RowWith("disconnected"), db}
     \/ At(t, "hcUp") /\ db' \in {RowWith("connected"), db}
  /\ Goto(t, "done")
  /\ UNCHANGED <<qr, marker, epoch, lock, evo, seen, epochAt, overtakenBy, restarts>>

(* reconfigureWebhook without a token, under the lock.                     *)
HealthReconfigure(t) ==
  /\ \/ At(t, "hcRead") /\ \E next \in {"hcWebhook", "hcUnlock"} : Goto(t, next)
     \/ At(t, "hcWebhook") /\ Goto(t, "hcUnlock")
  /\ UNCHANGED <<shared, seen, epochAt, overtakenBy, restarts>>

----------------------------------------------------------------------------
(* The TTL of the QR key (60 s) runs out.                                  *)
QRExpires ==
  /\ qr
  /\ qr' = FALSE
  /\ UNCHANGED <<db, marker, epoch, lock, evo, local, restarts>>

(* A crash or a deploy: what lives in memory is lost, and with it every    *)
(* task under way; the row and Redis survive.                              *)
Restart ==
  /\ restarts < MaxRestarts
  /\ restarts' = restarts + 1
  /\ marker' = FALSE /\ epoch' = 0 /\ lock' = NoTask
  /\ evo' = IF evo = "gap" THEN "lost" ELSE evo
  /\ pc' = [t \in Tasks |-> IF pc[t] = "idle" THEN "idle" ELSE "done"]
  /\ UNCHANGED <<db, qr, seen, epochAt, overtakenBy>>

(* Everything that arrives from outside: webhooks, panel calls, the ticker.*)
Arrive(t) ==
  \/ Connected(t) \/ Disconnected(t) \/ LoggedOut(t) \/ InstanceDeleted(t)
  \/ QRCode(t) \/ QRTimeout(t)
  \/ StartConnect(t) \/ StartRecreate(t) \/ ForceLogout(t) \/ HealthCheck(t)

(* The next step of a task that is under way.                              *)
Continue(t) ==
  \/ InvalidateMarker(t) \/ InvalidateEpoch(t) \/ CleanQR(t) \/ QRCodeStatus(t)
  \/ QRTimeoutClose(t) \/ QRTimeoutCleanQR(t) \/ QRTimeoutMark(t)
  \/ AutoEpoch(t) \/ AutoRecheck(t) \/ AutoCompare(t) \/ AutoConnect(t)
  \/ AutoUnmark(t)
  \/ Acquire(t) \/ Release(t)
  \/ ConnectRead(t) \/ ConnectToken(t) \/ ConnectWebhook(t) \/ ConnectReread(t)
  \/ ConnectInfo(t) \/ ConnectPromote(t) \/ ConnectReconnect(t) \/ ConnectSaveQR(t)
  \/ RecreateBump(t) \/ RecreateRead(t) \/ RecreateDelete(t) \/ RecreateCreate(t)
  \/ RecreateWebhook(t)
  \/ ForceLogoutClose(t) \/ ForceLogoutBump(t)
  \/ HealthInfo(t) \/ HealthUpdate(t) \/ HealthReconfigure(t)

Next ==
  \/ \E t \in Tasks : Arrive(t) \/ Continue(t)
  \/ QRExpires
  \/ Restart

Spec == Init /\ [][Next]_vars

(* The Go scheduler runs every runnable goroutine, and SQL, Redis and HTTP *)
(* calls return (an answer or an error).  Nothing has to arrive.           *)
Fairness == \A t \in Tasks : WF_vars(Continue(t))

FairSpec == Spec /\ Fairness

----------------------------------------------------------------------------
(* Type invariant.                                                         *)
TypeOK ==
  /\ db \in Rows
  /\ qr \in BOOLEAN /\ marker \in BOOLEAN
  /\ epoch \in Nat
  /\ lock \in Tasks \cup {NoTask}
  /\ evo \in {"present", "gap", "lost"}
  /\ pc \in [Tasks -> Labels]
  /\ seen \in [Tasks -> Statuses]
  /\ epochAt \in [Tasks -> Nat]
  /\ overtakenBy \in [Tasks -> SUBSET Tasks]
  /\ restarts \in 0..MaxRestarts

(* The auto-reconnect, /connect, /recreate and the health checker never    *)
(* run their connect flows for the instance at the same time, although     *)
(* they belong to two services (LockInstance, connection_coordinator.go).  *)
OneConnectFlow ==
  \A t, u \in Tasks : pc[t] \in Critical /\ pc[u] \in Critical => t = u

(* Nobody asks Evolution GO to connect the instance between the delete and *)
(* the create of a /recreate (RecreateInstance, admin_service.go).  It is  *)
(* about a delete that Evolution GO answered; after an error the flow      *)
(* gives up and the next one may meet an instance that is not there.       *)
RecreateGapPrivate ==
  evo = "gap" => \A t \in Tasks : pc[t] \notin CallsConnect

(* An auto-reconnect passes its epoch comparison although a Connected, a   *)
(* disconnect, a logout, a deletion or a recreate overtook it only while   *)
(* that handler sits between its write to the row and its bump of the      *)
(* epoch: once the bump is done, the sleeping auto-reconnect aborts.       *)
OvertakenReconnectAborts ==
  [][\A t \in Tasks : At(t, "arCompare") /\ pc'[t] = "arConnect"
       => \A u \in overtakenBy[t] : pc[u] \in Window]_vars

(* No handler or goroutine is left behind waiting for the lock: each one   *)
(* that starts ends (every path of a connect flow releases the mutex).     *)
EveryTaskEnds ==
  \A t \in Tasks : pc[t] # "idle" ~> pc[t] = "done"

(* The abstract view: the holder of the mutex is the running flow.         *)
Exclusive == INSTANCE ExclusiveConnect WITH holder <- lock

(* The services' handlers, goroutines and ticker, with every interleaving  *)
(* and every error path, implement what the coordinator promises: a flow   *)
(* never begins while another runs or while a /recreate is between its     *)
(* delete and its create, and a /recreate whose delete was answered tries  *)
(* to create the instance before it ends, unless the process dies.  After  *)
(* an error, of the delete or of the create, it may end with the instance  *)
(* removed: the handler returns the error and nothing creates it again     *)
(* (LockInstance, connection_coordinator.go; RecreateInstance,             *)
(* admin_service.go:891-918).                                              *)
ImplementsExclusiveConnect == Exclusive!Spec

(* The inductive strengthening the proofs use.  A task in a connect flow   *)
(* holds the mutex; the instance is in the gap exactly while a /recreate   *)
(* is about to create it again; and a captured epoch is  *)
(* never ahead of the current one, and is behind it as soon as a handler   *)
(* that overtook the auto-reconnect has bumped it.                         *)
LockHeld == \A t \in Tasks : pc[t] \in Critical => lock = t

GapOwned == evo = "gap" <=> \E t \in Tasks : pc[t] = "rcCreate"

EpochBehind ==
  \A t \in Tasks : pc[t] \in Pending =>
    /\ epochAt[t] <= epoch
    /\ epochAt[t] = epoch => \A u \in overtakenBy[t] : pc[u] \in Window

IInv == TypeOK /\ LockHeld /\ GapOwned /\ EpochBehind

(* What bridge_qr_timeout_test.go:37-40 and the comment at bridge.go:709   *)
(* say of handleQRTimeout: a late QRTimeout does not mark a connected      *)
(* instance disconnected.                                                  *)
LateQRTimeoutKeepsSession ==
  [][\A t \in Tasks : At(t, "qrtClose") /\ IsInstanceConnected
       => db'.status = "connected"]_vars

=============================================================================
