--------------------- MODULE ConnectionLifecycle_proofs ---------------------
(***************************************************************************)
(* Theorems about ConnectionLifecycle, for any set of tasks and any number *)
(* of restarts.                                                            *)
(***************************************************************************)
EXTENDS ConnectionLifecycle, TLAPS

(* Where a task goes when it takes the lock and when it gives it back.     *)
LEMMA LockLabels ==
  /\ \A l \in DOMAIN AfterLock : AfterLock[l] \in {"arRecheck", "cnRead", "rcBump", "hcRead"}
  /\ \A l \in DOMAIN AfterUnlock :
       /\ l \in {"arUnlock", "cnUnlock", "cnUnlockQR", "rcUnlock", "rcUnlockFail", "hcUnlock"}
       /\ AfterUnlock[l] \in {"arUnmark", "done", "cnSaveQR", "cleanQR"}
  /\ DOMAIN AfterLock = {"arLock", "cnLock", "rcLock", "hcLock"}
  BY DEF AfterLock, AfterUnlock

----------------------------------------------------------------------------
(* The values the handlers write to the row are rows.                      *)
LEMMA RowTypes ==
  ASSUME db \in Rows
  PROVE  /\ db.status \in Statuses
         /\ RowClosed \in Rows
         /\ \A s \in Statuses : RowWith(s) \in Rows
         /\ [status |-> "connected", phone |-> TRUE] \in Rows
         /\ [status |-> "disconnected", phone |-> FALSE] \in Rows
  BY DEF Rows, RowClosed, RowWith, Statuses

(* Every variable starts in its type.                                      *)
LEMMA TypeInit ==
  ASSUME Init
  PROVE  TypeOK
<1>1. db \in Rows
  BY DEF Init, Statuses, Rows
<1>2. /\ lock \in Tasks \cup {NoTask}
      /\ pc \in [Tasks -> Labels]
      /\ seen \in [Tasks -> Statuses]
  BY DEF Init, Statuses, Labels
<1>3. /\ epoch \in Nat
      /\ restarts \in 0..MaxRestarts
      /\ epochAt \in [Tasks -> Nat]
      /\ overtakenBy \in [Tasks -> SUBSET Tasks]
  BY RestartsAssumption DEF Init
<1>4. QED
  BY <1>1, <1>2, <1>3 DEF Init, TypeOK

(* Every step of a handler or a goroutine keeps every variable in its type.*)
LEMMA TypeStep ==
  ASSUME TypeOK, [Next]_vars
  PROVE  TypeOK'
<1>0. /\ db.status \in Statuses
      /\ RowClosed \in Rows
      /\ \A s \in Statuses : RowWith(s) \in Rows
      /\ [status |-> "connected", phone |-> TRUE] \in Rows
      /\ [status |-> "disconnected", phone |-> FALSE] \in Rows
  BY RowTypes DEF TypeOK
<1> USE DEF TypeOK, At, Goto, shared, Overtake
<1>1. ASSUME NEW t \in Tasks, Arrive(t) PROVE TypeOK'
  <2>1. CASE Connected(t)
    <3>1. db' \in Rows
      BY <1>0, <2>1, Zenon DEF Connected
    <3>2. pc' \in [Tasks -> Labels] /\ overtakenBy' \in [Tasks -> SUBSET Tasks]
      BY <2>1 DEF Connected, Labels
    <3>3. UNCHANGED <<qr, marker, epoch, lock, evo, seen, epochAt, restarts>>
      BY <2>1 DEF Connected
    <3>4. QED
      BY <3>1, <3>2, <3>3
  <2>2. CASE Disconnected(t)
    BY <1>0, LockLabels, <2>2 DEF Disconnected, Labels, Critical, Statuses
  <2>3. CASE LoggedOut(t)
    <3>1. db' \in Rows
      BY <1>0, <2>3, Zenon DEF LoggedOut
    <3>2. pc' \in [Tasks -> Labels] /\ overtakenBy' \in [Tasks -> SUBSET Tasks]
      BY <2>3 DEF LoggedOut, Labels
    <3>3. UNCHANGED <<qr, marker, epoch, lock, evo, seen, epochAt, restarts>>
      BY <2>3 DEF LoggedOut
    <3>4. QED
      BY <3>1, <3>2, <3>3
  <2>4. CASE InstanceDeleted(t)
    BY <1>0, LockLabels, <2>4 DEF InstanceDeleted, Labels, Critical, Statuses
  <2>5. CASE QRCode(t)
    BY <1>0, LockLabels, <2>5 DEF QRCode, Labels, Critical, Statuses
  <2>6. CASE QRTimeout(t)
    BY <1>0, LockLabels, <2>6 DEF QRTimeout, Labels, Critical, Statuses
  <2>7. CASE StartConnect(t)
    BY <1>0, LockLabels, <2>7 DEF StartConnect, Labels, Critical, Statuses
  <2>8. CASE StartRecreate(t)
    BY <1>0, LockLabels, <2>8 DEF StartRecreate, Labels, Critical, Statuses
  <2>9. CASE ForceLogout(t)
    BY <1>0, LockLabels, <2>9 DEF ForceLogout, Labels, Critical, Statuses
  <2>10. CASE HealthCheck(t)
    BY <1>0, LockLabels, <2>10 DEF HealthCheck, Labels, Critical, Statuses
  <2>99. QED
    BY <1>1, <2>1, <2>2, <2>3, <2>4, <2>5, <2>6, <2>7, <2>8, <2>9, <2>10 DEF Arrive
<1>2. ASSUME NEW t \in Tasks, Continue(t) PROVE TypeOK'
  <2>1. CASE InvalidateMarker(t)
    BY <1>0, LockLabels, <2>1 DEF InvalidateMarker, Labels, Critical, Statuses
  <2>2. CASE InvalidateEpoch(t)
    BY <1>0, LockLabels, <2>2 DEF InvalidateEpoch, Labels, Critical, Statuses
  <2>3. CASE CleanQR(t)
    BY <1>0, LockLabels, <2>3 DEF CleanQR, Labels, Critical, Statuses
  <2>4. CASE QRCodeStatus(t)
    BY <1>0, LockLabels, <2>4 DEF QRCodeStatus, Labels, Critical, Statuses
  <2>5. CASE QRTimeoutClose(t)
    BY <1>0, LockLabels, <2>5 DEF QRTimeoutClose, Labels, Critical, Statuses
  <2>6. CASE QRTimeoutCleanQR(t)
    <3>1. PICK next \in {"qrtMark", "done"} : Goto(t, next)
      BY <2>6 DEF QRTimeoutCleanQR
    <3>2. pc' \in [Tasks -> Labels]
      BY <3>1 DEF Labels
    <3>3. QED
      BY <2>6, <3>2 DEF QRTimeoutCleanQR
  <2>7. CASE QRTimeoutMark(t)
    BY <1>0, LockLabels, <2>7 DEF QRTimeoutMark, Labels, Critical, Statuses
  <2>8. CASE AutoEpoch(t)
    BY <1>0, LockLabels, <2>8 DEF AutoEpoch, Labels, Critical, Statuses
  <2>9. CASE AutoRecheck(t)
    BY <1>0, LockLabels, <2>9 DEF AutoRecheck, Labels, Critical, Statuses
  <2>10. CASE AutoCompare(t)
    BY <1>0, LockLabels, <2>10 DEF AutoCompare, Labels, Critical, Statuses
  <2>11. CASE AutoConnect(t)
    BY <1>0, LockLabels, <2>11 DEF AutoConnect, Labels, Critical, Statuses
  <2>12. CASE AutoUnmark(t)
    BY <1>0, LockLabels, <2>12 DEF AutoUnmark, Labels, Critical, Statuses
  <2>13. CASE Acquire(t)
    BY <1>0, LockLabels, <2>13 DEF Acquire, Labels, Critical, Statuses
  <2>14. CASE Release(t)
    BY <1>0, LockLabels, <2>14 DEF Release, Labels, Critical, Statuses
  <2>15. CASE ConnectRead(t)
    BY <1>0, LockLabels, <2>15 DEF ConnectRead, Labels, Critical, Statuses
  <2>16. CASE ConnectToken(t)
    BY <1>0, LockLabels, <2>16 DEF ConnectToken, Labels, Critical, Statuses
  <2>17. CASE ConnectWebhook(t)
    BY <1>0, LockLabels, <2>17 DEF ConnectWebhook, Labels, Critical, Statuses
  <2>18. CASE ConnectReread(t)
    BY <1>0, LockLabels, <2>18 DEF ConnectReread, Labels, Critical, Statuses
  <2>19. CASE ConnectInfo(t)
    BY <1>0, LockLabels, <2>19 DEF ConnectInfo, Labels, Critical, Statuses
  <2>20. CASE ConnectPromote(t)
    BY <1>0, LockLabels, <2>20 DEF ConnectPromote, Labels, Critical, Statuses
  <2>21. CASE ConnectReconnect(t)
    BY <1>0, LockLabels, <2>21 DEF ConnectReconnect, Labels, Critical, Statuses
  <2>22. CASE ConnectSaveQR(t)
    BY <1>0, LockLabels, <2>22 DEF ConnectSaveQR, Labels, Critical, Statuses
  <2>23. CASE RecreateBump(t)
    BY <1>0, LockLabels, <2>23 DEF RecreateBump, Labels, Critical, Statuses
  <2>24. CASE RecreateRead(t)
    BY <1>0, LockLabels, <2>24 DEF RecreateRead, Labels, Critical, Statuses
  <2>25. CASE RecreateDelete(t)
    BY <1>0, LockLabels, <2>25 DEF RecreateDelete, Labels, Critical, Statuses
  <2>26. CASE RecreateCreate(t)
    BY <1>0, LockLabels, <2>26 DEF RecreateCreate, Labels, Critical, Statuses
  <2>27. CASE RecreateWebhook(t)
    BY <1>0, LockLabels, <2>27 DEF RecreateWebhook, Labels, Critical, Statuses
  <2>28. CASE ForceLogoutClose(t)
    BY <1>0, LockLabels, <2>28 DEF ForceLogoutClose, Labels, Critical, Statuses
  <2>29. CASE ForceLogoutBump(t)
    BY <1>0, LockLabels, <2>29 DEF ForceLogoutBump, Labels, Critical, Statuses
  <2>30. CASE HealthInfo(t)
    BY <1>0, LockLabels, <2>30 DEF HealthInfo, Labels, Critical, Statuses
  <2>31. CASE HealthUpdate(t)
    BY <1>0, LockLabels, <2>31 DEF HealthUpdate, Labels, Critical, Statuses
  <2>32. CASE HealthReconfigure(t)
    BY <1>0, LockLabels, <2>32 DEF HealthReconfigure, Labels, Critical, Statuses
  <2>99. QED
    BY <1>2, <2>1, <2>2, <2>3, <2>4, <2>5, <2>6, <2>7, <2>8, <2>9, <2>10, <2>11, <2>12,
       <2>13, <2>14, <2>15, <2>16, <2>17, <2>18, <2>19, <2>20, <2>21, <2>22, <2>23, <2>24,
       <2>25, <2>26, <2>27, <2>28, <2>29, <2>30, <2>31, <2>32 DEF Continue
<1>3. CASE QRExpires
  BY <1>3 DEF QRExpires, local
<1>4. CASE Restart
  <2>1. /\ pc' \in [Tasks -> Labels]
        /\ evo' \in {"present", "gap", "lost"}
        /\ marker' \in BOOLEAN
        /\ lock' \in Tasks \cup {NoTask}
    BY <1>4 DEF Restart, Labels
  <2>2. epoch' \in Nat /\ restarts' \in 0..MaxRestarts
    BY <1>4, RestartsAssumption DEF Restart
  <2>3. UNCHANGED <<db, qr, seen, epochAt, overtakenBy>>
    BY <1>4 DEF Restart
  <2>4. QED
    BY <2>1, <2>2, <2>3
<1>5. CASE UNCHANGED vars
  BY <1>5 DEF vars, local
<1>6. QED
  BY <1>1, <1>2, <1>3, <1>4, <1>5 DEF Next

(* Type correctness, for any set of tasks and any number of restarts.      *)
THEOREM TypeCorrect == Spec => []TypeOK
<1>1. Init => TypeOK
  BY TypeInit
<1>2. TypeOK /\ [Next]_vars => TypeOK'
  BY TypeStep
<1>3. QED
  BY <1>1, <1>2, PTL DEF Spec

----------------------------------------------------------------------------
(* Only Acquire enters the critical section and only Acquire and Release   *)
(* touch the mutex; every other step of a task moves that task alone.      *)
LEMMA OtherMoves ==
  ASSUME NEW t \in Tasks, Arrive(t) \/ Continue(t), ~Acquire(t), ~Release(t)
  PROVE  /\ lock' = lock
         /\ \E l : Goto(t, l) /\ (l \in Critical => pc[t] \in Critical)
<1> USE DEF At, shared, Critical
<1>1. CASE Arrive(t)
  <2>1. CASE Connected(t) \/ Disconnected(t) \/ LoggedOut(t) \/ InstanceDeleted(t)
    <3>1. lock' = lock /\ \E l \in {"invMark", "done"} : Goto(t, l)
      BY <2>1, Zenon DEF Connected, Disconnected, LoggedOut, InstanceDeleted
    <3>2. QED
      BY <3>1
  <2>2. CASE QRCode(t) \/ QRTimeout(t)
    <3>1. lock' = lock /\ \E l \in {"qrcStatus", "cleanQR", "qrtClose", "done"} : Goto(t, l)
      BY <2>2 DEF QRCode, QRTimeout
    <3>2. QED
      BY <3>1
  <2>3. CASE StartConnect(t) \/ StartRecreate(t) \/ ForceLogout(t) \/ HealthCheck(t)
    BY <2>3 DEF StartConnect, StartRecreate, ForceLogout, HealthCheck
  <2>4. QED
    BY <1>1, <2>1, <2>2, <2>3 DEF Arrive
<1>2. CASE Continue(t)
  <2>1. CASE InvalidateMarker(t) \/ InvalidateEpoch(t) \/ CleanQR(t) \/ QRCodeStatus(t)
    BY <2>1 DEF InvalidateMarker, InvalidateEpoch, CleanQR, QRCodeStatus
  <2>2. CASE QRTimeoutClose(t) \/ QRTimeoutCleanQR(t) \/ QRTimeoutMark(t)
    BY <2>2 DEF QRTimeoutClose, QRTimeoutCleanQR, QRTimeoutMark
  <2>3. CASE AutoEpoch(t) \/ AutoRecheck(t) \/ AutoCompare(t) \/ AutoConnect(t) \/ AutoUnmark(t)
    BY <2>3 DEF AutoEpoch, AutoRecheck, AutoCompare, AutoConnect, AutoUnmark
  <2>4. CASE ConnectRead(t) \/ ConnectToken(t) \/ ConnectWebhook(t) \/ ConnectReread(t)
    BY <2>4 DEF ConnectRead, ConnectToken, ConnectWebhook, ConnectReread
  <2>5. CASE ConnectInfo(t) \/ ConnectPromote(t) \/ ConnectReconnect(t) \/ ConnectSaveQR(t)
    BY <2>5 DEF ConnectInfo, ConnectPromote, ConnectReconnect, ConnectSaveQR
  <2>6. CASE RecreateBump(t) \/ RecreateRead(t) \/ RecreateDelete(t)
             \/ RecreateCreate(t) \/ RecreateWebhook(t)
    BY <2>6 DEF RecreateBump, RecreateRead, RecreateDelete, RecreateCreate,
       RecreateWebhook
  <2>7. CASE ForceLogoutClose(t) \/ ForceLogoutBump(t)
    BY <2>7 DEF ForceLogoutClose, ForceLogoutBump
  <2>8. CASE HealthInfo(t) \/ HealthUpdate(t) \/ HealthReconfigure(t)
    BY <2>8 DEF HealthInfo, HealthUpdate, HealthReconfigure
  <2>9. QED
    BY <1>2, <2>1, <2>2, <2>3, <2>4, <2>5, <2>6, <2>7, <2>8 DEF Continue
<1>3. QED
  BY <1>1, <1>2

(* The mutex is held throughout every connect flow.                        *)
LEMMA LockStep ==
  ASSUME TypeOK, LockHeld, [Next]_vars
  PROVE  LockHeld'
<1> USE DEF TypeOK, LockHeld
<1>1. ASSUME NEW t \in Tasks, Arrive(t) \/ Continue(t) PROVE LockHeld'
  <2>1. CASE Acquire(t)
    <3>1. \A u \in Tasks : pc[u] \notin Critical
      BY <2>1, TasksAssumption DEF Acquire
    <3>2. QED
      BY <2>1, <3>1 DEF Acquire, Goto
  <2>2. CASE Release(t)
    <3>1. pc[t] \in Critical /\ pc'[t] \notin Critical
      BY <2>2, LockLabels DEF Release, Goto, Critical
    <3>2. \A u \in Tasks : pc[u] \in Critical => u = t
      BY <3>1
    <3>3. QED
      BY <2>2, <3>1, <3>2 DEF Release, Goto
  <2>3. CASE ~Acquire(t) /\ ~Release(t)
    BY <1>1, <2>3, OtherMoves DEF Goto
  <2>4. QED
    BY <2>1, <2>2, <2>3
<1>2. CASE QRExpires \/ UNCHANGED vars
  BY <1>2 DEF QRExpires, local, shared, vars
<1>3. CASE Restart
  BY <1>3 DEF Restart, Critical
<1>4. QED
  BY <1>1, <1>2, <1>3 DEF Next

----------------------------------------------------------------------------
(* The instance goes missing and comes back only by the two steps of a     *)
(* /recreate, and a task leaves the point between them only by the second. *)
LEMMA GapMoves ==
  ASSUME NEW t \in Tasks, Arrive(t) \/ Continue(t),
         ~RecreateDelete(t), ~RecreateCreate(t)
  PROVE  /\ evo' = evo
         /\ pc[t] # "rcCreate"
         /\ \E l : Goto(t, l) /\ l # "rcCreate"
<1> USE DEF At, shared
<1>1. CASE Arrive(t)
  <2>1. evo' = evo /\ pc[t] = "idle"
    BY <1>1 DEF Arrive, Connected, Disconnected, LoggedOut, InstanceDeleted,
       QRCode, QRTimeout, StartConnect, StartRecreate, ForceLogout, HealthCheck
  <2>2. CASE Connected(t) \/ Disconnected(t) \/ LoggedOut(t) \/ InstanceDeleted(t)
    <3>1. \E l \in {"invMark", "done"} : Goto(t, l)
      BY <2>2, Zenon DEF Connected, Disconnected, LoggedOut, InstanceDeleted
    <3>2. QED
      BY <2>1, <3>1
  <2>3. CASE \/ QRCode(t) \/ QRTimeout(t) \/ StartConnect(t) \/ StartRecreate(t)
             \/ ForceLogout(t) \/ HealthCheck(t)
    <3>1. \E l \in {"qrcStatus", "cleanQR", "qrtClose", "done", "cnLock", "rcLock",
                   "loClose", "hcInfo"} : Goto(t, l)
      BY <2>3 DEF QRCode, QRTimeout, StartConnect, StartRecreate, ForceLogout, HealthCheck
    <3>2. QED
      BY <2>1, <3>1
  <2>4. QED
    BY <1>1, <2>2, <2>3 DEF Arrive
<1>2. CASE Continue(t)
  <2>1. CASE InvalidateMarker(t) \/ InvalidateEpoch(t) \/ CleanQR(t) \/ QRCodeStatus(t)
             \/ QRTimeoutClose(t) \/ QRTimeoutCleanQR(t) \/ QRTimeoutMark(t)
    BY <2>1 DEF InvalidateMarker, InvalidateEpoch, CleanQR, QRCodeStatus,
       QRTimeoutClose, QRTimeoutCleanQR, QRTimeoutMark
  <2>2. CASE AutoEpoch(t) \/ AutoRecheck(t) \/ AutoCompare(t) \/ AutoConnect(t) \/ AutoUnmark(t)
    BY <2>2 DEF AutoEpoch, AutoRecheck, AutoCompare, AutoConnect, AutoUnmark
  <2>3. CASE Acquire(t) \/ Release(t)
    BY <2>3, LockLabels DEF Acquire, Release
  <2>4. CASE ConnectRead(t) \/ ConnectToken(t) \/ ConnectWebhook(t) \/ ConnectReread(t)
             \/ ConnectInfo(t) \/ ConnectPromote(t) \/ ConnectReconnect(t) \/ ConnectSaveQR(t)
    BY <2>4 DEF ConnectRead, ConnectToken, ConnectWebhook, ConnectReread,
       ConnectInfo, ConnectPromote, ConnectReconnect, ConnectSaveQR
  <2>5. CASE RecreateBump(t) \/ RecreateRead(t) \/ RecreateWebhook(t)
    BY <2>5 DEF RecreateBump, RecreateRead, RecreateWebhook
  <2>6. CASE ForceLogoutClose(t) \/ ForceLogoutBump(t)
             \/ HealthInfo(t) \/ HealthUpdate(t) \/ HealthReconfigure(t)
    BY <2>6 DEF ForceLogoutClose, ForceLogoutBump, HealthInfo, HealthUpdate,
       HealthReconfigure
  <2>7. QED
    BY <1>2, <2>1, <2>2, <2>3, <2>4, <2>5, <2>6 DEF Continue
<1>3. QED
  BY <1>1, <1>2

(* While the instance is missing, a /recreate is about to create it again. *)
LEMMA GapStep ==
  ASSUME TypeOK, LockHeld, GapOwned, [Next]_vars
  PROVE  GapOwned'
<1> USE DEF TypeOK, GapOwned
<1>1. ASSUME NEW t \in Tasks, Arrive(t) \/ Continue(t) PROVE GapOwned'
  <2>1. CASE RecreateDelete(t)
    <3>1. \A u \in Tasks : pc[u] # "rcCreate"
      BY <2>1 DEF RecreateDelete, At, LockHeld, Critical
    <3>2. evo # "gap"
      BY <3>1
    <3>3. CASE evo' = "gap" /\ Goto(t, "rcCreate")
      BY <3>3 DEF Goto
    <3>4. CASE evo' \in {evo, "lost"} /\ Goto(t, "rcUnlockFail")
      BY <3>1, <3>2, <3>4 DEF Goto
    <3>5. QED
      BY <2>1, <3>3, <3>4 DEF RecreateDelete
  <2>2. CASE RecreateCreate(t)
    <3>1. \A u \in Tasks : pc[u] = "rcCreate" => u = t
      BY <2>2 DEF RecreateCreate, At, LockHeld, Critical
    <3>2. evo' # "gap" /\ \A u \in Tasks : pc'[u] # "rcCreate"
      BY <2>2, <3>1 DEF RecreateCreate, Goto, At
    <3>3. QED
      BY <3>2
  <2>3. CASE ~RecreateDelete(t) /\ ~RecreateCreate(t)
    BY <1>1, <2>3, GapMoves DEF Goto
  <2>4. QED
    BY <2>1, <2>2, <2>3
<1>2. CASE QRExpires \/ UNCHANGED vars
  BY <1>2 DEF QRExpires, local, shared, vars
<1>3. CASE Restart
  BY <1>3 DEF Restart
<1>4. QED
  BY <1>1, <1>2, <1>3 DEF Next

----------------------------------------------------------------------------
(* The five events that reach the row before they bump the epoch: they     *)
(* overtake the pending auto-reconnects and enter the window, or fail.     *)
LEMMA OvertakeMoves ==
  ASSUME NEW t \in Tasks,
         \/ Connected(t) \/ Disconnected(t) \/ LoggedOut(t) \/ InstanceDeleted(t)
         \/ ForceLogoutClose(t)
  PROVE  /\ epoch' = epoch /\ epochAt' = epochAt
         /\ pc[t] \in {"idle", "loClose"}
         /\ \/ Overtake(t) /\ \E l \in {"invMark", "loBump"} : Goto(t, l)
            \/ overtakenBy' = overtakenBy /\ Goto(t, "done")
  BY Zenon DEF Connected, Disconnected, LoggedOut, InstanceDeleted, ForceLogoutClose, At

(* A step that neither overtakes, nor bumps, nor captures moves its task   *)
(* neither out of the window nor into the pending auto-reconnects.         *)
LEMMA QuietMoves ==
  ASSUME NEW t \in Tasks, Arrive(t) \/ Continue(t),
         ~Connected(t), ~Disconnected(t), ~LoggedOut(t), ~InstanceDeleted(t),
         ~ForceLogoutClose(t), ~InvalidateEpoch(t), ~ForceLogoutBump(t),
         ~RecreateBump(t), ~AutoEpoch(t)
  PROVE  /\ epoch' = epoch /\ epochAt' = epochAt /\ overtakenBy' = overtakenBy
         /\ \E l : /\ Goto(t, l)
                   /\ pc[t] \in Window => l \in Window
                   /\ l \in Pending => pc[t] \in Pending
<1> USE DEF At, shared, Window, Pending
<1>1. CASE QRCode(t) \/ QRTimeout(t) \/ StartConnect(t) \/ StartRecreate(t)
           \/ ForceLogout(t) \/ HealthCheck(t)
  <2>1. epoch' = epoch /\ epochAt' = epochAt /\ overtakenBy' = overtakenBy /\ pc[t] = "idle"
    BY <1>1 DEF QRCode, QRTimeout, StartConnect, StartRecreate, ForceLogout, HealthCheck
  <2>2. \E l \in {"qrcStatus", "cleanQR", "qrtClose", "done", "cnLock", "rcLock",
                 "loClose", "hcInfo"} : Goto(t, l)
    BY <1>1 DEF QRCode, QRTimeout, StartConnect, StartRecreate, ForceLogout, HealthCheck
  <2>3. QED
    BY <2>1, <2>2
<1>2. CASE InvalidateMarker(t) \/ CleanQR(t) \/ QRCodeStatus(t)
           \/ QRTimeoutClose(t) \/ QRTimeoutCleanQR(t) \/ QRTimeoutMark(t)
  BY <1>2 DEF InvalidateMarker, CleanQR, QRCodeStatus, QRTimeoutClose,
     QRTimeoutCleanQR, QRTimeoutMark
<1>3. CASE AutoRecheck(t) \/ AutoCompare(t) \/ AutoConnect(t) \/ AutoUnmark(t)
  BY <1>3 DEF AutoRecheck, AutoCompare, AutoConnect, AutoUnmark
<1>4. CASE Acquire(t) \/ Release(t)
  BY <1>4, LockLabels DEF Acquire, Release, AfterLock
<1>5. CASE ConnectRead(t) \/ ConnectToken(t) \/ ConnectWebhook(t) \/ ConnectReread(t)
           \/ ConnectInfo(t) \/ ConnectPromote(t) \/ ConnectReconnect(t) \/ ConnectSaveQR(t)
  BY <1>5 DEF ConnectRead, ConnectToken, ConnectWebhook, ConnectReread,
     ConnectInfo, ConnectPromote, ConnectReconnect, ConnectSaveQR
<1>6. CASE RecreateRead(t) \/ RecreateDelete(t) \/ RecreateCreate(t) \/ RecreateWebhook(t)
  BY <1>6 DEF RecreateRead, RecreateDelete, RecreateCreate, RecreateWebhook
<1>7. CASE HealthInfo(t) \/ HealthUpdate(t) \/ HealthReconfigure(t)
  BY <1>7 DEF HealthInfo, HealthUpdate, HealthReconfigure
<1>8. QED
  BY <1>1, <1>2, <1>3, <1>4, <1>5, <1>6, <1>7 DEF Arrive, Continue

(* A captured epoch falls behind as soon as an overtaking handler bumps.   *)
LEMMA EpochStep ==
  ASSUME TypeOK, EpochBehind, [Next]_vars
  PROVE  EpochBehind'
<1> USE DEF TypeOK, EpochBehind
<1>1. ASSUME NEW t \in Tasks, Arrive(t) \/ Continue(t) PROVE EpochBehind'
  <2>1. CASE \/ Connected(t) \/ Disconnected(t) \/ LoggedOut(t) \/ InstanceDeleted(t)
             \/ ForceLogoutClose(t)
    <3>1. /\ epoch' = epoch /\ epochAt' = epochAt
          /\ pc[t] \notin Pending /\ pc[t] \notin Window
      BY <2>1, OvertakeMoves DEF Pending, Window
    <3>2. CASE Overtake(t) /\ \E l \in {"invMark", "loBump"} : Goto(t, l)
      <4>1. /\ pc'[t] \in Window /\ pc'[t] \notin Pending
            /\ \A u \in Tasks \ {t} : pc'[u] = pc[u]
        BY <3>2 DEF Goto, Window, Pending
      <4>2. \A g \in Tasks : pc[g] \in Pending =>
              overtakenBy'[g] = overtakenBy[g] \cup {t}
        BY <3>2 DEF Overtake
      <4>3. QED
        BY <3>1, <4>1, <4>2
    <3>3. CASE overtakenBy' = overtakenBy /\ Goto(t, "done")
      BY <3>1, <3>3 DEF Goto, Window, Pending
    <3>4. QED
      BY <2>1, <3>2, <3>3, OvertakeMoves
  <2>2. CASE InvalidateEpoch(t) \/ ForceLogoutBump(t) \/ RecreateBump(t)
    <3>1. /\ epoch' = epoch + 1 /\ epochAt' = epochAt
          /\ pc'[t] \notin Pending
          /\ \A u \in Tasks \ {t} : pc'[u] = pc[u]
      BY <2>2 DEF InvalidateEpoch, ForceLogoutBump, RecreateBump, Goto, Pending
    <3>2. \A g \in Tasks : pc'[g] \in Pending =>
            epochAt'[g] <= epoch' /\ epochAt'[g] # epoch'
      BY <3>1
    <3>3. QED
      BY <3>2
  <2>3. CASE AutoEpoch(t)
    BY <2>3 DEF AutoEpoch, Goto, At, shared, Window, Pending
  <2>4. CASE /\ ~Connected(t) /\ ~Disconnected(t) /\ ~LoggedOut(t) /\ ~InstanceDeleted(t)
             /\ ~ForceLogoutClose(t) /\ ~InvalidateEpoch(t) /\ ~ForceLogoutBump(t)
             /\ ~RecreateBump(t) /\ ~AutoEpoch(t)
    BY <1>1, <2>4, QuietMoves DEF Goto
  <2>5. QED
    BY <2>1, <2>2, <2>3, <2>4
<1>2. CASE QRExpires \/ UNCHANGED vars
  BY <1>2 DEF QRExpires, local, shared, vars
<1>3. CASE Restart
  BY <1>3 DEF Restart, Pending
<1>4. QED
  BY <1>1, <1>2, <1>3 DEF Next

(* A step of a task moves that task alone.                                 *)
LEMMA OneTaskMoves ==
  ASSUME NEW t \in Tasks, Arrive(t) \/ Continue(t)
  PROVE  \E l : Goto(t, l)
<1>1. CASE Acquire(t) \/ Release(t)
  BY <1>1 DEF Acquire, Release
<1>2. CASE ~Acquire(t) /\ ~Release(t)
  BY <1>2, OtherMoves
<1>3. QED
  BY <1>1, <1>2

(* The only step from the comparison of the epochs is AutoCompare.         *)
LEMMA CompareMoves ==
  ASSUME NEW t \in Tasks, Arrive(t) \/ Continue(t), At(t, "arCompare")
  PROVE  AutoCompare(t)
<1> USE DEF At
<1>1. ~Arrive(t)
  BY DEF Arrive, Connected, Disconnected, LoggedOut, InstanceDeleted,
     QRCode, QRTimeout, StartConnect, StartRecreate, ForceLogout, HealthCheck
<1>2. ~Acquire(t) /\ ~Release(t)
  BY LockLabels DEF Acquire, Release
<1>3. /\ ~InvalidateMarker(t) /\ ~InvalidateEpoch(t) /\ ~CleanQR(t) /\ ~QRCodeStatus(t)
      /\ ~QRTimeoutClose(t) /\ ~QRTimeoutCleanQR(t) /\ ~QRTimeoutMark(t)
      /\ ~AutoEpoch(t) /\ ~AutoRecheck(t) /\ ~AutoConnect(t) /\ ~AutoUnmark(t)
  BY DEF InvalidateMarker, InvalidateEpoch, CleanQR, QRCodeStatus, QRTimeoutClose,
     QRTimeoutCleanQR, QRTimeoutMark, AutoEpoch, AutoRecheck, AutoConnect, AutoUnmark
<1>4. /\ ~ConnectRead(t) /\ ~ConnectToken(t) /\ ~ConnectWebhook(t) /\ ~ConnectReread(t)
      /\ ~ConnectInfo(t) /\ ~ConnectPromote(t) /\ ~ConnectReconnect(t) /\ ~ConnectSaveQR(t)
  BY DEF ConnectRead, ConnectToken, ConnectWebhook, ConnectReread, ConnectInfo,
     ConnectPromote, ConnectReconnect, ConnectSaveQR
<1>5. /\ ~RecreateBump(t) /\ ~RecreateRead(t) /\ ~RecreateDelete(t)
      /\ ~RecreateCreate(t) /\ ~RecreateWebhook(t)
      /\ ~ForceLogoutClose(t) /\ ~ForceLogoutBump(t)
      /\ ~HealthInfo(t) /\ ~HealthUpdate(t) /\ ~HealthReconfigure(t)
  BY DEF RecreateBump, RecreateRead, RecreateDelete, RecreateCreate, RecreateWebhook,
     ForceLogoutClose, ForceLogoutBump, HealthInfo, HealthUpdate, HealthReconfigure
<1>6. QED
  BY <1>1, <1>2, <1>3, <1>4, <1>5, Zenon DEF Continue

----------------------------------------------------------------------------
(* IInv is an inductive invariant.                                         *)
THEOREM Inductive == Spec => []IInv
<1>1. Init => IInv
  <2>1. Init => TypeOK
    BY TypeInit
  <2>2. Init => LockHeld /\ GapOwned /\ EpochBehind
    BY DEF Init, LockHeld, GapOwned, EpochBehind, Critical, Pending
  <2>3. QED
    BY <2>1, <2>2 DEF IInv
<1>2. IInv /\ [Next]_vars => IInv'
  BY TypeStep, LockStep, GapStep, EpochStep DEF IInv
<1>3. QED
  BY <1>1, <1>2, PTL DEF Spec

(* At most one connect flow of the instance runs at any time.              *)
THEOREM ConnectMutualExclusion == Spec => []OneConnectFlow
<1>1. IInv => OneConnectFlow
  BY DEF IInv, LockHeld, OneConnectFlow
<1>2. QED
  BY <1>1, Inductive, PTL

(* No connect call meets the gap inside a /recreate.                       *)
THEOREM RecreateIsolation == Spec => []RecreateGapPrivate
<1>1. IInv => RecreateGapPrivate
  <2> SUFFICES ASSUME IInv, evo = "gap", NEW t \in Tasks PROVE pc[t] \notin CallsConnect
    BY DEF RecreateGapPrivate
  <2>1. PICK r \in Tasks : pc[r] = "rcCreate"
    BY DEF IInv, GapOwned
  <2>2. pc[t] \in Critical => t = r
    BY <2>1 DEF IInv, LockHeld, Critical
  <2>3. QED
    BY <2>1, <2>2 DEF CallsConnect, Critical
<1>2. QED
  BY <1>1, Inductive, PTL

(* A sleeping auto-reconnect that an event overtook aborts, unless that    *)
(* event has not yet bumped the epoch.                                     *)
THEOREM OvertakenAborts == Spec => OvertakenReconnectAborts
<1>1. IInv /\ [Next]_vars =>
        [\A t \in Tasks : At(t, "arCompare") /\ pc'[t] = "arConnect"
           => \A u \in overtakenBy[t] : pc[u] \in Window]_vars
  <2> SUFFICES ASSUME IInv, Next, NEW t \in Tasks, At(t, "arCompare"),
                      pc'[t] = "arConnect", epochAt[t] # epoch
               PROVE  FALSE
    BY DEF IInv, EpochBehind, Pending, At
  <2>1. PICK u \in Tasks : Arrive(u) \/ Continue(u)
    BY DEF Next, QRExpires, Restart, local, At
  <2>2. u = t
    BY <2>1, OneTaskMoves DEF IInv, TypeOK, Goto, At
  <2>3. AutoCompare(t)
    BY <2>1, <2>2, CompareMoves
  <2>4. QED
    BY <2>3 DEF AutoCompare, Goto, IInv, TypeOK
<1>2. QED
  BY <1>1, Inductive, PTL DEF Spec, OvertakenReconnectAborts

----------------------------------------------------------------------------
(* Seen from the coordinator, a task that neither takes nor gives back the *)
(* mutex, and neither deletes nor creates, does nothing.                   *)
LEMMA AbstractStutter ==
  ASSUME NEW t \in Tasks, Arrive(t) \/ Continue(t), ~Acquire(t), ~Release(t),
         ~RecreateDelete(t), ~RecreateCreate(t)
  PROVE  UNCHANGED <<lock, evo>>
  BY OtherMoves, GapMoves

(* A flow begins only with the instance not removed, and ends only so.     *)
LEMMA AbstractBeginEnd ==
  ASSUME IInv, NEW t \in Tasks
  PROVE  /\ Acquire(t) => Exclusive!Begin(t)
         /\ Release(t) => Exclusive!End(t)
<1>1. \A u \in Tasks : pc[u] \in Critical => lock = u
  BY DEF IInv, LockHeld
<1>2. ASSUME evo = "gap" PROVE \E u \in Tasks : pc[u] = "rcCreate" /\ lock = u
  BY <1>1, <1>2 DEF IInv, GapOwned, Critical
<1>3. ASSUME Acquire(t) PROVE Exclusive!Begin(t)
  <2>1. lock = NoTask /\ lock' = t /\ UNCHANGED evo
    BY <1>3 DEF Acquire
  <2>2. evo # "gap"
    BY <1>2, <2>1, TasksAssumption
  <2>3. QED
    BY <2>1, <2>2 DEF Exclusive!Begin
<1>4. ASSUME Release(t) PROVE Exclusive!End(t)
  <2>1. lock' = NoTask /\ UNCHANGED evo
    BY <1>4 DEF Release
  <2>2. pc[t] \in Critical /\ pc[t] # "rcCreate"
    BY <1>4, LockLabels DEF Release, Critical
  <2>3. lock = t
    BY <1>1, <2>2
  <2>4. evo # "gap"
    BY <1>2, <2>2, <2>3
  <2>5. QED
    BY <2>1, <2>3, <2>4 DEF Exclusive!End
<1>5. QED
  BY <1>3, <1>4

(* The two steps of a /recreate inside Evolution GO are the abstract ones, *)
(* or leave the instance as it is: a delete that ends in an error without  *)
(* having been carried out.                                                *)
LEMMA AbstractDeleteCreate ==
  ASSUME IInv, NEW t \in Tasks
  PROVE  /\ RecreateDelete(t) => Exclusive!Delete(t) \/ UNCHANGED <<lock, evo>>
         /\ RecreateCreate(t) => Exclusive!Create(t) \/ UNCHANGED <<lock, evo>>
<1>1. pc[t] \in Critical => lock = t
  BY DEF IInv, LockHeld
<1>2. ASSUME RecreateDelete(t) PROVE Exclusive!Delete(t) \/ UNCHANGED <<lock, evo>>
  BY <1>1, <1>2 DEF RecreateDelete, At, Critical, Exclusive!Delete
<1>3. ASSUME RecreateCreate(t) PROVE Exclusive!Create(t) \/ UNCHANGED <<lock, evo>>
  <2>1. lock = t /\ pc[t] = "rcCreate"
    BY <1>1, <1>3 DEF RecreateCreate, At, Critical
  <2>2. evo = "gap"
    BY <2>1 DEF IInv, GapOwned
  <2>3. QED
    BY <1>3, <2>1, <2>2 DEF RecreateCreate, Exclusive!Create
<1>4. QED
  BY <1>2, <1>3

(* The handlers implement the coordinator's promise.                       *)
THEOREM ExclusiveConnectImplemented == Spec => ImplementsExclusiveConnect
<1>1. Init => Exclusive!Init
  BY DEF Init, Exclusive!Init
<1>2. IInv /\ [Next]_vars => [Exclusive!Next]_(Exclusive!vars)
  <2> SUFFICES ASSUME IInv, [Next]_vars
               PROVE  Exclusive!Next \/ UNCHANGED <<lock, evo>>
    BY DEF Exclusive!vars
  <2>1. ASSUME NEW t \in Tasks, Arrive(t) \/ Continue(t)
        PROVE  Exclusive!Next \/ UNCHANGED <<lock, evo>>
    <3>1. CASE Acquire(t) \/ Release(t)
      BY <3>1, AbstractBeginEnd DEF Exclusive!Next
    <3>2. CASE RecreateDelete(t) \/ RecreateCreate(t)
      BY <3>2, AbstractDeleteCreate DEF Exclusive!Next
    <3>3. CASE ~Acquire(t) /\ ~Release(t) /\ ~RecreateDelete(t) /\ ~RecreateCreate(t)
      BY <2>1, <3>3, AbstractStutter
    <3>4. QED
      BY <3>1, <3>2, <3>3
  <2>2. CASE QRExpires \/ UNCHANGED vars
    BY <2>2 DEF QRExpires, vars, shared
  <2>3. CASE Restart
    BY <2>3 DEF Restart, Exclusive!Next, Exclusive!Crash
  <2>4. QED
    BY <2>1, <2>2, <2>3 DEF Next
<1>3. QED
  BY <1>1, <1>2, Inductive, PTL DEF Spec, ImplementsExclusiveConnect, Exclusive!Spec
=============================================================================
