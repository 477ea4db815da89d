---------------------- MODULE CameraLocalClientProofs ----------------------
(***************************************************************************)
(* Theorems about the capture commands of CameraLocalClient, for any set of *)
(* callers, any reports of the card and any devices that fail.              *)
(***************************************************************************)
EXTENDS CameraLocalClient, TLAPS

----------------------------------------------------------------------------
(* Types, one lemma for each group of variables. *)

\* A use of a camera is a call of one device.
LEMMA SomeDrive ==
    ASSUME NEW t \in Threads, UseIr(t) \/ UseRgb(t) \/ UseDualIr(t)
    PROVE  \E d \in Devices, good \in BOOLEAN : Drive(t, d, good)
  <1>1. CASE UseRgb(t)
    <2>1. PICK r \in RgbResults : Drive(t, "rgb", r = "Success")
      BY <1>1 DEF UseRgb
    <2>2. (r = "Success") \in BOOLEAN /\ "rgb" \in Devices
      BY DEF Devices
    <2>3. QED
      BY <2>1, <2>2
  <1>2. CASE UseIr(t) \/ UseDualIr(t)
    BY <1>2 DEF UseIr, UseDualIr, Outcomes, Devices
  <1>3. QED
    BY <1>1, <1>2

\* The initial state is well typed.
LEMMA TypeInit == Init => TypeOK
  <1> SUFFICES ASSUME Init PROVE TypeOK
    OBVIOUS
  <1>1. ThreadTypes
    BY DEF Init, ThreadTypes, Threads, Labels, Operations, Results
  <1>2. CameraTypes
    BY ParametersAssumption DEF Init, CameraTypes, SensorModes
  <1>3. CardTypes
    BY ParametersAssumption DEF Init, CardTypes
  <1>4. TaskTypes
    BY DEF Init, TaskTypes
  <1>5. QED
    BY <1>1, <1>2, <1>3, <1>4 DEF TypeOK

\* Only the notification writes the storage information and its verdict.
LEMMA QuietCard ==
    ASSUME [Next]_vars
    PROVE  UNCHANGED cardVars \/ ReportEnd \/ \E info \in Reports : Notify(info)
  <1>1. ASSUME NEW t \in Threads, Wait(t) PROVE UNCHANGED cardVars
    BY <1>1 DEF Wait, Acquire, Brief, CheckSpace, NoPath, cardVars
  <1>2. ASSUME NEW t \in Threads, Capture(t) PROVE UNCHANGED cardVars
    BY <1>2 DEF Capture, StopNothing, StopSomething, UseIr, PassIr, UseRgb, PassRgb,
                UseDualIr, PassDual, Fail, Finish, Light, cardVars
  <1>3. ASSUME NEW c \in Callers, NEW o \in Operations, Call(c, o) PROVE UNCHANGED cardVars
    BY <1>3 DEF Call
  <1>4. ASSUME NEW m \in SwitchModes, SwitchSensor(m)
        PROVE  UNCHANGED cardVars
    BY <1>4 DEF SwitchSensor
  <1>5. ASSUME NEW c \in Callers, BeginReset(c) \/ Async(c) PROVE UNCHANGED cardVars
    BY <1>5 DEF BeginReset, Async, ResetDefaults, ResetClear, BeginFormat, FormatWork, Join
  <1>6. CASE UNCHANGED vars
    BY <1>6 DEF vars
  <1>7. QED
    BY <1>1, <1>2, <1>3, <1>4, <1>5, <1>6 DEF Next

\* Every step keeps the types of the card's variables.
LEMMA CardNext == ASSUME TypeOK, [Next]_vars PROVE CardTypes'
  <1>1. CASE UNCHANGED cardVars
    BY <1>1 DEF cardVars, TypeOK, CardTypes
  <1>2. CASE ReportEnd
    BY <1>2 DEF ReportEnd, Validity, TypeOK, CardTypes
  <1>3. ASSUME NEW info \in Reports, Notify(info) PROVE CardTypes'
    BY <1>3, ParametersAssumption
    DEF Notify, ReportSame, ReportChange, ReportStop, Validity, TypeOK, CardTypes
  <1>4. QED
    BY <1>1, <1>2, <1>3, QuietCard
\* Every step keeps the types of mode, devices, flag and light.
LEMMA CameraNext == ASSUME TypeOK, [Next]_vars PROVE CameraTypes'
  <1>1. ASSUME NEW t \in Threads, UseIr(t) \/ UseRgb(t) \/ UseDualIr(t) PROVE CameraTypes'
    <2>1. PICK d \in Devices, good \in BOOLEAN : Drive(t, d, good)
      BY <1>1, SomeDrive
    <2>2. rec' \in [Devices -> BOOLEAN] /\ dualLate' \in BOOLEAN
      BY <2>1 DEF Drive, TypeOK, CameraTypes
    <2>3. UNCHANGED <<sensorMode, irCamera, turned>>
      BY <2>1 DEF Drive
    <2>4. QED
      BY <1>1, <2>2, <2>3 DEF UseIr, UseRgb, UseDualIr, TypeOK, CameraTypes
  <1>2. ASSUME NEW t \in Threads, Fail(t) \/ Finish(t) \/ Light(t) PROVE CameraTypes'
    BY <1>2 DEF Fail, Finish, Light, modeVars, videoVars, TypeOK, CameraTypes
  <1>3. ASSUME NEW t \in Threads,
               \/ Wait(t) \/ StopNothing(t) \/ StopSomething(t)
               \/ PassIr(t) \/ PassRgb(t) \/ PassDual(t)
        PROVE  CameraTypes'
    BY <1>3 DEF Wait, Acquire, Brief, CheckSpace, NoPath, StopNothing, StopSomething, PassIr,
       PassRgb, PassDual, modeVars, videoVars, TypeOK, CameraTypes
  <1>4. ASSUME NEW c \in Callers, NEW o \in Operations, Call(c, o) PROVE CameraTypes'
    BY <1>4 DEF Call, modeVars, videoVars, TypeOK, CameraTypes
  <1>5. ASSUME NEW m \in SwitchModes, SwitchSensor(m)
        PROVE  CameraTypes'
    BY <1>5, ParametersAssumption DEF SwitchSensor, videoVars, TypeOK, CameraTypes
  <1>6. ASSUME NEW c \in Callers, BeginReset(c) \/ Async(c) PROVE CameraTypes'
    BY <1>6 DEF BeginReset, Async, ResetDefaults, ResetClear, BeginFormat, FormatWork, Join,
                modeVars, videoVars, TypeOK, CameraTypes, SensorModes
  <1>7. ASSUME NEW info \in Reports, Notify(info) PROVE CameraTypes'
    BY <1>7 DEF Notify, ReportSame, ReportChange, ReportStop, modeVars, videoVars, TypeOK,
       CameraTypes
  <1>8. CASE ReportEnd
    BY <1>8 DEF ReportEnd, modeVars, TypeOK, CameraTypes
  <1>9. CASE UNCHANGED vars
    BY <1>9 DEF vars, modeVars, videoVars, TypeOK, CameraTypes
  <1>10. QED
    BY <1>1, <1>2, <1>3, <1>4, <1>5, <1>6, <1>7, <1>8, <1>9 DEF Next, Capture

\* Every step keeps the types of the tasks and their flags.
LEMMA TaskNext == ASSUME TypeOK, [Next]_vars PROVE TaskTypes'
  <1>1. ASSUME NEW t \in Threads, Wait(t) \/ Capture(t) PROVE TaskTypes'
    BY <1>1 DEF Wait, Acquire, Brief, CheckSpace, NoPath, Capture, StopNothing, StopSomething,
       PassIr, PassRgb, PassDual, UseIr, UseRgb, UseDualIr, Fail, Finish, Light, taskVars,
       TypeOK, TaskTypes
  <1>2. ASSUME NEW c \in Callers, NEW o \in Operations, Call(c, o) PROVE TaskTypes'
    BY <1>2 DEF Call, taskVars, TypeOK, TaskTypes
  <1>3. ASSUME NEW m \in SwitchModes, SwitchSensor(m)
        PROVE  TaskTypes'
    BY <1>3 DEF SwitchSensor, taskVars, TypeOK, TaskTypes
  <1>4. ASSUME NEW c \in Callers, BeginReset(c) PROVE TaskTypes'
    BY <1>4 DEF BeginReset, TypeOK, TaskTypes
  <1>5. ASSUME NEW c \in Callers, BeginFormat(c) PROVE TaskTypes'
    BY <1>5 DEF BeginFormat, TypeOK, TaskTypes
  <1>6. ASSUME NEW c \in Callers, ResetDefaults(c) \/ ResetClear(c) \/ FormatWork(c) \/ Join(c)
        PROVE  TaskTypes'
    BY <1>6 DEF ResetDefaults, ResetClear, FormatWork, Join, TypeOK, TaskTypes
  <1>7. ASSUME NEW info \in Reports, Notify(info) PROVE TaskTypes'
    BY <1>7 DEF Notify, ReportSame, ReportChange, ReportStop, taskVars, TypeOK, TaskTypes
  <1>8. CASE ReportEnd
    BY <1>8 DEF ReportEnd, taskVars, TypeOK, TaskTypes
  <1>9. CASE UNCHANGED vars
    BY <1>9 DEF vars, taskVars, TypeOK, TaskTypes
  <1>10. QED
    BY <1>1, <1>2, <1>3, <1>4, <1>5, <1>6, <1>7, <1>8, <1>9 DEF Next, Async

\* Every step keeps the types of the threads' variables and of the mutexes.
LEMMA ThreadNext == ASSUME TypeOK, [Next]_vars PROVE ThreadTypes'
  <1> USE DEF Goto, Answer, Return
  <1>1. ASSUME NEW t \in Threads, Wait(t) PROVE ThreadTypes'
    BY <1>1, ThreadsAssumption
    DEF Wait, Acquire, Brief, CheckSpace, NoPath, lockVars, TypeOK, ThreadTypes, Labels, Results
  <1>2. ASSUME NEW t \in Threads,
            \/ StopNothing(t) \/ StopSomething(t)
            \/ PassIr(t) \/ PassRgb(t) \/ PassDual(t) \/ Fail(t) \/ Finish(t) \/ Light(t)
        PROVE  ThreadTypes'
    BY <1>2 DEF StopNothing, StopSomething, PassIr, PassRgb, PassDual, Fail, Finish, Light,
            lockVars, TypeOK, ThreadTypes, Labels
  <1>3. ASSUME NEW t \in Threads, UseIr(t) \/ UseRgb(t) \/ UseDualIr(t) PROVE ThreadTypes'
    <2>1. PICK d \in Devices, good \in BOOLEAN : Drive(t, d, good)
      BY <1>3, SomeDrive
    <2>2. ok' \in [Threads -> BOOLEAN]
      BY <2>1 DEF Drive, TypeOK, ThreadTypes
    <2>3. \E r \in Results : res' = [res EXCEPT ![t] = r]
      <3>1. RgbResults \subseteq Results /\ "Success" \in Results /\ "Error" \in Results
        BY ParametersAssumption DEF RgbResults, Results
      <3>2. res[t] \in Results
        BY DEF TypeOK, ThreadTypes
      <3>3. QED
        BY <1>3, <3>1, <3>2 DEF UseIr, UseRgb, UseDualIr
    <2>4. res' \in [Threads -> Results]
      BY <2>3 DEF TypeOK, ThreadTypes
    <2>5. QED
      BY <1>3, <2>2, <2>4 DEF UseIr, UseRgb, UseDualIr, lockVars, TypeOK, ThreadTypes, Labels
  <1>4. ASSUME NEW c \in Callers, NEW o \in Operations, Call(c, o) PROVE ThreadTypes'
    <2>1. ok' \in [Threads -> BOOLEAN]
      BY <1>4 DEF Call, TypeOK, ThreadTypes
    <2>2. pc' \in [Threads -> Labels]
      BY <1>4 DEF Call, TypeOK, ThreadTypes, Labels, Operations, Threads
    <2>3. QED
      BY <1>4, <2>1, <2>2 DEF Call, lockVars, TypeOK, ThreadTypes, Results
  <1>5. ASSUME NEW m \in SwitchModes, SwitchSensor(m)
        PROVE  ThreadTypes'
    BY <1>5 DEF SwitchSensor, threadVars, lockVars, TypeOK, ThreadTypes
  <1>6. ASSUME NEW c \in Callers, BeginReset(c) \/ BeginFormat(c) PROVE ThreadTypes'
    BY <1>6 DEF BeginReset, BeginFormat, lockVars, TypeOK, ThreadTypes, Labels, Results, Threads
  <1>7. ASSUME NEW c \in Callers, ResetDefaults(c) \/ ResetClear(c) \/ FormatWork(c)
        PROVE  ThreadTypes'
    BY <1>7 DEF ResetDefaults, ResetClear, FormatWork, threadVars, lockVars, TypeOK, ThreadTypes
  <1>8. ASSUME NEW c \in Callers, Join(c) PROVE ThreadTypes'
    BY <1>8 DEF Join, TypeOK, ThreadTypes, Labels
  <1>9. ASSUME NEW info \in Reports, ReportSame(info) \/ ReportChange(info) PROVE ThreadTypes'
    BY <1>9 DEF ReportSame, ReportChange, threadVars, lockVars, TypeOK, ThreadTypes, Labels
  <1>10. ASSUME NEW info \in Reports, ReportStop(info) PROVE ThreadTypes'
    <2>1. ok' \in [Threads -> BOOLEAN]
      BY <1>10 DEF ReportStop, TypeOK, ThreadTypes
    <2>2. QED
      BY <1>10, <2>1 DEF ReportStop, TypeOK, ThreadTypes, Labels, Operations, Results, Threads
  <1>11. CASE ReportEnd
    BY <1>11 DEF ReportEnd, TypeOK, ThreadTypes, Labels
  <1>12. CASE UNCHANGED vars
    BY <1>12 DEF vars, threadVars, lockVars, TypeOK, ThreadTypes
  <1>13. QED
    BY <1>1, <1>2, <1>3, <1>4, <1>5, <1>6, <1>7, <1>8, <1>9, <1>10, <1>11, <1>12
    DEF Next, Capture, Async, Notify

\* Every step keeps all types.
LEMMA TypeNext == ASSUME TypeOK, [Next]_vars PROVE TypeOK'
  BY ThreadNext, CameraNext, CardNext, TaskNext DEF TypeOK

\* Every variable keeps its type: no command outlives its hold on the storage
\* mutex, and each answers a result of the conversion, whichever failure the RGB
\* camera reports (all of camera_local_client.cpp's capture commands).
THEOREM TypeCorrect == Spec => []TypeOK
  <1>1. TypeOK /\ [Next]_vars => TypeOK'
    BY TypeNext
  <1>2. QED
    BY <1>1, TypeInit, PTL DEF Spec

----------------------------------------------------------------------------
(* The lock discipline: where each thread is tells who holds which mutex,    *)
(* and a task lives only while its caller waits for it.                      *)

HoldsAction(t) == pc[t] \in Critical \/ (pc[t] = "join" /\ op[t] = "reset")

LockInv ==
    /\ \A t \in Threads : actionMutex = t <=> HoldsAction(t)
    /\ \A t \in Threads : pc[t] \in Critical => op[t] \in {"start", "stop", "photo"}
    /\ storageMutex = StorageThread <=> pc[StorageThread] # "idle"
    /\ pc[StorageThread] \in {"idle", "lock", "reported"} \cup Critical
    /\ pc[StorageThread] \in {"lock"} \cup Critical => op[StorageThread] = "stop"
    /\ \A c \in Callers :
          /\ pc[c] = "claim" => op[c] = "format"
          /\ pc[c] = "join" => task[c] # "none"
          /\ task[c] \in {"reset", "clear"} => pc[c] = "join" /\ op[c] = "reset"
          /\ task[c] = "format" => pc[c] = "join" /\ op[c] = "format"

\* The mutexes are free at the start.
LEMMA LockInit == Init => LockInv
  BY ThreadsAssumption DEF Init, LockInv, HoldsAction, Threads, Critical

\* Every step hands the mutexes on as the places of the threads say.
LEMMA LockNext == ASSUME TypeOK, LockInv, [Next]_vars PROVE LockInv'
  <1> USE DEF LockInv, HoldsAction, At, Goto, Return
  <1>1. ASSUME NEW t \in Threads, Wait(t) PROVE LockInv'
    BY <1>1, ThreadsAssumption
    DEF Wait, Acquire, Brief, CheckSpace, NoPath, Threads, Critical, lockVars, taskVars,
        TypeOK, ThreadTypes
  <1>2. ASSUME NEW t \in Threads, StopNothing(t) \/ Fail(t) \/ Light(t) PROVE LockInv'
    <2>1. /\ pc[t] \in Critical /\ actionMutex' = NoThread
          /\ pc' = [pc EXCEPT ![t] = IF t = StorageThread THEN "reported" ELSE "idle"]
          /\ UNCHANGED <<op, storageMutex, taskVars>>
      BY <1>2 DEF StopNothing, Fail, Light, Critical
    <2> QED BY <2>1, ThreadsAssumption DEF Threads, Critical, taskVars, TypeOK, ThreadTypes
  <1>3. ASSUME NEW t \in Threads, Capture(t), ~StopNothing(t), ~Fail(t), ~Light(t)
        PROVE  LockInv'
    <2>1. pc[t] \in Critical /\ UNCHANGED <<op, lockVars, taskVars>>
      BY <1>3
      DEF Capture, StopSomething, UseIr, PassIr, UseRgb, PassRgb, RgbMode, UseDualIr, PassDual,
          Finish, Critical
    <2>2. \E label \in Critical : pc' = [pc EXCEPT ![t] = label]
      BY <1>3
      DEF Capture, StopSomething, UseIr, PassIr, UseRgb, PassRgb, RgbMode, UseDualIr, PassDual,
          Finish, Critical
    <2>3. QED
      BY <2>1, <2>2, ThreadsAssumption
      DEF Threads, Critical, lockVars, taskVars, TypeOK, ThreadTypes
  <1>4. ASSUME NEW c \in Callers, NEW o \in Operations, Call(c, o) PROVE LockInv'
    <2>1. pc'[c] \in {"space", "lock", "claim"}
      BY <1>4 DEF Call, Operations, Threads, TypeOK, ThreadTypes
    <2>2. pc'[c] = "claim" => op'[c] = "format"
      BY <1>4 DEF Call, Operations, Threads, TypeOK, ThreadTypes
    <2>3. /\ c # StorageThread /\ c \in Threads /\ pc[c] = "idle" /\ UNCHANGED <<lockVars, taskVars>>
          /\ \A u \in Threads : u # c => pc'[u] = pc[u] /\ op'[u] = op[u]
      BY <1>4, ThreadsAssumption DEF Call, Threads, TypeOK, ThreadTypes
    <2>4. QED
      BY <2>1, <2>2, <2>3 DEF Threads, Critical, lockVars, taskVars
  <1>5. ASSUME NEW m \in SwitchModes, SwitchSensor(m) PROVE LockInv'
    BY <1>5 DEF SwitchSensor, threadVars, lockVars, taskVars
  <1>6. ASSUME NEW c \in Callers, BeginReset(c) PROVE LockInv'
    BY <1>6, ThreadsAssumption
    DEF BeginReset, Threads, Critical, TypeOK, ThreadTypes, TaskTypes
  <1>7. ASSUME NEW c \in Callers, BeginFormat(c) PROVE LockInv'
    BY <1>7, ThreadsAssumption
    DEF BeginFormat, Threads, Critical, lockVars, TypeOK, ThreadTypes, TaskTypes
  <1>8. ASSUME NEW c \in Callers, ResetDefaults(c) \/ ResetClear(c) \/ FormatWork(c)
        PROVE  LockInv'
    BY <1>8, ThreadsAssumption
    DEF ResetDefaults, ResetClear, FormatWork, Threads, threadVars, lockVars, TypeOK, TaskTypes
  <1>9. ASSUME NEW c \in Callers, Join(c) PROVE LockInv'
    BY <1>9, ThreadsAssumption DEF Join, Threads, Critical, TypeOK, ThreadTypes, TaskTypes
  <1>10. ASSUME NEW info \in Reports, Notify(info) PROVE LockInv'
    BY <1>10, ThreadsAssumption
    DEF Notify, ReportSame, ReportChange, ReportStop, Threads, Critical, threadVars, lockVars,
        taskVars, TypeOK, ThreadTypes
  <1>11. CASE ReportEnd
    BY <1>11, ThreadsAssumption DEF ReportEnd, Threads, Critical, taskVars, TypeOK, ThreadTypes
  <1>12. CASE UNCHANGED vars
    BY <1>12 DEF vars, threadVars, lockVars, taskVars
  <1>13. QED
    BY <1>1, <1>2, <1>3, <1>4, <1>5, <1>6, <1>7, <1>8, <1>9, <1>10, <1>11, <1>12
    DEF Next, Capture, Async

\* The mutexes are always held by those whose place says so.
LEMMA LockCorrect == Spec => [](TypeOK /\ LockInv)
  <1>1. TypeOK /\ LockInv /\ [Next]_vars => (TypeOK /\ LockInv)'
    BY TypeNext, LockNext
  <1>2. QED
    BY <1>1, TypeInit, LockInit, PTL DEF Spec

\* A thread that owns _action_mutex never waits for _storage_information_mutex
\* (nor for _action_mutex again): the notification thread, which takes them in
\* the opposite order, always gets through.
THEOREM LocksNeverCycle == Spec => []NoLockCycle
  <1>1. LockInv => NoLockCycle
    BY DEF LockInv, HoldsAction, NoLockCycle, At, Critical
  <1>2. QED
    BY <1>1, LockCorrect, PTL

\* Whoever is inside of a call, one of those inside can go on: the holder of the
\* action mutex if it is held, else the one who waits for it, else the
\* notification thread.
THEOREM NobodyStandsStill == Spec => []NoStandstill
  <1>1. ASSUME TypeOK, LockInv PROVE NoStandstill
    <2> USE DEF At
    <2>1. SUFFICES ASSUME NEW t \in Threads, pc[t] # "idle" PROVE \E u \in Threads : CanGo(u)
      BY DEF NoStandstill
    <2>2. \A u \in Callers : pc[u] = "join" => task[u] # "none"
      BY <1>1 DEF LockInv
    <2>3. pc[StorageThread] # "join" /\ pc[StorageThread] # "space" /\ StorageThread \in Threads
      BY <1>1 DEF LockInv, Critical, Threads
    <2>4. \A u \in Threads : pc[u] = "join" => CanGo(u)
      BY <2>2, <2>3 DEF CanGo, Threads
    <2>5. CASE actionMutex \in Threads
      <3>1. pc[actionMutex] \in Critical \/ pc[actionMutex] = "join"
        BY <1>1, <2>5 DEF LockInv, HoldsAction
      <3>2. CanGo(actionMutex)
        BY <2>4, <2>5, <3>1 DEF CanGo, Critical
      <3>3. QED
        BY <2>5, <3>2
    <2>6. CASE actionMutex = NoThread
      <3>1. \A u \in Threads : pc[u] \notin {"idle", "space"} => CanGo(u)
        BY <2>4, <2>6 DEF CanGo
      <3>2. CASE storageMutex = NoThread
        BY <2>1, <3>1, <3>2 DEF CanGo
      <3>3. CASE storageMutex = StorageThread
        BY <1>1, <2>3, <3>1, <3>3 DEF LockInv
      <3>4. QED
        BY <1>1, <3>2, <3>3 DEF TypeOK, ThreadTypes
    <2>7. QED
      BY <1>1, <2>5, <2>6 DEF TypeOK, ThreadTypes
  <1>2. QED
    BY <1>1, LockCorrect, PTL

\* A reset of the camera overlaps no photo, start or stop of any thread.
THEOREM ResetIsExclusive == Spec => []ResetExcludesCapture
  <1>1. TypeOK /\ LockInv => ResetExcludesCapture
    BY DEF TypeOK, ThreadTypes, LockInv, HoldsAction, ResetExcludesCapture, Critical, Threads
  <1>2. QED
    BY <1>1, LockCorrect, PTL

----------------------------------------------------------------------------
(* The flags of the two asynchronous operations. *)

\* _is_reseting is up exactly while a reset task has not dropped it, and so
\* only with the action mutex taken.
ResetFlag ==
    /\ isReseting => \E c \in Callers : task[c] \in {"reset", "clear"}
    /\ ResetNeverBusy

\* What every step other than the asynchronous ones leaves alone, and which
\* answers can be given.
LEMMA QuietTasks ==
    ASSUME [Next]_vars
    PROVE  UNCHANGED taskVars \/ \E c \in Callers : BeginReset(c) \/ Async(c)
  <1>1. ASSUME NEW t \in Threads, Wait(t) PROVE UNCHANGED taskVars
    BY <1>1 DEF Wait, Acquire, Brief, CheckSpace, NoPath, taskVars
  <1>2. ASSUME NEW t \in Threads, Capture(t) PROVE UNCHANGED taskVars
    BY <1>2 DEF Capture, StopNothing, StopSomething, UseIr, PassIr, UseRgb, PassRgb,
                UseDualIr, PassDual, Fail, Finish, Light, taskVars
  <1>3. ASSUME NEW c \in Callers, NEW o \in Operations, Call(c, o) PROVE UNCHANGED taskVars
    BY <1>3 DEF Call
  <1>4. ASSUME NEW m \in SwitchModes, SwitchSensor(m)
        PROVE  UNCHANGED taskVars
    BY <1>4 DEF SwitchSensor
  <1>5. ASSUME NEW info \in Reports, Notify(info) PROVE UNCHANGED taskVars
    BY <1>5 DEF Notify, ReportSame, ReportChange, ReportStop
  <1>6. ASSUME ReportEnd PROVE UNCHANGED taskVars
    BY <1>6 DEF ReportEnd
  <1>7. CASE UNCHANGED vars
    BY <1>7 DEF vars
  <1>8. QED
    BY <1>1, <1>2, <1>3, <1>4, <1>5, <1>6, <1>7 DEF Next

\* Only a reset that finds the flag up and a format answer Busy.
LEMMA BusyAnswers ==
    ASSUME TypeOK, LockInv, ResetNeverBusy, [Next]_vars,
           ~ \E c \in Callers : BeginReset(c)
    PROVE  ResetNeverBusy'
  <1> USE DEF ResetNeverBusy, Answer
  <1>0. ASSUME NEW t \in Threads, UseRgb(t) PROVE ResetNeverBusy'
    <2>1. op[t] # "reset" /\ op' = op
      BY <1>0 DEF UseRgb, RgbMode, At, LockInv, Critical
    <2>2. \A u \in Threads : u # t => res'[u] = res[u]
      BY <1>0 DEF UseRgb, TypeOK, ThreadTypes
    <2>3. QED
      BY <2>1, <2>2 DEF Threads
  <1>1. ASSUME NEW t \in Threads, Wait(t) \/ Capture(t), ~UseRgb(t) PROVE ResetNeverBusy'
    BY <1>1
    DEF Wait, Acquire, Brief, CheckSpace, NoPath, Capture, StopNothing, StopSomething, UseIr,
        PassIr, PassRgb, UseDualIr, PassDual, Fail, Finish, Light, TypeOK, ThreadTypes, Threads
  <1>2. ASSUME NEW c \in Callers, NEW o \in Operations, Call(c, o) PROVE ResetNeverBusy'
    BY <1>2 DEF Call, TypeOK, ThreadTypes, Threads
  <1>3. ASSUME NEW m \in SwitchModes, SwitchSensor(m)
        PROVE  ResetNeverBusy'
    BY <1>3 DEF SwitchSensor, threadVars
  <1>4. ASSUME NEW c \in Callers, BeginFormat(c) PROVE ResetNeverBusy'
    BY <1>4 DEF BeginFormat, LockInv, At, TypeOK, ThreadTypes, Threads
  <1>5. ASSUME NEW c \in Callers, ResetDefaults(c) \/ ResetClear(c) \/ FormatWork(c) \/ Join(c)
        PROVE  ResetNeverBusy'
    BY <1>5 DEF ResetDefaults, ResetClear, FormatWork, Join, threadVars
  <1>6. ASSUME NEW info \in Reports, Notify(info) PROVE ResetNeverBusy'
    BY <1>6, ThreadsAssumption
    DEF Notify, ReportSame, ReportChange, ReportStop, threadVars, TypeOK, ThreadTypes, Threads
  <1>7. CASE ReportEnd
    BY <1>7 DEF ReportEnd
  <1>8. CASE UNCHANGED vars
    BY <1>8 DEF vars, threadVars
  <1>9. QED
    BY <1>0, <1>1, <1>2, <1>3, <1>4, <1>5, <1>6, <1>7, <1>8 DEF Next, Async

\* Every step keeps the reset's flag and its task together.
LEMMA ResetFlagNext == ASSUME TypeOK, LockInv, ResetFlag, [Next]_vars PROVE ResetFlag'
  <1> USE DEF ResetFlag
  <1>1. ASSUME NEW c \in Callers, BeginReset(c) PROVE ResetFlag'
    <2>1. ~isReseting
      BY <1>1, ThreadsAssumption DEF BeginReset, LockInv, HoldsAction, Threads
    <2>2. QED
      BY <1>1, <2>1 DEF BeginReset, ResetNeverBusy, TypeOK, TaskTypes
  <1>2. ASSUME NEW c \in Callers, BeginFormat(c) \/ FormatWork(c) \/ Join(c),
               ~ \E d \in Callers : BeginReset(d)
        PROVE  ResetFlag'
    <2>1. UNCHANGED isReseting
      BY <1>2 DEF BeginFormat, FormatWork, Join
    <2>2. \A d \in Callers : task[d] \in {"reset", "clear"} => task'[d] = task[d]
      BY <1>2 DEF BeginFormat, FormatWork, Join, LockInv, At, TypeOK, TaskTypes
    <2>3. QED
      BY <1>2, <2>1, <2>2, BusyAnswers
  <1>3. ASSUME NEW c \in Callers, ResetDefaults(c), ~ \E d \in Callers : BeginReset(d)
        PROVE  ResetFlag'
    <2>1. task'[c] = "clear"
      BY <1>3 DEF ResetDefaults, TypeOK, TaskTypes
    <2>2. QED
      BY <1>3, <2>1, BusyAnswers
  <1>4. ASSUME NEW c \in Callers, ResetClear(c), ~ \E d \in Callers : BeginReset(d)
        PROVE  ResetFlag'
    BY <1>4, BusyAnswers DEF ResetClear
  <1>5. ASSUME UNCHANGED taskVars, ~ \E d \in Callers : BeginReset(d) PROVE ResetFlag'
    BY <1>5, BusyAnswers DEF taskVars
  <1>6. QED
    BY <1>1, <1>2, <1>3, <1>4, <1>5, QuietTasks DEF Async

\* The Busy answer of reset_settings is never given: a second reset waits for
\* the action mutex until the first one is complete.
THEOREM ResetIsNeverBusy == Spec => []ResetNeverBusy
  <1>1. Init => ResetFlag
    BY DEF Init, ResetFlag, ResetNeverBusy, Threads
  <1>2. TypeOK /\ LockInv /\ ResetFlag /\ [Next]_vars => ResetFlag'
    BY ResetFlagNext
  <1>3. ResetFlag => ResetNeverBusy
    BY DEF ResetFlag
  <1>4. QED
    BY <1>1, <1>2, <1>3, LockCorrect, PTL DEF Spec

\* _is_formatting, claimed with an atomic exchange and no mutex, lets in one
\* format of the card at a time.
THEOREM FormatsExclude == Spec => []OneFormat
  <1>1. Init => OneFormat
    BY DEF Init, OneFormat
  <1>2. ASSUME TypeOK, OneFormat, [Next]_vars PROVE OneFormat'
    <2>1. CASE UNCHANGED taskVars
      BY <1>2, <2>1 DEF OneFormat, taskVars
    <2>2. ASSUME NEW c \in Callers, BeginFormat(c) PROVE OneFormat'
      BY <1>2, <2>2 DEF BeginFormat, OneFormat, TypeOK, TaskTypes
    <2>3. ASSUME NEW c \in Callers, FormatWork(c) PROVE OneFormat'
      BY <1>2, <2>3 DEF FormatWork, OneFormat, TypeOK, TaskTypes
    <2>4. ASSUME NEW c \in Callers,
                 BeginReset(c) \/ ResetDefaults(c) \/ ResetClear(c) \/ Join(c)
          PROVE  OneFormat'
      BY <1>2, <2>4
      DEF BeginReset, ResetDefaults, ResetClear, Join, OneFormat, TypeOK, TaskTypes
    <2>5. QED
      BY <1>2, <2>1, <2>2, <2>3, <2>4, QuietTasks DEF Async
  <1>3. QED
    BY <1>1, <1>2, TypeCorrect, PTL DEF Spec

----------------------------------------------------------------------------
(* The card. *)

\* _sdcard_valid never lags behind the storage information outside of a
\* notification, however the notification interleaves with the commands.
THEOREM CardVerdictIsFresh == Spec => []SdcardEdge
  <1>1. Init => SdcardEdge
    BY DEF Init, SdcardEdge
  <1>2. ASSUME SdcardEdge, [Next]_vars PROVE SdcardEdge'
    <2>1. ASSUME UNCHANGED cardVars, UNCHANGED storageMutex PROVE SdcardEdge'
      BY <1>2, <2>1 DEF SdcardEdge, cardVars, Validity
    <2>2. CASE ReportEnd
      BY <2>2 DEF ReportEnd, SdcardEdge, Validity
    <2>3. ASSUME NEW info \in Reports, Notify(info) PROVE SdcardEdge'
      BY <1>2, <2>3, ThreadsAssumption
      DEF Notify, ReportSame, ReportChange, ReportStop, SdcardEdge, lockVars, Validity
    <2>4. ASSUME ~ReportEnd, ~ \E info \in Reports : Notify(info) PROVE UNCHANGED storageMutex
      BY <1>2, <2>4
      DEF Next, Wait, Acquire, Brief, CheckSpace, NoPath, Capture, StopNothing, StopSomething,
          UseIr, PassIr, UseRgb, PassRgb, UseDualIr, PassDual, Fail, Finish, Light, Call,
          SwitchSensor, BeginReset, Async, ResetDefaults, ResetClear, BeginFormat, FormatWork,
          Join, lockVars, vars
    <2>5. QED
      BY <1>2, <2>1, <2>2, <2>3, <2>4, QuietCard
  <1>3. QED
    BY <1>1, <1>2, PTL DEF Spec

----------------------------------------------------------------------------
(* The flag and the devices, with the sensor mode switched at any moment.     *)

\* A recording that stop_video can end: a device records, and in the mode Dual
\* the one whose answer decides does, unless the mode became Dual too late.
Kept ==
    ~dualLate =>
        /\ rec["rgb"] \/ rec["ir"]
        /\ sensorMode = "Dual" /\ irCamera => rec["ir"]

\* stop_video stopped what it had to and has yet to lower the flag.
Stopped(t) ==
    /\ op[t] = "stop"
    /\ ok[t]
    /\ \/ pc[t] = "finish"
       \/ pc[t] = "dual" /\ ~(sensorMode = "Dual" /\ irCamera)

\* What the reads of the mode told a thread, as long as nobody switches it.
Read(t) ==
    ~turned =>
        /\ pc[t] \in {"second", "third"} /\ sensorMode = "IR" => ~irCamera
        /\ pc[t] = "third" => sensorMode # "Normal"
        /\ pc[t] = "dual" => sensorMode \in {"Normal", "Dual"}

RecInv ==
    /\ \A t \in Threads :
          /\ pc[t] \in {"space", "lock", "flag", "first", "second", "third"} => ~ok[t]
          /\ Read(t)
          /\ pc[t] = "dual" /\ op[t] = "start" /\ (ok[t] \/ res[t] = "Success") => rec["rgb"]
          /\ pc[t] = "finish" /\ op[t] = "start" /\ ok[t] => Kept
    /\ isRecording /\ (\A t \in Threads : ~Stopped(t)) => Kept
    /\ StartTruthful

\* At most one thread is in the body of a capture command.
LEMMA OneInside ==
    ASSUME LockInv, NEW t \in Threads, NEW u \in Threads,
           pc[t] \in Critical, pc[u] \in Critical
    PROVE  t = u
  BY DEF LockInv, HoldsAction

\* A thread moves and neither devices, mode nor flag change: it is enough that
\* the thread itself is in order where it arrives.
LEMMA RecMove ==
    ASSUME TypeOK, RecInv, NEW t \in Threads,
           UNCHANGED <<sensorMode, irCamera, dualLate, rec, isRecording>>,
           turned' = turned \/ \A u \in Threads : pc[u] \notin Critical,
           NEW label \in {"idle", "space", "lock", "claim", "join", "flag", "first", "reported"},
           pc' = [pc EXCEPT ![t] = label],
           \A u \in Threads \ {t} : ok'[u] = ok[u] /\ res'[u] = res[u] /\ op'[u] = op[u],
           label \in {"space", "lock", "flag", "first"} => ~ok'[t],
           ~Stopped(t)
    PROVE  RecInv'
  <1> USE DEF TypeOK, ThreadTypes
  <1>1. \A u \in Threads : u # t => pc'[u] = pc[u]
    OBVIOUS
  <1>2. pc'[t] = label
    OBVIOUS
  <1>3. UNCHANGED Kept /\ UNCHANGED Wanted
    BY DEF Kept, Wanted
  <1>4. \A u \in Threads : u # t => (Stopped(u)' <=> Stopped(u))
    BY <1>1 DEF Stopped
  <1>5. StartTruthful'
    BY <1>1, <1>2, <1>3 DEF RecInv, StartTruthful, At, Critical
  <1>6. (isRecording /\ (\A u \in Threads : ~Stopped(u)) => Kept)'
    BY <1>3, <1>4 DEF RecInv
  <1>7. \A u \in Threads : Read(u)'
    BY <1>1, <1>2 DEF RecInv, Read, Critical
  <1>8. QED
    BY <1>1, <1>2, <1>3, <1>5, <1>6, <1>7 DEF RecInv

\* A thread moves inside the body of its command: the others are outside of
\* theirs, so only its own part of the invariant is at stake.
LEMMA RecOwn ==
    ASSUME TypeOK, LockInv, RecInv, NEW t \in Threads, pc[t] \in Critical,
           NEW label \in {"second", "third", "dual", "finish", "light", "idle", "reported"},
           pc' = [pc EXCEPT ![t] = label],
           \A u \in Threads \ {t} : ok'[u] = ok[u] /\ res'[u] = res[u] /\ op'[u] = op[u],
           label \in {"second", "third"} => ~ok'[t],
           Read(t)',
           label = "dual" =>
              (op'[t] = "start" /\ (ok'[t] \/ res'[t] = "Success") => rec'["rgb"]),
           label = "finish" /\ op'[t] = "start" =>
              /\ ok'[t] => Kept'
              /\ res'[t] = "Success" /\ ~turned' => \A d \in Wanted' : rec'[d],
           (isRecording /\ ~Stopped(t) => Kept)'
    PROVE  RecInv'
  <1> USE DEF TypeOK, ThreadTypes
  <1>1. \A u \in Threads : u # t => pc'[u] = pc[u] /\ pc[u] \notin Critical
    BY OneInside
  <1>2. pc'[t] = label
    OBVIOUS
  <1>3. StartTruthful'
    BY <1>1, <1>2 DEF StartTruthful, At, Critical
  <1>4. (isRecording /\ (\A u \in Threads : ~Stopped(u)) => Kept)'
    OBVIOUS
  <1>5. ASSUME NEW u \in Threads, u # t
        PROVE  /\ pc'[u] \in {"space", "lock", "flag", "first", "second", "third"} => ~ok'[u]
               /\ pc'[u] \notin Critical
    BY <1>1, <1>5 DEF RecInv
  <1>6. \A u \in Threads : Read(u)'
    BY <1>5 DEF Read, Critical
  <1>7. QED
    BY <1>2, <1>3, <1>4, <1>5, <1>6 DEF RecInv, Critical

\* Another sensor mode is selected, in the middle of a command or outside.
LEMMA RecSwitch ==
    ASSUME TypeOK, LockInv, RecInv, NEW m \in SwitchModes, SwitchSensor(m)
    PROVE  RecInv'
  <1>1. CASE m = sensorMode
    <2>1. UNCHANGED <<threadVars, irCamera, sensorMode, dualLate, rec, isRecording>>
      BY <1>1 DEF SwitchSensor, videoVars, TypeOK, CameraTypes
    <2>2. turned' = turned \/ \A u \in Threads : pc[u] \notin Critical
      <3>1. CASE actionMutex = NoThread
        BY <3>1, ThreadsAssumption DEF LockInv, HoldsAction, Threads
      <3>2. CASE actionMutex # NoThread
        BY <1>1, <3>2 DEF SwitchSensor, TypeOK, CameraTypes
      <3>3. QED
        BY <3>1, <3>2
    <2>3. /\ UNCHANGED Kept
          /\ UNCHANGED Wanted
          /\ \A t \in Threads : (Stopped(t)' <=> Stopped(t))
      <3>1. UNCHANGED Kept
        BY <2>1 DEF Kept
      <3>2. UNCHANGED Wanted
        BY <2>1 DEF Wanted
      <3>3. \A t \in Threads : (Stopped(t)' <=> Stopped(t))
        BY <2>1 DEF Stopped, threadVars
      <3>4. QED
        BY <3>1, <3>2, <3>3
    <2>4. StartTruthful' /\ \A t \in Threads : Read(t)'
      BY <2>1, <2>2, <2>3 DEF RecInv, StartTruthful, Read, At, Critical, threadVars
    <2>5. QED
      BY <2>1, <2>3, <2>4 DEF RecInv, threadVars
  <1>2. CASE m # sensorMode
    <2>1. turned' \/ \A u \in Threads : pc[u] \notin Critical
      BY <1>2, ThreadsAssumption DEF SwitchSensor, LockInv, HoldsAction, Threads
    <2>2. UNCHANGED <<threadVars, irCamera, rec, isRecording>> /\ sensorMode' = m
      BY DEF SwitchSensor, videoVars
    <2>3. m = "Dual" => dualLate'
      BY <1>2 DEF SwitchSensor
    <2>4. dualLate => dualLate'
      BY DEF SwitchSensor
    <2>5. Kept => Kept'
      BY <2>2, <2>3, <2>4 DEF Kept
    <2>6. m = "Dual" => Kept'
      BY <2>3 DEF Kept
    <2>7. m # "Dual" => \A t \in Threads : Stopped(t) => Stopped(t)'
      BY <2>2 DEF Stopped, threadVars
    <2>8. (isRecording /\ (\A t \in Threads : ~Stopped(t)) => Kept)'
      BY <2>2, <2>5, <2>6, <2>7 DEF RecInv
    <2>9. StartTruthful' /\ \A t \in Threads : Read(t)'
      BY <2>1, <2>2 DEF StartTruthful, Read, At, Critical, threadVars
    <2>10. QED
      BY <2>2, <2>5, <2>8, <2>9 DEF RecInv, threadVars
  <1>3. QED
    BY <1>1, <1>2

\* Every step keeps what is said of flag and devices.
LEMMA RecNext == ASSUME TypeOK, LockInv, RecInv, [Next]_vars PROVE RecInv'
  <1> USE DEF At, Goto, Return
  <1>1. ASSUME NEW t \in Threads, Wait(t) PROVE RecInv'
    <2>1. pc[t] \in {"space", "lock"}
      BY <1>1 DEF Wait, Acquire, Brief, CheckSpace, NoPath
    <2>2. ~ok[t] /\ ~Stopped(t)
      BY <2>1 DEF RecInv, Stopped
    <2>3. \E label \in {"idle", "lock", "flag", "first", "reported"} :
              pc' = [pc EXCEPT ![t] = label]
      BY <1>1 DEF Wait, Acquire, Brief, CheckSpace, NoPath
    <2>4. /\ UNCHANGED <<op, ok, sensorMode, irCamera, dualLate, rec, isRecording>>
          /\ turned' = turned \/ actionMutex = NoThread
      BY <1>1 DEF Wait, Acquire, Brief, CheckSpace, NoPath, videoVars, modeVars
    <2>5. \A u \in Threads \ {t} : res'[u] = res[u]
      BY <1>1 DEF Wait, Acquire, Brief, CheckSpace, NoPath, Answer, TypeOK, ThreadTypes
    <2>6. turned' = turned \/ \A u \in Threads : pc[u] \notin Critical
      BY <2>4, ThreadsAssumption DEF LockInv, HoldsAction, Threads
    <2>7. QED
      BY <2>2, <2>3, <2>4, <2>5, <2>6, RecMove
  <1>2. ASSUME NEW t \in Threads, StopNothing(t) \/ StopSomething(t) PROVE RecInv'
    <2>1. ~ok[t] /\ ~Stopped(t)
      BY <1>2 DEF StopNothing, StopSomething, RecInv, Stopped
    <2>2. \E label \in {"idle", "reported", "first"} : pc' = [pc EXCEPT ![t] = label]
      BY <1>2 DEF StopNothing, StopSomething
    <2>3. UNCHANGED <<op, ok, res, modeVars, rec, isRecording>>
      BY <1>2 DEF StopNothing, StopSomething, videoVars
    <2>4. QED
      BY <2>1, <2>2, <2>3, RecMove DEF modeVars
  <1>3. ASSUME NEW c \in Callers, NEW o \in Operations, Call(c, o) PROVE RecInv'
    <2>1. ~Stopped(c) /\ c \in Threads
      BY <1>3 DEF Call, Stopped, Threads
    <2>2. \E label \in {"space", "lock", "claim"} : pc' = [pc EXCEPT ![c] = label]
      BY <1>3 DEF Call, Operations
    <2>3. ~ok'[c] /\ UNCHANGED <<modeVars, rec, isRecording>>
      BY <1>3, <2>1 DEF Call, videoVars, TypeOK, ThreadTypes
    <2>4. \A u \in Threads \ {c} : ok'[u] = ok[u] /\ res'[u] = res[u] /\ op'[u] = op[u]
      BY <1>3 DEF Call, Answer, TypeOK, ThreadTypes
    <2>5. QED
      BY <2>1, <2>2, <2>3, <2>4, RecMove DEF modeVars
  <1>4. ASSUME NEW c \in Callers, BeginReset(c) \/ BeginFormat(c) \/ Join(c) PROVE RecInv'
    <2>1. ~Stopped(c) /\ c \in Threads
      BY <1>4 DEF BeginReset, BeginFormat, Join, Stopped, Threads
    <2>2. \E label \in {"idle", "reported", "join"} : pc' = [pc EXCEPT ![c] = label]
      BY <1>4 DEF BeginReset, BeginFormat, Join
    <2>3. UNCHANGED <<op, ok, modeVars, rec, isRecording>>
      BY <1>4 DEF BeginReset, BeginFormat, Join, videoVars, modeVars
    <2>4. \A u \in Threads \ {c} : res'[u] = res[u]
      BY <1>4 DEF BeginReset, BeginFormat, Join, Answer, TypeOK, ThreadTypes
    <2>5. QED
      BY <2>1, <2>2, <2>3, <2>4, RecMove DEF modeVars
  <1>5. ASSUME NEW info \in Reports, ReportStop(info) PROVE RecInv'
    <2> DEFINE s == StorageThread
    <2>1. s \in Threads /\ ~Stopped(s)
      BY <1>5 DEF ReportStop, Stopped, Threads
    <2>2. pc' = [pc EXCEPT ![s] = "lock"]
      BY <1>5 DEF ReportStop
    <2>3. ~ok'[s] /\ UNCHANGED <<modeVars, rec, isRecording>>
      BY <1>5, <2>1 DEF ReportStop, videoVars, TypeOK, ThreadTypes
    <2>4. \A u \in Threads \ {s} : ok'[u] = ok[u] /\ res'[u] = res[u] /\ op'[u] = op[u]
      BY <1>5 DEF ReportStop, Answer, TypeOK, ThreadTypes
    <2>5. QED
      BY <2>1, <2>2, <2>3, <2>4, RecMove DEF modeVars
  <1>6. CASE ReportEnd
    <2>1. StorageThread \in Threads /\ ~Stopped(StorageThread)
      BY <1>6 DEF ReportEnd, Stopped, Threads
    <2>2. pc' = [pc EXCEPT ![StorageThread] = "idle"]
      BY <1>6 DEF ReportEnd
    <2>3. UNCHANGED <<op, ok, res, modeVars, rec, isRecording>>
      BY <1>6 DEF ReportEnd
    <2>4. QED
      BY <2>1, <2>2, <2>3, RecMove DEF modeVars
  <1>7. ASSUME UNCHANGED <<threadVars, modeVars, rec, isRecording>> PROVE RecInv'
    BY <1>7 DEF threadVars, modeVars, RecInv, Kept, Stopped, Read, StartTruthful, Wanted
  <1>8. ASSUME NEW info \in Reports, ReportSame(info) \/ ReportChange(info) PROVE RecInv'
    <2>1. CASE ReportSame(info)
      BY <1>7, <2>1 DEF ReportSame, videoVars
    <2>2. CASE ReportChange(info)
      <3>1. StorageThread \in Threads /\ ~Stopped(StorageThread)
        BY <2>2 DEF ReportChange, Stopped, Threads
      <3>2. pc' = [pc EXCEPT ![StorageThread] = "reported"]
        BY <2>2 DEF ReportChange
      <3>3. UNCHANGED <<op, ok, res, modeVars, rec, isRecording>>
        BY <2>2 DEF ReportChange, videoVars
      <3>4. QED
        BY <3>1, <3>2, <3>3, RecMove DEF modeVars
    <2>3. QED
      BY <1>8, <2>1, <2>2
  <1>9. ASSUME NEW c \in Callers, ResetClear(c) \/ FormatWork(c) PROVE RecInv'
    BY <1>7, <1>9 DEF ResetClear, FormatWork, videoVars
  <1>10. CASE UNCHANGED vars
    BY <1>7, <1>10 DEF vars, videoVars
  <1>11. ASSUME NEW c \in Callers, ResetDefaults(c) PROVE RecInv'
    <2>1. \A t \in Threads : pc[t] \notin Critical
      BY <1>11 DEF ResetDefaults, LockInv, HoldsAction, Threads, Critical
    <2>2. \A t \in Threads : ~Stopped(t) /\ ~Stopped(t)'
      BY <1>11, <2>1 DEF ResetDefaults, threadVars, Stopped, Critical
    <2>3. (isRecording => Kept) => (isRecording => Kept)'
      BY <1>11 DEF ResetDefaults, videoVars, Kept
    <2>4. QED
      BY <1>11, <2>1, <2>2, <2>3
      DEF ResetDefaults, threadVars, videoVars, RecInv, Read, StartTruthful, Critical
  <1>12. ASSUME NEW t \in Threads, UseIr(t) PROVE RecInv'
    <2>1. PICK good \in BOOLEAN : Drive(t, "ir", good)
                                  /\ Answer(t, IF good THEN "Success" ELSE "Error")
      BY <1>12 DEF UseIr, Outcomes
    <2>2. /\ pc[t] = "first" /\ sensorMode = "IR" /\ irCamera
          /\ pc' = [pc EXCEPT ![t] = "finish"]
          /\ UNCHANGED <<op, isRecording, sensorMode, irCamera, turned>>
      BY <1>12, <2>1 DEF UseIr, Drive
    <2>3. /\ ok'[t] = good
          /\ res'[t] = IF good THEN "Success" ELSE "Error"
          /\ \A u \in Threads \ {t} : ok'[u] = ok[u] /\ res'[u] = res[u]
      BY <2>1 DEF Drive, Answer, TypeOK, ThreadTypes
    <2>4. /\ good /\ op[t] = "start" => rec'["ir"]
          /\ ~(good /\ op[t] = "stop") => (rec["ir"] => rec'["ir"])
          /\ rec'["rgb"] = rec["rgb"]
          /\ ~dualLate' => ~dualLate \/ rec'["ir"]
      BY <2>1 DEF Drive, TypeOK, CameraTypes, Devices
    <2>5. \A u \in Threads : ~Stopped(u)
      BY <2>2, OneInside DEF Stopped, Critical
    <2>6. isRecording => Kept
      BY <2>5 DEF RecInv
    <2>7. (isRecording /\ ~Stopped(t) => Kept)'
      BY <2>2, <2>3, <2>4, <2>6 DEF Stopped, Kept, TypeOK, ThreadTypes
    <2>8. op'[t] = "start" =>
            /\ ok'[t] => Kept'
            /\ res'[t] = "Success" => \A d \in Wanted' : rec'[d]
      BY <2>2, <2>3, <2>4 DEF Kept, Wanted
    <2>9. Read(t)'
      BY <2>2 DEF Read, TypeOK, ThreadTypes
    <2>10. QED
      BY <2>2, <2>3, <2>7, <2>8, <2>9, RecOwn DEF Critical
  <1>13. ASSUME NEW t \in Threads, UseRgb(t) PROVE RecInv'
    <2>1. PICK r \in RgbResults : Drive(t, "rgb", r = "Success") /\ Answer(t, r)
      BY <1>13 DEF UseRgb
    <2> DEFINE good == r = "Success"
    <2>2. /\ pc[t] \in {"second", "third"} /\ sensorMode \in {"Normal", "Dual"}
          /\ pc' = [pc EXCEPT ![t] = "dual"]
          /\ UNCHANGED <<op, isRecording, sensorMode, irCamera, turned>>
      BY <1>13, <2>1 DEF UseRgb, RgbMode, Drive
    <2>3. /\ ok'[t] = good
          /\ res'[t] = r
          /\ \A u \in Threads \ {t} : ok'[u] = ok[u] /\ res'[u] = res[u]
      BY <2>1 DEF Drive, Answer, TypeOK, ThreadTypes
    <2>4. /\ good /\ op[t] = "start" => rec'["rgb"]
          /\ ~(good /\ op[t] = "stop") => (rec["rgb"] => rec'["rgb"])
          /\ rec'["ir"] = rec["ir"]
          /\ dualLate' <=> dualLate
      BY <2>1 DEF Drive, TypeOK, CameraTypes, Devices
    <2>5. \A u \in Threads : ~Stopped(u)
      BY <2>2, OneInside DEF Stopped, Critical
    <2>6. isRecording => Kept
      BY <2>5 DEF RecInv
    <2>7. (isRecording /\ ~Stopped(t) => Kept)'
      BY <2>2, <2>3, <2>4, <2>6 DEF Stopped, Kept, TypeOK, ThreadTypes
    <2>8. op'[t] = "start" /\ (ok'[t] \/ res'[t] = "Success") => rec'["rgb"]
      BY <2>2, <2>3, <2>4
    <2>9. Read(t)'
      BY <2>2 DEF Read, TypeOK, ThreadTypes
    <2>10. pc[t] \in Critical
      BY <2>2 DEF Critical
    <2>11. QED
      BY <2>2, <2>3, <2>7, <2>8, <2>9, <2>10, RecOwn
  <1>14. ASSUME NEW t \in Threads, UseDualIr(t) PROVE RecInv'
    <2>1. PICK good \in BOOLEAN :
              /\ Drive(t, "ir", good)
              /\ Answer(t, IF op[t] = "start" /\ ~good THEN "Error" ELSE res[t])
      BY <1>14 DEF UseDualIr, Outcomes
    <2>2. /\ pc[t] = "dual" /\ sensorMode = "Dual" /\ irCamera
          /\ pc' = [pc EXCEPT ![t] = "finish"]
          /\ UNCHANGED <<op, isRecording, sensorMode, irCamera, turned>>
      BY <1>14, <2>1 DEF UseDualIr, Drive
    <2>3. /\ ok'[t] = good
          /\ res'[t] = IF op[t] = "start" /\ ~good THEN "Error" ELSE res[t]
          /\ \A u \in Threads \ {t} : ok'[u] = ok[u] /\ res'[u] = res[u]
      BY <2>1 DEF Drive, Answer, TypeOK, ThreadTypes
    <2>4. /\ good /\ op[t] = "start" => rec'["ir"]
          /\ ~(good /\ op[t] = "stop") => (rec["ir"] => rec'["ir"])
          /\ rec'["rgb"] = rec["rgb"]
          /\ ~dualLate' => ~dualLate \/ rec'["ir"]
      BY <2>1 DEF Drive, TypeOK, CameraTypes, Devices
    <2>5. \A u \in Threads : ~Stopped(u)
      BY <2>2, OneInside DEF Stopped, Critical
    <2>6. isRecording => Kept
      BY <2>5 DEF RecInv
    <2>7. (isRecording /\ ~Stopped(t) => Kept)'
      BY <2>2, <2>3, <2>4, <2>6 DEF Stopped, Kept, TypeOK, ThreadTypes
    <2>8. op[t] = "start" /\ res[t] = "Success" => rec["rgb"]
      BY <2>2 DEF RecInv
    <2>9. op'[t] = "start" =>
            /\ ok'[t] => Kept'
            /\ res'[t] = "Success" => \A d \in Wanted' : rec'[d]
      BY <2>2, <2>3, <2>4, <2>8 DEF Kept, Wanted
    <2>10. Read(t)'
      BY <2>2 DEF Read, TypeOK, ThreadTypes
    <2>11. QED
      BY <2>2, <2>3, <2>7, <2>9, <2>10, RecOwn DEF Critical
  <1>15. ASSUME NEW t \in Threads, PassIr(t) \/ PassRgb(t) \/ PassDual(t) PROVE RecInv'
    <2>1. UNCHANGED <<op, ok, res, modeVars, rec, isRecording>>
      BY <1>15 DEF PassIr, PassRgb, PassDual, videoVars
    <2>2. pc[t] \in Critical
      BY <1>15 DEF PassIr, PassRgb, PassDual, At, Critical
    <2>3. \A u \in Threads : u # t => ~Stopped(u)
      BY <2>2, OneInside DEF Stopped, Critical
    <2>4. isRecording /\ ~Stopped(t) => Kept
      BY <2>3 DEF RecInv
    <2>5. UNCHANGED Kept /\ UNCHANGED Wanted
      BY <2>1 DEF Kept, Wanted, modeVars
    <2>6. CASE PassIr(t) \/ PassRgb(t)
      <3>1. ~ok[t] /\ ~ok'[t]
        BY <2>1, <2>6 DEF PassIr, PassRgb, RecInv
      <3>2. PICK label \in {"second", "third", "finish"} : pc' = [pc EXCEPT ![t] = label]
        BY <2>6 DEF PassIr, PassRgb
      <3>3. pc'[t] = label
        BY <3>2 DEF TypeOK, ThreadTypes
      <3>4. (isRecording /\ ~Stopped(t) => Kept)'
        BY <2>1, <2>4, <2>5, <3>1 DEF Stopped
      <3>5. Read(t)
        BY DEF RecInv
      <3>6. Read(t)'
        BY <2>1, <2>6, <3>3, <3>5
        DEF PassIr, PassRgb, RgbMode, Read, modeVars, TypeOK, ThreadTypes, CameraTypes
      <3>7. label = "finish" /\ op[t] = "start" /\ ~turned => sensorMode = "IR" /\ ~irCamera
        BY <2>6, <3>3, <3>5
        DEF PassIr, PassRgb, RgbMode, Read, TypeOK, ThreadTypes, CameraTypes, SensorModes
      <3>8. label = "finish" /\ op'[t] = "start" /\ ~turned' => Wanted' = {}
        BY <2>1, <2>5, <3>7 DEF Wanted, modeVars
      <3>9. QED
        BY <2>1, <2>2, <3>1, <3>2, <3>4, <3>6, <3>8, RecOwn
    <2>7. CASE PassDual(t)
      <3>1. /\ pc[t] = "dual" /\ pc' = [pc EXCEPT ![t] = "finish"]
            /\ ~(sensorMode = "Dual" /\ irCamera)
        BY <2>7 DEF PassDual
      <3>2. ~turned => sensorMode \in {"Normal", "Dual"}
        BY <3>1 DEF RecInv, Read
      <3>3. Stopped(t)' <=> Stopped(t)
        BY <2>1, <3>1 DEF Stopped, TypeOK, ThreadTypes
      <3>4. (isRecording /\ ~Stopped(t) => Kept)'
        BY <2>1, <2>4, <2>5, <3>3
      <3>5. op[t] = "start" /\ (ok[t] \/ res[t] = "Success") => rec["rgb"]
        BY <3>1 DEF RecInv
      <3>6. op'[t] = "start" =>
               /\ ok'[t] => Kept'
               /\ res'[t] = "Success" /\ ~turned' => \A d \in Wanted' : rec'[d]
        BY <2>1, <3>1, <3>2, <3>5 DEF Kept, Wanted, modeVars
      <3>7. Read(t)'
        BY <3>1 DEF Read, TypeOK, ThreadTypes
      <3>8. QED
        BY <2>1, <2>2, <3>1, <3>4, <3>6, <3>7, RecOwn
    <2>8. QED
      BY <1>15, <2>6, <2>7
  <1>16. ASSUME NEW t \in Threads, Fail(t) \/ Finish(t) \/ Light(t) PROVE RecInv'
    <2>1. /\ pc[t] \in {"finish", "light"}
          /\ \E label \in {"light", "idle", "reported"} : pc' = [pc EXCEPT ![t] = label]
          /\ UNCHANGED <<op, ok, res, modeVars, rec>>
      BY <1>16 DEF Fail, Finish, Light, videoVars
    <2>2. \A u \in Threads : u # t => ~Stopped(u)
      BY <2>1, OneInside DEF Stopped, Critical
    <2>3. isRecording' => \/ isRecording /\ ~Stopped(t)
                          \/ pc[t] = "finish" /\ op[t] = "start" /\ ok[t]
      BY <1>16, <2>1 DEF Fail, Finish, Light, videoVars, Stopped
    <2>4. isRecording' => Kept
      BY <2>1, <2>2, <2>3 DEF RecInv
    <2>5. (isRecording /\ ~Stopped(t) => Kept)'
      BY <2>1, <2>4 DEF Kept, modeVars
    <2>6. Read(t)'
      BY <2>1 DEF Read, TypeOK, ThreadTypes
    <2>7. QED
      BY <2>1, <2>5, <2>6, RecOwn DEF Critical
  <1>17. QED
    BY <1>1, <1>2, <1>3, <1>4, <1>5, <1>6, <1>8, <1>9, <1>10, <1>11, <1>12, <1>13, <1>14,
       <1>15, <1>16, RecSwitch
    DEF Next, Capture, Async, Notify

\* The flag is up between two commands only if a device records, whatever the
\* devices fail to do and whenever the sensor mode is switched, but for a mode
\* that became Dual after the recording began.
THEOREM FlagIsTrue == Spec => []FlagImpliesDevice
  <1>1. Init => RecInv
    BY DEF Init, RecInv, Read, StartTruthful, At, Threads
  <1>2. TypeOK /\ LockInv /\ RecInv /\ [Next]_vars => RecInv'
    BY RecNext
  <1>3. RecInv => FlagImpliesDevice
    BY DEF RecInv, FlagImpliesDevice, Stopped, Kept, Critical, Devices
  <1>4. QED
    BY <1>1, <1>2, <1>3, LockCorrect, PTL DEF Spec

\* And a start_video that answers Success did start every camera of the mode,
\* unless the mode was switched while it ran.
THEOREM StartIsTruthful == Spec => []StartTruthful
  <1>1. Init => RecInv
    BY DEF Init, RecInv, Read, StartTruthful, At, Threads
  <1>2. TypeOK /\ LockInv /\ RecInv /\ [Next]_vars => RecInv'
    BY RecNext
  <1>3. RecInv => StartTruthful
    BY DEF RecInv
  <1>4. QED
    BY <1>1, <1>2, <1>3, LockCorrect, PTL DEF Spec

----------------------------------------------------------------------------
(* What the threads know, for any change of the sensor mode at any time. *)

\* What a thread knows of devices and flag: it has had no success before it
\* holds the mutex, past its look at the flag stop_video has it up until it
\* lowers it, start_video has raised it when the light follows, and a success
\* shows in the devices.
Knows(t) ==
    /\ pc[t] \in {"space", "lock"} => ~ok[t]
    /\ pc[t] \in Critical \ {"flag", "light"} /\ op[t] = "stop" => isRecording
    /\ pc[t] = "light" /\ op[t] = "start" => isRecording
    /\ pc[t] \in Critical /\ ok[t] =>
          /\ op[t] = "start" => \E d \in Devices : rec[d]
          /\ op[t] = "stop" => \E d \in Devices : ~rec[d]

AllKnow == \A t \in Threads : Knows(t)

\* A thread moves, and changes devices and flag only inside of its command: it
\* is enough that it knows what it has to.
LEMMA KnowsMove ==
    ASSUME AllKnow, NEW t \in Threads,
           \A u \in Threads \ {t} : pc'[u] = pc[u] /\ op'[u] = op[u] /\ ok'[u] = ok[u],
           UNCHANGED <<rec, isRecording>> \/ \A u \in Threads \ {t} : pc[u] \notin Critical,
           Knows(t)'
    PROVE  AllKnow'
  <1>1. ASSUME NEW u \in Threads, u # t PROVE Knows(u)'
    BY <1>1 DEF AllKnow, Knows, Critical
  <1>2. QED
    BY <1>1 DEF AllKnow

\* A device call inside of a command.
LEMMA KnowsDrive ==
    ASSUME TypeOK, LockInv, AllKnow,
           NEW t \in Threads, NEW d \in Devices, NEW good \in BOOLEAN, Drive(t, d, good),
           NEW label \in {"dual", "finish"}, pc' = [pc EXCEPT ![t] = label],
           pc[t] \in {"first", "second", "third", "dual"}, op' = op,
           isRecording' = isRecording
    PROVE  AllKnow'
  <1>1. /\ pc'[t] = label /\ ok'[t] = good
        /\ \A u \in Threads \ {t} : pc'[u] = pc[u] /\ ok'[u] = ok[u]
    BY DEF Drive, TypeOK, ThreadTypes
  <1>2. \A u \in Threads \ {t} : pc[u] \notin Critical
    BY OneInside DEF Critical
  <1>3. good /\ op[t] \in {"start", "stop"} => rec'[d] = (op[t] = "start")
    BY DEF Drive, TypeOK, CameraTypes
  <1>4. Knows(t)
    BY DEF AllKnow
  <1>5. Knows(t)'
    BY <1>1, <1>3, <1>4 DEF Knows, Critical
  <1>6. QED
    BY <1>1, <1>2, <1>5, KnowsMove

\* Every step keeps what the threads know.
LEMMA KnowsNext == ASSUME TypeOK, LockInv, AllKnow, [Next]_vars PROVE AllKnow'
  <1> USE DEF At, Goto, Return
  <1>0. \A t \in Threads : Knows(t)
    BY DEF AllKnow
  <1>1. ASSUME NEW t \in Threads, Wait(t) PROVE AllKnow'
    <2>1. /\ pc[t] \in {"space", "lock"} /\ UNCHANGED <<op, ok, rec, isRecording>>
          /\ \E label \in {"idle", "lock", "flag", "first", "reported"} :
                pc' = [pc EXCEPT ![t] = label] /\ (label = "first" => op[t] # "stop")
      BY <1>1 DEF Wait, Acquire, Brief, CheckSpace, NoPath, videoVars
    <2>2. Knows(t)'
      BY <1>0, <2>1 DEF Knows, Critical, TypeOK, ThreadTypes
    <2>3. QED
      BY <2>1, <2>2, KnowsMove DEF TypeOK, ThreadTypes
  <1>2. ASSUME NEW t \in Threads, StopNothing(t) \/ Fail(t) \/ Finish(t) \/ Light(t)
        PROVE  AllKnow'
    <2>1. /\ pc[t] \in Critical /\ UNCHANGED <<op, ok, rec>>
          /\ \E label \in {"idle", "reported", "light"} :
                /\ pc' = [pc EXCEPT ![t] = label]
                /\ label = "light" /\ op[t] = "start" => pc[t] = "finish" /\ isRecording'
      BY <1>2 DEF StopNothing, Fail, Finish, Light, videoVars, Critical
    <2>2. \A u \in Threads \ {t} : pc[u] \notin Critical
      BY <2>1, OneInside
    <2>3. Knows(t)'
      BY <1>0, <2>1 DEF Knows, Critical, TypeOK, ThreadTypes
    <2>4. QED
      BY <2>1, <2>2, <2>3, KnowsMove DEF TypeOK, ThreadTypes
  <1>3. ASSUME NEW t \in Threads, StopSomething(t) \/ PassIr(t) \/ PassRgb(t) \/ PassDual(t)
        PROVE  AllKnow'
    <2>1. /\ pc[t] \in Critical /\ UNCHANGED <<op, ok, rec, isRecording>>
          /\ pc[t] = "flag" => isRecording
          /\ \E label \in {"first", "second", "third", "finish"} :
                /\ pc' = [pc EXCEPT ![t] = label]
                /\ pc[t] \notin {"light"}
      BY <1>3 DEF StopSomething, PassIr, PassRgb, PassDual, videoVars, Critical
    <2>2. Knows(t)'
      BY <1>0, <2>1 DEF Knows, Critical, TypeOK, ThreadTypes
    <2>3. QED
      BY <2>1, <2>2, KnowsMove DEF TypeOK, ThreadTypes
  <1>4. ASSUME NEW t \in Threads, UseIr(t) \/ UseRgb(t) \/ UseDualIr(t) PROVE AllKnow'
    <2>1. \E d \in Devices, good \in BOOLEAN : Drive(t, d, good)
      BY <1>4, SomeDrive
    <2>2. /\ pc[t] \in {"first", "second", "third", "dual"}
          /\ \E label \in {"dual", "finish"} : pc' = [pc EXCEPT ![t] = label]
          /\ op' = op /\ isRecording' = isRecording
      BY <1>4 DEF UseIr, UseRgb, RgbMode, UseDualIr
    <2>3. QED
      BY <2>1, <2>2, KnowsDrive
  <1>5. ASSUME NEW c \in Callers, NEW o \in Operations, Call(c, o) PROVE AllKnow'
    <2>1. /\ c \in Threads
          /\ \E label \in {"space", "lock", "claim"} : pc' = [pc EXCEPT ![c] = label]
          /\ op' = [op EXCEPT ![c] = o] /\ ok' = [ok EXCEPT ![c] = FALSE]
          /\ UNCHANGED <<rec, isRecording>>
      BY <1>5 DEF Call, Operations, Threads, videoVars
    <2>2. Knows(c)'
      BY <2>1 DEF Knows, Critical, TypeOK, ThreadTypes
    <2>3. QED
      BY <2>1, <2>2, KnowsMove DEF TypeOK, ThreadTypes
  <1>6. ASSUME NEW c \in Callers, BeginReset(c) \/ BeginFormat(c) \/ Join(c) PROVE AllKnow'
    <2>1. /\ c \in Threads /\ UNCHANGED <<op, ok, rec, isRecording>>
          /\ \E label \in {"idle", "reported", "join"} : pc' = [pc EXCEPT ![c] = label]
      BY <1>6 DEF BeginReset, BeginFormat, Join, Threads, videoVars
    <2>2. Knows(c)'
      BY <2>1 DEF Knows, Critical, TypeOK, ThreadTypes
    <2>3. QED
      BY <2>1, <2>2, KnowsMove DEF TypeOK, ThreadTypes
  <1>7. ASSUME NEW info \in Reports, ReportStop(info) PROVE AllKnow'
    <2> DEFINE s == StorageThread
    <2>1. /\ s \in Threads /\ pc' = [pc EXCEPT ![s] = "lock"]
          /\ op' = [op EXCEPT ![s] = "stop"] /\ ok' = [ok EXCEPT ![s] = FALSE]
          /\ UNCHANGED <<rec, isRecording>>
      BY <1>7 DEF ReportStop, Threads, videoVars
    <2>2. Knows(s)'
      BY <2>1 DEF Knows, Critical, TypeOK, ThreadTypes
    <2>3. QED
      BY <2>1, <2>2, KnowsMove DEF TypeOK, ThreadTypes
  <1>8. CASE ReportEnd
    <2>1. /\ StorageThread \in Threads /\ UNCHANGED <<op, ok, rec, isRecording>>
          /\ pc' = [pc EXCEPT ![StorageThread] = "idle"]
      BY <1>8 DEF ReportEnd, Threads
    <2>2. Knows(StorageThread)'
      BY <2>1 DEF Knows, Critical, TypeOK, ThreadTypes
    <2>3. QED
      BY <2>1, <2>2, KnowsMove DEF TypeOK, ThreadTypes
  <1>9. ASSUME UNCHANGED <<threadVars, rec, isRecording>> PROVE AllKnow'
    BY <1>9 DEF threadVars, AllKnow, Knows
  <1>10. ASSUME NEW info \in Reports, ReportSame(info) \/ ReportChange(info) PROVE AllKnow'
    <2> DEFINE s == StorageThread
    <2>1. CASE ReportSame(info)
      BY <1>9, <2>1 DEF ReportSame, videoVars
    <2>2. CASE ReportChange(info)
      <3>1. /\ s \in Threads /\ pc' = [pc EXCEPT ![s] = "reported"]
            /\ UNCHANGED <<op, ok, rec, isRecording>>
        BY <2>2 DEF ReportChange, Threads, videoVars
      <3>2. Knows(s)'
        BY <3>1 DEF Knows, Critical, TypeOK, ThreadTypes
      <3>3. QED
        BY <3>1, <3>2, KnowsMove DEF TypeOK, ThreadTypes
    <2>3. QED
      BY <1>10, <2>1, <2>2
  <1>11. ASSUME NEW c \in Callers, ResetDefaults(c) \/ ResetClear(c) \/ FormatWork(c)
         PROVE  AllKnow'
    BY <1>9, <1>11 DEF ResetDefaults, ResetClear, FormatWork, videoVars
  <1>11a. ASSUME NEW m \in SwitchModes, SwitchSensor(m) PROVE AllKnow'
    BY <1>9, <1>11a DEF SwitchSensor, videoVars
  <1>12. CASE UNCHANGED vars
    BY <1>9, <1>12 DEF vars, videoVars
  <1>13. QED
    BY <1>1, <1>2, <1>3, <1>4, <1>5, <1>6, <1>7, <1>8, <1>10, <1>11, <1>11a, <1>12
    DEF Next, Capture, Async, Notify

\* The threads always know it.
LEMMA KnowsCorrect == Spec => [](TypeOK /\ LockInv /\ AllKnow)
  <1>1. Init => AllKnow
    BY DEF Init, AllKnow, Knows, Critical
  <1>2. TypeOK /\ LockInv /\ AllKnow /\ [Next]_vars => AllKnow'
    BY KnowsNext
  <1>3. QED
    BY <1>1, <1>2, LockCorrect, PTL DEF Spec

----------------------------------------------------------------------------
(* The light. *)

\* A thread that is not about to change the light moves, and flag and light stay.
LEMMA LightMove ==
    ASSUME RecordingLight, NEW t \in Threads, pc[t] # "light", UNCHANGED <<led, isRecording>>,
           \A u \in Threads \ {t} : pc'[u] = pc[u] /\ op'[u] = op[u]
    PROVE  RecordingLight'
  BY DEF RecordingLight, At

\* Only the end of a command and the card's notification touch flag and light.
LEMMA LightNext == ASSUME TypeOK, AllKnow, RecordingLight, [Next]_vars PROVE RecordingLight'
  <1> USE DEF At, Goto, Return
  <1>1. ASSUME NEW t \in Threads, Finish(t) PROVE RecordingLight'
    BY <1>1 DEF Finish, RecordingLight, TypeOK, ThreadTypes
  <1>2. ASSUME NEW t \in Threads, Light(t) PROVE RecordingLight'
    BY <1>2 DEF Light, RecordingLight, AllKnow, Knows
  <1>3. ASSUME NEW t \in Threads, Wait(t) PROVE RecordingLight'
    <2>1. /\ pc[t] # "light" /\ UNCHANGED <<op, led, isRecording>>
          /\ \E label \in Labels : pc' = [pc EXCEPT ![t] = label]
      BY <1>3 DEF Wait, Acquire, Brief, CheckSpace, NoPath, videoVars, Labels
    <2>2. QED
      BY <2>1, LightMove DEF TypeOK, ThreadTypes
  <1>4. ASSUME NEW t \in Threads, Capture(t), ~Finish(t), ~Light(t) PROVE RecordingLight'
    <2>1. /\ pc[t] # "light" /\ UNCHANGED <<op, led, isRecording>>
          /\ \E label \in Labels : pc' = [pc EXCEPT ![t] = label]
      BY <1>4 DEF Capture, StopNothing, StopSomething, UseIr, PassIr, UseRgb, PassRgb, RgbMode,
                  UseDualIr, PassDual, Fail, videoVars, Labels
    <2>2. QED
      BY <2>1, LightMove DEF TypeOK, ThreadTypes
  <1>5. ASSUME NEW c \in Callers, NEW o \in Operations, Call(c, o) PROVE RecordingLight'
    <2>1. /\ c \in Threads /\ pc[c] # "light" /\ UNCHANGED <<led, isRecording>>
          /\ \A u \in Threads \ {c} : pc'[u] = pc[u] /\ op'[u] = op[u]
      BY <1>5 DEF Call, videoVars, Threads, TypeOK, ThreadTypes
    <2>2. QED
      BY <2>1, LightMove
  <1>6. ASSUME NEW c \in Callers, BeginReset(c) \/ BeginFormat(c) \/ Join(c)
        PROVE  RecordingLight'
    <2>1. /\ c \in Threads /\ pc[c] # "light" /\ UNCHANGED <<op, led, isRecording>>
          /\ \E label \in Labels : pc' = [pc EXCEPT ![c] = label]
      BY <1>6 DEF BeginReset, BeginFormat, Join, videoVars, Threads, Labels
    <2>2. QED
      BY <2>1, LightMove DEF TypeOK, ThreadTypes
  <1>7. ASSUME NEW info \in Reports, Notify(info) PROVE RecordingLight'
    <2>1. /\ StorageThread \in Threads /\ pc[StorageThread] # "light"
          /\ UNCHANGED <<led, isRecording>>
          /\ \A u \in Threads \ {StorageThread} : pc'[u] = pc[u] /\ op'[u] = op[u]
      BY <1>7
      DEF Notify, ReportSame, ReportChange, ReportStop, threadVars, videoVars, Threads, TypeOK,
          ThreadTypes
    <2>2. QED
      BY <2>1, LightMove
  <1>8. CASE ReportEnd
    BY <1>8 DEF ReportEnd, RecordingLight
  <1>9. ASSUME UNCHANGED <<threadVars, videoVars>> PROVE RecordingLight'
    BY <1>9 DEF threadVars, videoVars, RecordingLight
  <1>10. ASSUME NEW c \in Callers, ResetDefaults(c) \/ ResetClear(c) \/ FormatWork(c)
         PROVE  RecordingLight'
    BY <1>9, <1>10 DEF ResetDefaults, ResetClear, FormatWork
  <1>11. ASSUME NEW m \in SwitchModes, SwitchSensor(m) PROVE RecordingLight'
    BY <1>9, <1>11 DEF SwitchSensor
  <1>12. CASE UNCHANGED vars
    BY <1>9, <1>12 DEF vars
  <1>13. QED
    BY <1>1, <1>2, <1>3, <1>4, <1>5, <1>6, <1>7, <1>8, <1>10, <1>11, <1>12 DEF Next, Async

\* The recording light is on only while the flag is up, but for a stop between
\* its store of the flag and its change of the light, whatever the card's
\* notification does to the light meanwhile.
THEOREM LightIsTrue == Spec => []RecordingLight
  <1>1. Init => RecordingLight
    BY DEF Init, RecordingLight
  <1>2. TypeOK /\ AllKnow /\ RecordingLight /\ [Next]_vars => RecordingLight'
    BY LightNext
  <1>3. QED
    BY <1>1, <1>2, KnowsCorrect, PTL DEF Spec

----------------------------------------------------------------------------
(* The abstract recorder. *)

\* What the holder of the mutex does.
Doing == IF actionMutex = NoThread THEN "none" ELSE op[actionMutex]

\* The holder of the mutex never begins another operation.
LEMMA SameDoing ==
    ASSUME TypeOK, NEW t \in Threads, ~HoldsAction(t), LockInv, UNCHANGED actionMutex,
           \A u \in Threads \ {t} : op'[u] = op[u]
    PROVE  Doing' = Doing
  BY DEF Doing, LockInv, TypeOK, ThreadTypes

\* Every step is one of the recorder, or leaves it alone.
LEMMA RecorderStep ==
    ASSUME TypeOK, LockInv, AllKnow, [Next]_vars
    PROVE  [Cameras!Next]_(Cameras!recorderVars)
  <1> USE DEF At, Goto, Return
  <1> DEFINE Idle == UNCHANGED <<actionMutex, Doing, rec, isRecording>>
  <1>1. ASSUME UNCHANGED <<actionMutex, op, rec, isRecording>> PROVE Idle
    BY <1>1 DEF Doing
  <1>2. ASSUME Idle PROVE UNCHANGED Cameras!recorderVars
    BY <1>2 DEF Cameras!recorderVars, Doing
  <1>3. ASSUME NEW t \in Threads, Acquire(t) PROVE Cameras!Next
    <2>1. /\ actionMutex = NoThread /\ actionMutex' = t /\ t # NoThread
          /\ op[t] \in Operations /\ UNCHANGED <<op, rec, isRecording>>
      BY <1>3, ThreadsAssumption DEF Acquire, videoVars, Threads, TypeOK, ThreadTypes
    <2>2. Cameras!Enter(t, op[t])
      BY <2>1 DEF Cameras!Enter
    <2>3. QED
      BY <2>1, <2>2 DEF Cameras!Next
  <1>4. ASSUME NEW c \in Callers, BeginReset(c) PROVE Cameras!Next \/ Idle
    <2>1. CASE UNCHANGED actionMutex
      BY <1>1, <1>4, <2>1 DEF BeginReset, videoVars
    <2>2. CASE actionMutex' = c
      <3>1. /\ actionMutex = NoThread /\ c # NoThread /\ c \in Threads
            /\ op[c] \in Operations /\ UNCHANGED <<op, rec, isRecording>>
        BY <1>4, ThreadsAssumption DEF BeginReset, videoVars, Threads, Operations
      <3>2. Cameras!Enter(c, op[c])
        BY <2>2, <3>1 DEF Cameras!Enter
      <3>3. QED
        BY <3>1, <3>2 DEF Cameras!Next
    <2>3. QED
      BY <1>4, <2>1, <2>2 DEF BeginReset
  <1>5. ASSUME NEW t \in Threads, UseIr(t) \/ UseRgb(t) \/ UseDualIr(t)
        PROVE  Cameras!Next \/ Idle
    <2>1. PICK d \in Devices, good \in BOOLEAN : Drive(t, d, good)
      BY <1>5, SomeDrive
    <2>2. pc[t] \in Critical \ {"flag", "light"} /\ UNCHANGED <<op, isRecording, actionMutex>>
      BY <1>5 DEF UseIr, UseRgb, RgbMode, UseDualIr, Critical, lockVars
    <2>3. actionMutex = t /\ t # NoThread
      BY <2>2, ThreadsAssumption DEF LockInv, HoldsAction, Threads
    <2>4. op[t] = "stop" => isRecording
      BY <2>2 DEF AllKnow, Knows
    <2>5. CASE good /\ op[t] = "start"
      <3>1. Cameras!TurnOn(d)
        BY <2>1, <2>2, <2>3, <2>5 DEF Drive, Cameras!TurnOn
      <3>2. QED
        BY <3>1 DEF Cameras!Next
    <2>6. CASE good /\ op[t] = "stop"
      <3>1. Cameras!TurnOff(d)
        BY <2>1, <2>2, <2>3, <2>4, <2>6 DEF Drive, Cameras!TurnOff
      <3>2. QED
        BY <3>1 DEF Cameras!Next
    <2>7. CASE ~(good /\ op[t] \in {"start", "stop"})
      BY <1>1, <2>1, <2>2, <2>7 DEF Drive
    <2>8. QED
      BY <2>5, <2>6, <2>7
  <1>6. ASSUME NEW t \in Threads, StopNothing(t) \/ Fail(t) \/ Light(t) PROVE Cameras!Next
    <2>1. pc[t] \in Critical /\ actionMutex' = NoThread /\ UNCHANGED <<rec, isRecording>>
      BY <1>6 DEF StopNothing, Fail, Light, Critical, videoVars
    <2>2. actionMutex = t /\ t # NoThread
      BY <2>1, ThreadsAssumption DEF LockInv, HoldsAction, Threads
    <2>3. Cameras!Leave
      BY <2>1, <2>2 DEF Cameras!Leave
    <2>4. QED
      BY <2>3 DEF Cameras!Next
  <1>6a. ASSUME NEW t \in Threads, Finish(t) PROVE Cameras!Next \/ Idle
    <2>1. pc[t] \in Critical /\ ok[t] /\ UNCHANGED <<op, rec, actionMutex>>
      BY <1>6a DEF Finish, Critical, lockVars
    <2>2. actionMutex = t /\ t # NoThread
      BY <2>1, ThreadsAssumption DEF LockInv, HoldsAction, Threads
    <2>3. CASE op[t] = "start"
      <3>1. (\E d \in Devices : rec[d]) /\ isRecording' = TRUE
        BY <1>6a, <2>1, <2>3 DEF Finish, AllKnow, Knows
      <3>2. Cameras!ShowStart
        BY <2>1, <2>2, <2>3, <3>1 DEF Cameras!ShowStart
      <3>3. QED
        BY <3>2 DEF Cameras!Next
    <2>4. CASE op[t] = "stop"
      <3>1. (\E d \in Devices : ~rec[d]) /\ isRecording' = FALSE
        BY <1>6a, <2>1, <2>4 DEF Finish, AllKnow, Knows
      <3>2. Cameras!ShowStop
        BY <2>1, <2>2, <2>4, <3>1 DEF Cameras!ShowStop
      <3>3. QED
        BY <3>2 DEF Cameras!Next
    <2>5. CASE op[t] \notin {"start", "stop"}
      BY <1>1, <1>6a, <2>1, <2>5 DEF Finish
    <2>6. QED
      BY <2>3, <2>4, <2>5
  <1>7. ASSUME NEW c \in Callers, Join(c) PROVE Cameras!Next \/ Idle
    <2>1. pc[c] = "join" /\ c \in Threads /\ UNCHANGED <<op, rec, isRecording>>
      BY <1>7 DEF Join, Threads, videoVars
    <2>2. CASE op[c] = "reset"
      <3>1. actionMutex = c /\ c # NoThread /\ actionMutex' = NoThread
        BY <1>7, <2>1, <2>2, ThreadsAssumption DEF Join, LockInv, HoldsAction, Threads
      <3>2. Cameras!Leave
        BY <2>1, <3>1 DEF Cameras!Leave
      <3>3. QED
        BY <3>2 DEF Cameras!Next
    <2>3. CASE op[c] # "reset"
      BY <1>1, <1>7, <2>1, <2>3 DEF Join
    <2>4. QED
      BY <2>2, <2>3
  <1>8. ASSUME NEW c \in Callers, NEW o \in Operations, Call(c, o) PROVE Idle
    <2>1. /\ c \in Threads /\ ~HoldsAction(c)
          /\ UNCHANGED <<actionMutex, rec, isRecording>>
          /\ \A u \in Threads \ {c} : op'[u] = op[u]
      BY <1>8 DEF Call, HoldsAction, Critical, Threads, lockVars, videoVars, TypeOK, ThreadTypes
    <2>2. QED
      BY <2>1, SameDoing
  <1>9. ASSUME NEW info \in Reports, ReportStop(info) PROVE Idle
    <2>1. /\ StorageThread \in Threads /\ ~HoldsAction(StorageThread)
          /\ UNCHANGED <<actionMutex, rec, isRecording>>
          /\ \A u \in Threads \ {StorageThread} : op'[u] = op[u]
      BY <1>9 DEF ReportStop, HoldsAction, Critical, Threads, videoVars, TypeOK, ThreadTypes
    <2>2. QED
      BY <2>1, SameDoing
  <1>10. ASSUME NEW t \in Threads,
               \/ Brief(t) \/ CheckSpace(t) \/ NoPath(t)
               \/ StopSomething(t) \/ PassIr(t) \/ PassRgb(t) \/ PassDual(t)
        PROVE  Idle
    BY <1>1, <1>10
    DEF Brief, CheckSpace, NoPath, StopSomething, PassIr, PassRgb, PassDual, lockVars, videoVars
  <1>11. ASSUME NEW c \in Callers,
                ResetDefaults(c) \/ ResetClear(c) \/ BeginFormat(c) \/ FormatWork(c)
         PROVE  Idle
    BY <1>1, <1>11
    DEF ResetDefaults, ResetClear, BeginFormat, FormatWork, threadVars, lockVars, videoVars
  <1>11a. ASSUME NEW m \in SwitchModes, SwitchSensor(m) PROVE Idle
    BY <1>1, <1>11a DEF SwitchSensor, threadVars, lockVars, videoVars
  <1>12. ASSUME NEW info \in Reports, ReportSame(info) \/ ReportChange(info) PROVE Idle
    BY <1>1, <1>12 DEF ReportSame, ReportChange, threadVars, lockVars, videoVars
  <1>13. ASSUME ReportEnd PROVE Idle
    BY <1>1, <1>13 DEF ReportEnd
  <1>14. ASSUME UNCHANGED vars PROVE Idle
    BY <1>1, <1>14 DEF vars, threadVars, lockVars, videoVars
  <1> HIDE DEF Idle
  <1>15. QED
    BY <1>2, <1>3, <1>4, <1>5, <1>6, <1>7, <1>8, <1>9, <1>10, <1>11, <1>12, <1>13, <1>14,
       <1>6a, <1>11a
    DEF Next, Wait, Capture, Async, Notify

\* Devices and flag change only as the recorder promises, one user at a time,
\* whoever selects another sensor mode in the middle of a command and whatever
\* the devices fail to do.
THEOREM ClientImplementsRecorder == Spec => ImplementsRecorder
  <1>1. Init => Cameras!Init
    BY DEF Init, Cameras!Init
  <1>2. TypeOK /\ LockInv /\ AllKnow /\ [Next]_vars => [Cameras!Next]_(Cameras!recorderVars)
    BY RecorderStep
  <1>3. QED
    BY <1>1, <1>2, KnowsCorrect, PTL DEF Spec, ImplementsRecorder, Cameras!Spec

============================================================================
