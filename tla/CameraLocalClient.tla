-------------------------- MODULE CameraLocalClient --------------------------
(***************************************************************************)
(* The capture commands of CameraLocalClient (src/src/mav_client/           *)
(* camera_local_client.cpp): photo, video, reset and format requests of     *)
(* concurrent callers, against the notification thread of the storage       *)
(* manager, which stops a recording by itself when the card goes bad.       *)
(*                                                                         *)
(* Two mutexes are taken, _action_mutex by every command and                *)
(* _storage_information_mutex by the notification and by the free space     *)
(* check.  The flags _is_recording_video, _sensor_mode, _is_reseting and    *)
(* _is_formatting are also read or written outside of them, so a command is *)
(* split wherever another thread can see or change one of them.             *)
(*                                                                         *)
(* The two cameras are shared libraries that are not in the repository:     *)
(* "rec" is what a device does, not what the client believes of it.         *)
(***************************************************************************)
CONSTANTS
    Callers,        \* threads that execute camera commands
    StorageThread,  \* the storage manager's notification thread
    NoThread,       \* the holder of a free mutex
    InitModes,      \* sensor modes the parameter store may hold at start
    SwitchModes,    \* sensor modes a client selects while the program runs
    FaultyDevices,  \* devices whose calls may fail
    Failures,       \* what the RGB camera answers when it fails
    Reports         \* storage notifications: [formatted, low : BOOLEAN]

SensorModes == {"Normal", "IR", "Dual"}
Devices == {"rgb", "ir"}
\* CameraServer's results: those that the conversion of the RGB camera's answer
\* may give.
Results == {"Success", "Denied", "Busy", "Error", "InProgress", "NoSystem", "Timeout",
            "Unknown", "WrongArgument"}
Notifications == [formatted : BOOLEAN, low : BOOLEAN]

ASSUME ThreadsAssumption ==
    /\ StorageThread \notin Callers
    /\ NoThread \notin Callers \cup {StorageThread}

ASSUME ParametersAssumption ==
    /\ InitModes \subseteq SensorModes
    /\ SwitchModes \subseteq SensorModes
    /\ FaultyDevices \subseteq Devices
    /\ Failures \subseteq Results \ {"Success"}
    /\ Reports \subseteq Notifications

Threads == Callers \cup {StorageThread}
Operations == {"start", "stop", "photo", "reset", "format", "brief"}

VARIABLES
    pc,            \* where each thread is
    op,            \* the operation each thread executes (or executed last)
    ok,            \* the local "success" of a capture command
    res,           \* the local "return_result", then the result returned
    actionMutex,   \* holder of _action_mutex
    storageMutex,  \* holder of _storage_information_mutex
    sensorMode,    \* _sensor_mode
    irCamera,      \* _ir_camera # nullptr
    turned,        \* history: the mode was switched since the action mutex was taken
    dualLate,      \* history: the mode became Dual and no IR recording began since
    rec,           \* which devices really record
    isRecording,   \* _is_recording_video
    led,           \* the last mode given to switch_led_mode
    storageInfo,   \* _current_storage_information
    sdcardValid,   \* _sdcard_valid, an optional
    task,          \* the std::async task of each caller
    isReseting,    \* _is_reseting
    isFormatting   \* _is_formatting

threadVars == <<pc, op, ok, res>>
lockVars   == <<actionMutex, storageMutex>>
modeVars   == <<sensorMode, irCamera, turned, dualLate>>
videoVars  == <<rec, isRecording, led>>
cardVars   == <<storageInfo, sdcardValid>>
taskVars   == <<task, isReseting, isFormatting>>
vars == <<threadVars, lockVars, modeVars, videoVars, cardVars, taskVars>>

\* check_sdcard_status: formatted and not full.
Validity(info) == IF info.formatted /\ ~info.low THEN "valid" ELSE "invalid"

\* The outcomes a device call may have; the RGB camera tells more than the other.
Outcomes(d) == IF d \in FaultyDevices THEN BOOLEAN ELSE {TRUE}
RgbResults == {"Success"} \cup IF "rgb" \in FaultyDevices THEN Failures ELSE {}

----------------------------------------------------------------------------
(* Steps of a thread through an operation. *)

At(t, label) == pc[t] = label
Goto(t, label) == pc' = [pc EXCEPT ![t] = label]
Answer(t, r) == res' = [res EXCEPT ![t] = r]

\* Where a thread is once the operation returned: a caller is idle, the
\* notification thread is back in check_sdcard_status.
Return(t) == Goto(t, IF t = StorageThread THEN "reported" ELSE "idle")

\* What a call to device d does: a successful start or stop takes effect, a
\* failed one and a photo leave the recording alone.
Drive(t, d, good) ==
    /\ ok' = [ok EXCEPT ![t] = good]
    /\ rec' = IF good /\ op[t] \in {"start", "stop"}
                THEN [rec EXCEPT ![d] = (op[t] = "start")]
                ELSE rec
    /\ dualLate' = (dualLate /\ ~(d = "ir" /\ good /\ op[t] = "start"))
    /\ UNCHANGED <<sensorMode, irCamera, turned>>

----------------------------------------------------------------------------
(* Plausible faults of this code, each a variant of the action it names.     *)
(* The checks put one in the place of its action and see a property fail.    *)

\* The early return of stop_video keeps the mutex.
StopNothing_KeepsLock(t) ==
    /\ At(t, "flag")
    /\ ~isRecording
    /\ Return(t)
    /\ UNCHANGED <<op, ok, res, lockVars, modeVars, videoVars, cardVars, taskVars>>

\* The scope around the look at the free space is lost: the lock lasts until the
\* command returns.
CheckSpace_KeepsLock(t) ==
    /\ At(t, "space")
    /\ storageMutex = NoThread
    /\ storageMutex' = t
    /\ \/ /\ storageInfo.low
          /\ Answer(t, "Denied")
          /\ Return(t)
       \/ /\ ~storageInfo.low
          /\ Goto(t, "lock")
          /\ UNCHANGED res
    /\ UNCHANGED <<op, ok, actionMutex, modeVars, videoVars, cardVars, taskVars>>

\* start_video treats a failed IR camera as take_photo does.
UseDualIr_NoError(t) ==
    /\ At(t, "dual")
    /\ sensorMode = "Dual"
    /\ irCamera
    /\ \E good \in Outcomes("ir") : Drive(t, "ir", good)
    /\ Goto(t, "finish")
    /\ UNCHANGED <<op, res, isRecording, led, lockVars, cardVars, taskVars>>

\* start_video raises the flag without a look at "success".
Finish_AlwaysFlag(t) ==
    /\ At(t, "finish")
    /\ ok[t] \/ op[t] = "start"
    /\ isRecording' = CASE op[t] = "start" -> TRUE
                        [] op[t] = "stop"  -> FALSE
                        [] OTHER           -> isRecording
    /\ Goto(t, "light")
    /\ UNCHANGED <<op, ok, res, lockVars, modeVars, rec, led, cardVars, taskVars>>

\* stop_video leaves the light on.
Light_StopKeepsLight(t) ==
    /\ At(t, "light")
    /\ led' = IF op[t] = "start" THEN "Recording" ELSE led
    /\ actionMutex' = NoThread
    /\ Return(t)
    /\ UNCHANGED <<op, ok, res, storageMutex, modeVars, rec, isRecording, cardVars,
                   taskVars>>

\* check_sdcard_status updates the remembered verdict only for a card that became
\* valid.
ReportEnd_ValidOnly ==
    /\ At(StorageThread, "reported")
    /\ led' = IF Validity(storageInfo) = "valid" THEN "Normal" ELSE "SDCardError"
    /\ sdcardValid' = IF Validity(storageInfo) = "valid" THEN "valid" ELSE sdcardValid
    /\ storageMutex' = NoThread
    /\ Goto(StorageThread, "idle")
    /\ UNCHANGED <<op, ok, res, actionMutex, modeVars, rec, isRecording,
                   storageInfo, taskVars>>

\* The future is kept, so that reset_settings really is asynchronous.
BeginReset_KeepFuture(c) ==
    /\ At(c, "lock")
    /\ op[c] = "reset"
    /\ actionMutex = NoThread
    /\ task[c] \in {"none", "done"}
    /\ \/ /\ isReseting
          /\ Answer(c, "Busy")
          /\ UNCHANGED <<task, isReseting>>
       \/ /\ ~isReseting
          /\ isReseting' = TRUE
          /\ task' = [task EXCEPT ![c] = "reset"]
          /\ UNCHANGED res
    /\ Return(c)
    /\ UNCHANGED <<op, ok, lockVars, modeVars, videoVars, cardVars, isFormatting>>

\* A switch of the sensor mode ends what the old mode's devices do, without the
\* action mutex that stop_video takes.
SwitchSensor_StopsDevices(m) ==
    /\ sensorMode' = m
    /\ turned' = (actionMutex # NoThread /\ (turned \/ m # sensorMode))
    /\ rec' = [d \in Devices |-> FALSE]
    /\ isRecording' = FALSE
    /\ UNCHANGED <<threadVars, lockVars, irCamera, dualLate, led, cardVars, taskVars>>

----------------------------------------------------------------------------
(* The actions. *)

Init ==
    /\ pc = [t \in Threads |-> "idle"]
    /\ op = [t \in Threads |-> "brief"]
    /\ ok = [t \in Threads |-> FALSE]
    /\ res = [t \in Threads |-> "Success"]
    /\ actionMutex = NoThread
    /\ storageMutex = NoThread
    /\ sensorMode \in InitModes
    /\ irCamera \in BOOLEAN
    /\ turned = FALSE
    /\ dualLate = FALSE
    /\ rec = [d \in Devices |-> FALSE]
    /\ isRecording = FALSE
    /\ led = "Normal"
    /\ storageInfo \in Reports
    /\ sdcardValid = "unset"
    /\ task = [t \in Callers |-> "none"]
    /\ isReseting = FALSE
    /\ isFormatting = FALSE

\* A command arrives.  "brief" stands for the commands that hold the action
\* mutex and touch no state of this module: set_mode, set_zoom_range,
\* start_video_streaming and stop_video_streaming.
Call(c, o) ==
    /\ At(c, "idle")
    /\ Goto(c, CASE o \in {"start", "photo"}         -> "space"
                 [] o \in {"stop", "reset", "brief"} -> "lock"
                 [] o = "format"                     -> "claim")
    /\ op' = [op EXCEPT ![c] = o]
    /\ ok' = [ok EXCEPT ![c] = FALSE]
    /\ Answer(c, "Success")
    /\ UNCHANGED <<lockVars, modeVars, videoVars, cardVars, taskVars>>

\* set_setting(CAM_SENS_MODE), on a thread of its own: no mutex is taken, so it
\* may come between any two steps of a command.
SwitchSensor(m) ==
    /\ sensorMode' = m
    /\ turned' = (actionMutex # NoThread /\ (turned \/ m # sensorMode))
    /\ dualLate' = (dualLate \/ (m = "Dual" /\ sensorMode # "Dual"))
    /\ UNCHANGED <<threadVars, lockVars, irCamera, videoVars, cardVars, taskVars>>

\* The scope that holds the storage mutex to look at the free space.
CheckSpace(t) ==
    /\ At(t, "space")
    /\ storageMutex = NoThread
    /\ \/ /\ storageInfo.low
          /\ Answer(t, "Denied")
          /\ Return(t)
       \/ /\ ~storageInfo.low
          /\ Goto(t, "lock")
          /\ UNCHANGED res
    /\ UNCHANGED <<op, ok, lockVars, modeVars, videoVars, cardVars, taskVars>>

\* get_storage_path() is empty: the storage manager answers what it likes.
NoPath(t) ==
    /\ At(t, "lock")
    /\ op[t] \in {"start", "photo"}
    /\ Answer(t, "Denied")
    /\ Return(t)
    /\ UNCHANGED <<op, ok, lockVars, modeVars, videoVars, cardVars, taskVars>>

\* The lock_guard of a capture command.
Acquire(t) ==
    /\ At(t, "lock")
    /\ op[t] \in {"start", "stop", "photo"}
    /\ actionMutex = NoThread
    /\ actionMutex' = t
    /\ turned' = FALSE
    /\ Goto(t, IF op[t] = "stop" THEN "flag" ELSE "first")
    /\ UNCHANGED <<op, ok, res, storageMutex, sensorMode, irCamera, dualLate, videoVars,
                   cardVars, taskVars>>

\* A command that only holds the mutex for a moment.
Brief(t) ==
    /\ At(t, "lock")
    /\ op[t] = "brief"
    /\ actionMutex = NoThread
    /\ Return(t)
    /\ UNCHANGED <<op, ok, res, lockVars, modeVars, videoVars, cardVars, taskVars>>

\* stop_video without a recording succeeds at once.
StopNothing(t) ==
    /\ At(t, "flag")
    /\ ~isRecording
    /\ actionMutex' = NoThread
    /\ Return(t)
    /\ UNCHANGED <<op, ok, res, storageMutex, modeVars, videoVars, cardVars, taskVars>>

StopSomething(t) ==
    /\ At(t, "flag")
    /\ isRecording
    /\ Goto(t, "first")
    /\ UNCHANGED <<op, ok, res, lockVars, modeVars, videoVars, cardVars, taskVars>>

\* First read of _sensor_mode: the IR branch.
UseIr(t) ==
    /\ At(t, "first")
    /\ sensorMode = "IR"
    /\ irCamera
    /\ \E good \in Outcomes("ir") :
          /\ Drive(t, "ir", good)
          /\ Answer(t, IF good THEN "Success" ELSE "Error")
    /\ Goto(t, "finish")
    /\ UNCHANGED <<op, isRecording, led, lockVars, cardVars, taskVars>>

\* take_photo tests for the IR camera inside the IR branch, the video commands
\* in its condition: without the camera they go on to read the mode again.
PassIr(t) ==
    /\ At(t, "first")
    /\ ~(sensorMode = "IR" /\ irCamera)
    /\ Goto(t, IF sensorMode = "IR" /\ op[t] = "photo" THEN "finish" ELSE "second")
    /\ UNCHANGED <<op, ok, res, lockVars, modeVars, videoVars, cardVars, taskVars>>

\* Second and third read, the two sides of an "or": the RGB camera works in the
\* modes Normal and Dual.
RgbMode(t) ==
    \/ At(t, "second") /\ sensorMode = "Normal"
    \/ At(t, "third") /\ sensorMode = "Dual"

UseRgb(t) ==
    /\ RgbMode(t)
    /\ \E r \in RgbResults :
          /\ Drive(t, "rgb", r = "Success")
          /\ Answer(t, r)
    /\ Goto(t, "dual")
    /\ UNCHANGED <<op, isRecording, led, lockVars, cardVars, taskVars>>

PassRgb(t) ==
    /\ At(t, "second") \/ At(t, "third")
    /\ ~RgbMode(t)
    /\ Goto(t, IF At(t, "second") THEN "third" ELSE "finish")
    /\ UNCHANGED <<op, ok, res, lockVars, modeVars, videoVars, cardVars, taskVars>>

\* Last read: in mode Dual the IR camera follows, and its outcome replaces the
\* RGB camera's in "success"; only start_video also turns it into an Error.
UseDualIr(t) ==
    /\ At(t, "dual")
    /\ sensorMode = "Dual"
    /\ irCamera
    /\ \E good \in Outcomes("ir") :
          /\ Drive(t, "ir", good)
          /\ Answer(t, IF op[t] = "start" /\ ~good THEN "Error" ELSE res[t])
    /\ Goto(t, "finish")
    /\ UNCHANGED <<op, isRecording, led, lockVars, cardVars, taskVars>>

PassDual(t) ==
    /\ At(t, "dual")
    /\ ~(sensorMode = "Dual" /\ irCamera)
    /\ Goto(t, "finish")
    /\ UNCHANGED <<op, ok, res, lockVars, modeVars, videoVars, cardVars, taskVars>>

\* A capture command without success only unlocks.
Fail(t) ==
    /\ At(t, "finish")
    /\ ~ok[t]
    /\ actionMutex' = NoThread
    /\ Return(t)
    /\ UNCHANGED <<op, ok, res, storageMutex, modeVars, videoVars, cardVars, taskVars>>

\* A success: start_video and stop_video store the flag, which others read.
Finish(t) ==
    /\ At(t, "finish")
    /\ ok[t]
    /\ isRecording' = CASE op[t] = "start" -> TRUE
                        [] op[t] = "stop"  -> FALSE
                        [] OTHER           -> isRecording
    /\ Goto(t, "light")
    /\ UNCHANGED <<op, ok, res, lockVars, modeVars, rec, led, cardVars, taskVars>>

\* Then the light changes, and the command unlocks.
Light(t) ==
    /\ At(t, "light")
    /\ led' = CASE op[t] = "start" -> "Recording"
                [] op[t] = "stop"  -> "Normal"
                [] OTHER           -> "TakePhoto"
    /\ actionMutex' = NoThread
    /\ Return(t)
    /\ UNCHANGED <<op, ok, res, storageMutex, modeVars, rec, isRecording, cardVars,
                   taskVars>>

----------------------------------------------------------------------------
(* The storage notification: the lambda of init_storage_manager and          *)
(* check_sdcard_status, under the storage mutex.                             *)

\* Nothing to do unless the validity is unknown or changed.
ReportSame(info) ==
    /\ At(StorageThread, "idle")
    /\ storageMutex = NoThread
    /\ sdcardValid = Validity(info)
    /\ storageInfo' = info
    /\ UNCHANGED <<threadVars, lockVars, modeVars, videoVars, sdcardValid, taskVars>>

\* The card changed, and by the flag no recording has to be stopped for it.
ReportChange(info) ==
    /\ At(StorageThread, "idle")
    /\ storageMutex = NoThread
    /\ sdcardValid # Validity(info)
    /\ Validity(info) = "valid" \/ ~isRecording
    /\ storageInfo' = info
    /\ storageMutex' = StorageThread
    /\ Goto(StorageThread, "reported")
    /\ UNCHANGED <<op, ok, res, actionMutex, modeVars, videoVars, sdcardValid, taskVars>>

\* The card became invalid while the flag is up: stop_video is called, with the
\* storage mutex held.
ReportStop(info) ==
    /\ At(StorageThread, "idle")
    /\ storageMutex = NoThread
    /\ sdcardValid # Validity(info)
    /\ Validity(info) = "invalid"
    /\ isRecording
    /\ storageInfo' = info
    /\ storageMutex' = StorageThread
    /\ Goto(StorageThread, "lock")
    /\ op' = [op EXCEPT ![StorageThread] = "stop"]
    /\ ok' = [ok EXCEPT ![StorageThread] = FALSE]
    /\ Answer(StorageThread, "Success")
    /\ UNCHANGED <<actionMutex, modeVars, videoVars, sdcardValid, taskVars>>

\* The light and the verdict, after stop_video if it was called, whatever that
\* answered.
ReportEnd ==
    /\ At(StorageThread, "reported")
    /\ led' = IF Validity(storageInfo) = "valid" THEN "Normal" ELSE "SDCardError"
    /\ sdcardValid' = Validity(storageInfo)
    /\ storageMutex' = NoThread
    /\ Goto(StorageThread, "idle")
    /\ UNCHANGED <<op, ok, res, actionMutex, modeVars, rec, isRecording,
                   storageInfo, taskVars>>

----------------------------------------------------------------------------
(* reset_settings and format_storage: both hand their work to std::async and  *)
(* drop the future, whose destructor waits for the task.                      *)

\* reset_settings takes the action mutex and then claims the flag.
BeginReset(c) ==
    /\ At(c, "lock")
    /\ op[c] = "reset"
    /\ actionMutex = NoThread
    /\ \/ /\ isReseting
          /\ Answer(c, "Busy")
          /\ Return(c)
          /\ UNCHANGED <<actionMutex, task, isReseting>>
       \/ /\ ~isReseting
          /\ isReseting' = TRUE
          /\ actionMutex' = c
          /\ task' = [task EXCEPT ![c] = "reset"]
          /\ Goto(c, "join")
          /\ UNCHANGED res
    /\ UNCHANGED <<op, ok, storageMutex, modeVars, videoVars, cardVars, isFormatting>>

\* The task asks the RGB camera to reset and on success restores the defaults,
\* among them the sensor mode.
ResetDefaults(c) ==
    /\ task[c] = "reset"
    /\ \E good \in Outcomes("rgb") :
          sensorMode' = IF good THEN "Normal" ELSE sensorMode
    /\ task' = [task EXCEPT ![c] = "clear"]
    /\ UNCHANGED <<threadVars, lockVars, irCamera, turned, dualLate, videoVars, cardVars,
                   isReseting, isFormatting>>

\* The task drops the flag and reports to the callback.
ResetClear(c) ==
    /\ task[c] = "clear"
    /\ isReseting' = FALSE
    /\ task' = [task EXCEPT ![c] = "done"]
    /\ UNCHANGED <<threadVars, lockVars, modeVars, videoVars, cardVars, isFormatting>>

\* format_storage claims its flag without any mutex.
BeginFormat(c) ==
    /\ At(c, "claim")
    /\ \/ /\ isFormatting
          /\ Answer(c, "Busy")
          /\ Return(c)
          /\ UNCHANGED <<task, isFormatting>>
       \/ /\ ~isFormatting
          /\ isFormatting' = TRUE
          /\ task' = [task EXCEPT ![c] = "format"]
          /\ Goto(c, "join")
          /\ UNCHANGED res
    /\ UNCHANGED <<op, ok, lockVars, modeVars, videoVars, cardVars, isReseting>>

\* The storage manager formatted the card, well or not.
FormatWork(c) ==
    /\ task[c] = "format"
    /\ isFormatting' = FALSE
    /\ task' = [task EXCEPT ![c] = "done"]
    /\ UNCHANGED <<threadVars, lockVars, modeVars, videoVars, cardVars, isReseting>>

\* The destructor of the discarded future returns when the task ended; the
\* lock_guard of reset_settings is released only then.
Join(c) ==
    /\ At(c, "join")
    /\ task[c] = "done"
    /\ task' = [task EXCEPT ![c] = "none"]
    /\ actionMutex' = IF op[c] = "reset" THEN NoThread ELSE actionMutex
    /\ Return(c)
    /\ UNCHANGED <<op, ok, res, storageMutex, modeVars, videoVars, cardVars,
                   isReseting, isFormatting>>

----------------------------------------------------------------------------
\* A thread's steps inside stop_video, start_video and take_photo.
Capture(t) ==
    \/ StopNothing(t) \/ StopSomething(t)
    \/ UseIr(t) \/ PassIr(t)
    \/ UseRgb(t) \/ PassRgb(t)
    \/ UseDualIr(t) \/ PassDual(t)
    \/ Fail(t) \/ Finish(t) \/ Light(t)

\* The steps that wait for a mutex.
Wait(t) == Acquire(t) \/ Brief(t) \/ CheckSpace(t) \/ NoPath(t)

Async(c) ==
    \/ ResetDefaults(c) \/ ResetClear(c)
    \/ BeginFormat(c) \/ FormatWork(c)
    \/ Join(c)

Notify(info) == ReportSame(info) \/ ReportChange(info) \/ ReportStop(info)

Next ==
    \/ \E t \in Threads : Wait(t) \/ Capture(t)
    \/ \E c \in Callers :
          \/ \E o \in Operations : Call(c, o)
          \/ BeginReset(c) \/ Async(c)
    \/ \E m \in SwitchModes : SwitchSensor(m)
    \/ \E info \in Reports : Notify(info)
    \/ ReportEnd

Spec == Init /\ [][Next]_vars

\* A thread that can run does run, and a mutex that is free again and again is
\* granted in the end: what the scheduler and std::mutex give in practice.
\* Nothing forces a command or a notification to arrive.
Fairness ==
    /\ \A t \in Threads : WF_vars(Capture(t)) /\ SF_vars(Wait(t))
    /\ \A c \in Callers : SF_vars(BeginReset(c)) /\ WF_vars(Async(c))
    /\ WF_vars(ReportEnd)

FairSpec == Spec /\ Fairness

----------------------------------------------------------------------------
(* Properties *)

Labels == {"idle", "space", "lock", "flag", "first", "second", "third", "dual", "finish",
           "light", "reported", "claim", "join"}

ThreadTypes ==
    /\ pc \in [Threads -> Labels]
    /\ op \in [Threads -> Operations]
    /\ ok \in [Threads -> BOOLEAN]
    /\ res \in [Threads -> Results]
    /\ actionMutex \in Threads \cup {NoThread}
    /\ storageMutex \in {StorageThread, NoThread}

CameraTypes ==
    /\ sensorMode \in SensorModes
    /\ irCamera \in BOOLEAN
    /\ turned \in BOOLEAN
    /\ dualLate \in BOOLEAN
    /\ rec \in [Devices -> BOOLEAN]
    /\ isRecording \in BOOLEAN
    /\ led \in {"Normal", "Recording", "TakePhoto", "SDCardError"}

CardTypes ==
    /\ storageInfo \in Notifications
    /\ sdcardValid \in {"unset", "valid", "invalid"}

TaskTypes ==
    /\ task \in [Callers -> {"none", "reset", "clear", "format", "done"}]
    /\ isReseting \in BOOLEAN
    /\ isFormatting \in BOOLEAN

\* Every variable has its type.  In particular only the notification ever has the
\* storage mutex to itself over several steps, and a command answers one of the
\* results of convert_camera_result_to_mav_server_result.
TypeOK == ThreadTypes /\ CameraTypes /\ CardTypes /\ TaskTypes

\* The steps that run with the action mutex held.
Critical == {"flag", "first", "second", "third", "dual", "finish", "light"}

\* Every thread in the body of a capture command, and every thread whose reset
\* task is alive, is the one holder of the action mutex: a reset of the camera
\* never overlaps a photo, a start or a stop.
ResetExcludesCapture ==
    \A c \in Callers : task[c] \in {"reset", "clear"} =>
        \A t \in Threads : pc[t] \notin Critical

\* The notification thread waits for the action mutex with the storage mutex in
\* hand.  Whoever holds the action mutex then never waits for the storage mutex.
NoLockCycle ==
    \A t \in Threads : actionMutex = t => ~At(t, "space") /\ ~At(t, "lock")

\* Whenever somebody is inside of a call, one of those inside can go on: the
\* two mutexes and the tasks that reset_settings and format_storage wait for
\* never make everyone wait for everyone.
CanGo(t) ==
    CASE At(t, "idle")  -> FALSE
      [] At(t, "space") -> storageMutex = NoThread
      [] At(t, "lock")  -> actionMutex = NoThread
      [] At(t, "join")  -> task[t] # "none"
      [] OTHER          -> TRUE
NoStandstill == (\E t \in Threads : ~At(t, "idle")) => \E t \in Threads : CanGo(t)

\* Outside of a notification _sdcard_valid, once set, is the verdict on the
\* last storage information received: no change of the card is missed.
SdcardEdge ==
    storageMutex = NoThread /\ sdcardValid # "unset"
        => sdcardValid = Validity(storageInfo)

\* At most one format of the card runs, and the flag tells.
OneFormat ==
    \A c, d \in Callers :
        task[c] = "format" => isFormatting /\ (task[d] = "format" => c = d)

\* The flag that the ground station sees and that makes a full card stop the
\* recording is never up without a device that records, when no command runs:
\* whatever the devices fail to do and however the mode is switched, but for a
\* switch to Dual with no start of the IR camera after it (stop_video then asks
\* a camera that does not record, and believes its refusal).
FlagImpliesDevice ==
    isRecording /\ (\A t \in Threads : pc[t] \notin Critical) /\ ~dualLate
        => \E d \in Devices : rec[d]

\* A start_video about to answer Success has every camera of the mode at work,
\* unless the mode was switched while it ran; the mode IR without an IR camera is
\* the exception, there nothing is started.
Wanted == CASE sensorMode = "Normal" -> {"rgb"}
            [] sensorMode = "IR"     -> IF irCamera THEN {"ir"} ELSE {}
            [] sensorMode = "Dual"   -> IF irCamera THEN {"rgb", "ir"} ELSE {"rgb"}
StartTruthful ==
    \A t \in Threads :
        At(t, "finish") /\ op[t] = "start" /\ res[t] = "Success" /\ ~turned
            => \A d \in Wanted : rec[d]

\* A reset never finds another one under way: the first one keeps the action
\* mutex until its task has dropped the flag.
ResetNeverBusy ==
    \A c \in Callers : op[c] = "reset" => res[c] # "Busy"

\* The recording light is on only while the flag is up, but for the stop that has
\* lowered the flag and is about to change the light.
RecordingLight ==
    led = "Recording" /\ ~isRecording => \E t \in Threads : At(t, "light") /\ op[t] = "stop"

\* The holder of the action mutex uses the cameras.
Cameras == INSTANCE Recorder WITH
    Users <- Threads,
    Nobody <- NoThread,
    Tasks <- Operations,
    holder <- actionMutex,
    doing <- IF actionMutex = NoThread THEN "none" ELSE op[actionMutex],
    flag <- isRecording

\* Devices and flag change as Recorder promises, although the mode that selects
\* the devices is read four times and may change between the reads.
ImplementsRecorder == Cameras!Spec

\* Every command returns, and every notification is handled.
EveryCallReturns == \A t \in Threads : (pc[t] # "idle") ~> (pc[t] = "idle")

=============================================================================
