# MAVCam in TLA+

A verification development kept beside MAVCam, the program that makes a camera
module a MAVLink camera. It holds TLA+ models translated from the C++ source,
TLC runs that check them on small instances, and theorems about them that the
TLA+ proof system TLAPS has checked for all values of the constants.

Line numbers are those of the modelled commit. `camera_local_client.cpp` and the
other short file names are found under `src/src/` (`mav_client`, `tracking`,
`camera_param`, ...). `PROJECT.json` lists components, runs, mutants, hazards and
theorems, and maps every definition to the lines it translates.

## Contents

1. The system
2. The modules, and how they correspond to the code
3. The runs, their bounds and what they show
4. Fairness
5. The theorems and their arguments
6. Findings
7. Observations
8. What is assumed of code outside the repository
9. What is not modelled
10. Plan

## 1. The system

MAVSDK receives MAVLink commands and parameter changes and calls the program
back. `MavClient` forwards each call to a *camera client*: `CameraLocalClient`
drives the cameras in its own process, `CameraRpcClient` forwards to the gRPC
service of `MavServer`, behind which `CameraImpl` drives a camera. Cameras,
storage manager and renderer are shared libraries opened at run time; the object
trackers are separate services that connect over TCP.

```
 MAVSDK --> MavClient --+--> CameraLocalClient --> camera, IR camera, renderer,
 (callback thread)      |      |   |      ^        storage manager (plugins)
                        |      |   |      +------- storage notification thread
                        |      |   +--> CameraParam (parameter file)
                        |      +------> TrackingServer <-- TCP -- tracker
                        |
                        +--> CameraRpcClient -- gRPC --> CameraService --> CameraImpl

 mav_watch --> light <-- MavClient, CameraLocalClient       (one command per change)
```

Which module models what, and how the modules build on each other:

```
 CameraLocalClient ==implements==> Recorder  the commands of the local client
 CameraSettings ==implements==> ParamStore   its settings, and their store
 TrackingServer ==implements==> TrackerLink <--uses-- AiFunction
 CameraService <--extends-- RpcCamera        server, and client with server
 ClientProcess                               the process around the local client, the
                                             light, mav_watch
```

| Component | State | Operations | What is hard | What makes it correct |
|---|---|---|---|---|
| Capture commands (`CameraLocalClient`) | `_action_mutex`, `_storage_information_mutex`, `_is_recording_video`, `_sensor_mode`, `_current_storage_information`, `_sdcard_valid`, `_is_reseting`, `_is_formatting`, the light | `take_photo`, `start_video`, `stop_video`, `reset_settings`, `format_storage`, `set_mode`, zoom, streaming; the storage notification | two mutexes taken in nested order; flags read outside of them; `std::async` futures that block when dropped; two cameras of which one may fail | no deadlock; the flag tells what the devices do; no reset during a capture; no change of the card is missed |
| Settings (`CameraLocalClient`, `CameraParam`) | `_settings`, the JSON document and its file, `_render_mode`, the values in the camera | `init`, `set_setting`, `reset_settings` | death of the program inside a write; settings coupled to each other; the environment; a camera that refuses | settings, file, camera and render mode agree between commands |
| `TrackingServer` | `_running`, `_thread`, `_server_fd`, `_client_fd`, `_latest_control_packet`, `_control_packet_index` | `start`, `stop`, `enable_detection`, `enable_tracking_point`, `disable_tracking`; `run_loop`, `handle_client` | sockets closed under a thread that uses them; commands sent while a tracker connects; restart after a failure | a tracker has the latest command; `stop` returns and leaves nothing; any sequence of starts and stops is safe |
| AI function and rendering | `_settings[CAM_AI_FUNC]`, `_tracking_frame`, the boxes on the screen | `set_ai_function`, `tracking_callback`, `capture_callback` | three threads; frames of the previous mode; two services of which one may fail to start | nothing of an old mode is shown for ever; mode, services and server agree |
| Plugin life cycle | library handles and objects | `init`, `deinit`, the `init_`/`free_` helpers | failure in the middle; callbacks during the end | no object is used after its library is closed |
| Control point conversion | none | `enable_tracking_point` | rounding and borders of five display modes | a point of the picture becomes a pixel of the tracker's picture |
| `MavClient` | `_running`, the parameter server's copy of the settings | command and parameter callbacks, `start_runloop`, `stop_runloop` | a refused change is not reported; a stop before the loop runs | answers tell the result; the parameters shown are those in force |
| `CameraRpcClient` | cached mode, information, status; worker thread | every camera operation as a call | caches that ignore the result; a worker that reads while others use the copy | client and camera agree on the mode |
| Camera service, `CameraImpl` | list of stream promises; settings, status | one handler per call, seven streams | handlers run concurrently without a mutex; streams that never end | each call is answered; shutdown ends all streams |
| `MavServer` | the gRPC server | `start_runloop`, `stop_runloop` | shutdown with open streams | shutdown returns |
| LED control, `mav_watch` | the light | `switch_led_mode`; the watchdog's loop | each change is a process started by a detached thread | the light shows the last request, and a dead client |
| Logging, generated code, templates, examples | | | | not part of the program's logic |

The hazards this gives rise to are listed line by line in `PROJECT.json`.

## 2. The modules

### CameraLocalClient (`camera_local_client.cpp`: 228-560, 1888-1960)

Threads are the `Callers`, which execute one command after the other, and the
`StorageThread`, on which the storage manager calls the lambda of
`init_storage_manager`. A command is cut into actions wherever another thread can
see or change state it uses: at each lock, at each read of `_sensor_mode` (up to
four), at the device calls, at the store of the flag and at the change of the light.
`_sensor_mode` is a plain member (`camera_local_client.h:286`) that is read under the
action mutex and written without it; each read is an action, and a compiler that
merges two of them gives the behaviours in which no switch falls in between.

| Code | Actions |
|---|---|
| the entry of a command | `Call` |
| the scope with the storage mutex in `take_photo`, `start_video` | `CheckSpace` |
| `get_storage_path()` is empty | `NoPath` |
| `lock_guard` on the action mutex | `Acquire`, `Brief`, `BeginReset` |
| the test of `_is_recording_video` in `stop_video` | `StopNothing`, `StopSomething` |
| the four reads of the mode, with the device calls | `UseIr`/`PassIr` (place "first"), `UseRgb`/`PassRgb` ("second" and "third", the two sides of an `||`), `UseDualIr`/`PassDual` ("dual") |
| the store of the flag | `Finish` |
| the light, unlock | `Light` |
| no success: unlock | `Fail` |
| the notification and `check_sdcard_status` | `ReportSame`, `ReportChange`, `ReportStop`, `ReportEnd` |
| `reset_settings`, its task, the destructor of its future | `BeginReset`, `ResetDefaults`, `ResetClear`, `Join` |
| `format_storage`, its task, the destructor of its future | `BeginFormat`, `FormatWork`, `Join` |
| `set_setting(CAM_SENS_MODE)` | `SwitchSensor` |

`take_photo`, `start_video` and `stop_video` have one shape in the code and share
their actions; where they differ (the early return of `stop_video`, the nested
test of `take_photo`, the Error of the second camera in `start_video` only) the
action says so. `rec` is a ghost of sorts: what the devices really do. `turned` and
`dualLate` are history: the mode was switched while the mutex was held, and it became
Dual and no recording of the IR camera began since. The
notification runs `stop_video` with the storage mutex in hand through the same
actions as a caller's. The future that `reset_settings` and `format_storage`
receive from `std::async` is a temporary, whose destructor waits for the task:
that is `Join`, and it happens before `reset_settings` releases its lock.

Abstracted: the storage information is "formatted" and "low"; path and index of a
photo, start time and zoom are left out; a command that only locks is `Brief`. The
results are the nine that `convert_camera_result_to_mav_server_result` may give;
`Failures` says which of them the RGB camera answers in a run, since the commands
forward them and look at Success only.

### Recorder

What those commands promise of the cameras and of the flag, without locks, results
and cards: one user of the cameras at a time; a device turns on only for the one
that starts, and off only for the one that stops while the flag is up; the flag
rises only at the end of a start that leaves some device recording, and falls only
at the end of a stop that leaves some device at rest. `CameraLocalClient`
implements it under the mapping `Cameras`: the holder is that of `_action_mutex`,
what it does is its command, and devices and flag are those of the module. The
promise is weaker than `FlagImpliesDevice` and `StartTruthful`, but it is what
remains of them without exception when the sensor mode is switched between the reads.

### CameraSettings (`camera_local_client.cpp`: 486-545, 787-856, 1000-1152, 1240-1460, 1982-1997; `camera_param.cc`)

One thread executes commands; `Crash` may interrupt it before any step, leaves
nothing but the file, and is followed by `Boot` under an environment chosen anew.
The state follows a value on
its way: the camera (`hw`), the map `_settings`, the document in memory (`root`),
the file. `SetApply` is the call to the camera with what the setter changes
beforehand, `Commit` the assignment to the map, `Truncate` and `Write` the two
effects of `CameraParam::set_value` (the stream is opened, which empties the
file, and is written), with the refresh of the render mode that follows.
`StoreFails` is its early return: the stream does not open, nothing is stored, and
the caller does not look at the result. `unsaved` is the history of it, `MaxUnsaved`
the bound of the settings that it may concern at a time.
`reset_settings` is `ResetBegin`, `ResetDevice`, one round of `Commit`,
`Truncate`, `Write` for each default in the order of the code, and `ResetRefresh`.
`Boot` is `init_mav_camera` and the `init_` helpers, in the order of precedence of
each: store, environment and default for the mode, environment first for the
photo resolution; `Missing` is what it stores, `Kept` the part of that for which the
file opened. A `Boot` that gets through is one step, since nobody looks at the
program before it ends. One that does not is `BootFails`: the program dies, or a
device does not open, after any number of the `set_value` calls that complete the
store (`BootOrder`, `BootedTo`), or inside of one, and leaves the file so.

Six settings of two values each stand for the twenty. They are the ones on which
others depend, and `CAM_VIDRES` stands for all that are set, committed and stored
alike.

### ParamStore

What a store of settings promises, without the file and its copy in memory: a value
that was stored stays until another one is stored for its key, over the ends and
starts of the program; a start adds values for keys that have none and changes no
other, and need not succeed in that; only a program that ends while it stores loses
something, and then all.
`CameraSettings` implements it under the mapping `Store`, whose content is the
document in memory while there is a program, and the file while there is none.

### TrackingServer (`tracking_server.cpp`)

`Controllers` execute `start` and `stop`, `Senders` the three control commands,
one thread `run_loop`. `start` is cut between the test and the store of `_running`
and at the assignment to `_thread`; `stop` at `exchange`, at `shutdown`/`close`
and at `join`. The index of a packet is loaded and stored without a mutex
(`SendLoad`, `SendStore`), cached and sent under it (`SendPost`). The loop has one
action for each call that may block or fail, so that `stop` can close the
listening socket between any two. A tracker connects in `LoopAccept`, leaves in
`PeerLeaves`; `got` is the last packet it received on the present connection.
`portTaken` tells whether the host may refuse `bind` or `listen`; it is chosen at
the start and kept. `crashed` is `std::terminate`, which `std::thread`'s
assignment calls when the thread on the left was not joined.

`Next` is disabled after a crash: the process is gone.

### TrackerLink

What the server promises to its users, without sockets, locks and indices: a
server that is open has one tracker at a time, which is handed the latest command
at once and gets every later one; nobody is connected to a closed server.
`TrackingServer` implements it under the mapping `Link`: `open` is a loop that has
not ended, `latest` the cached packet, `connected` a tracker that is registered
and at the other end of an open socket (`Reached`), `seen` what that one received.

### AiFunction (`camera_local_client.cpp`: 867-953, 1727-1821, with `tracking_server.cpp`)

`set_ai_function` is one action per effect: the frame is forgotten (`Switch`), the
mode, the two services, the server and the boxes (`Off` to `Wipe`), or the other
service, the server, the service and the first command (`StopOther` to `Commit`),
with `Undo` where the service does not start. The server's thread listens, accepts
the service that connects (`Accept`) and registers it (`Register`) even if the
socket was shut in between, reads and passes frames on (`Listen` to `LoopEnds`);
what it does to the link are the actions of `TrackerLink`, so that the module sees
of the server what `TrackingServer` is shown to provide, besides the life of its
thread, which is repeated here. The camera's thread is `RenderTest`, `RenderCopy`,
`RenderDraw`: it looks at the mode, copies the frame under the mutex and draws.
`TrackPoint` holds the arithmetic of `enable_tracking_point`, on coordinates that
are fractions of `Unit`.

Abstracted: one frame is on its way at a time, services connect without a backlog,
a host has one kind of fault. A mode other than the three is refused at once and
left out. That `start` returns false happens for a port below 1 only, and the port
is a constant.

### CameraService and RpcCamera (`mav_server/`, `camera_rpc_client.cpp`, `mav_client.cpp`)

`CameraService` is the server: each of the `Callers` has one call, whose `handler`
is served (`called`), changes the list of promises (`registering`,
`unregistering`), waits for its promise (`waiting`) or has its answer on the way
(`done`). The calls of `CameraImpl` are one action each. `Die` ends the process:
calls that are being served are lost, answers on the way may be. `registering`
lasts from the call to the end of `push_back`, so that races on the vector are
over-approximated; the outcome of such a race is undefined and is modelled as the
end of the process or as nothing.

`RpcCamera` extends it with the client's three threads and another client that
subscribes to capture infos. The main thread brings the client up (`Prepares`,
`Prepared`, `ReadsInformation`, `InformationRead`, `ReadsSettings`,
`SettingsRead`: `CameraRpcClient::init`, then `MavClient::start_runloop` with its
subscriptions in their order); the callback thread carries commands out
(`Commanded`, `Calling`, `Answered`), from the moment `MavClient` subscribed to
them; the work thread polls (`AsksStatus`, `StatusRead`). `_mutex` is taken where
the code takes it: not for information and status. `replaced`, `missed`, `doubt`
and `wasReset` are history, and the exceptions in the properties.

Abstracted: `CAM_MODE` stands for the settings; results are told apart by success;
the video, streaming, zoom, timestamp and `get_setting` calls, which have the
shape of `take_photo` and change nothing a property is about, are left out; the
client is killed only when no call of its own is being served; `MaxPhotos` bounds
the photos. `Unknown` is what the uninitialised `_current_mode` of the client
holds.

### ClientProcess (`mav_client_bin.cpp`, `mav_client.cpp`, `camera_client.cpp`, `camera_local_client.cpp`: 232-256, 822-960 and the `init_`/`free_` helpers, `led_control.cc`, `mav_watch.cc`)

The main thread's place is `main`. `InitRender`, `InitCamera`, `InitStorage`, `InitIr`
are `CameraLocalClient::init`; for each part there is its pointer (`object`: none,
shut, open) and its library. They fail in the ways of the code: library or symbol
missing, or the instance of one of the two cameras (`Missing`), not opened, with the
library unloaded and the pointer kept (`Refuse`), and for the camera also with the
library kept. A missing instance of the render bridge or the storage manager is not
tested for: lines 1848 and 1894 use a null pointer, which is one of the ends that
`Killed` stands for. An infrared camera that does not open is refused like the others
and then deleted (`DropIr`). `AiOff`, `Free`, `Delete` are the destructor with
`deinit`; `End` the end of the process, for which the operating system frees
everything. `FrameBegins` and `FrameEnds` are the cameras' threads inside
`capture_callback`. A change of the light is `Ask` (a thread) and `Change` (its
command); `Looks`, `LookFails`, `Warns` are `mav_watch`. What happens in a call to
something that is gone is undefined: it ends the process (`Killed`) or goes unnoticed.

### MC modules and proof modules

`MCCameraLocalClient`, `MCCameraSettings`, `MCTrackingServer`, `MCAiFunction` and
`MCRpcCamera` give the finite sets and symmetries, and the first three state
properties of section 6 (`ResetRefills` is in `RpcCamera`). `ClientProcess` is
checked as it is. The modules named `...Proofs` hold the theorems of section 5. The
definitions with a `_` in their name in the specifications are plausible faults of
the code, one for each property: each property is violated when the fault takes the
place of the action it varies.

## 3. The runs

| Run | Question | Instance |
|---|---|---|
| `capture_safety` | Are reset and capture exclusive; can everybody be left waiting; is no change of the card missed; does the light agree with the flag? | 2 callers (interchangeable), the notification thread, every start mode, with and without IR camera, every device call may fail, three kinds of report. 1.72 million states |
| `capture_modes` | Do flag and answer tell the truth, and do devices and flag change only as the abstract `Recorder` allows, while the mode is switched; does every command and every notification end? | 1 caller and the notification, every start mode, the mode switched at any moment among the three, also between the reads of one command, every device call may fail. 327 thousand states |
| `capture_full_card` (violation) | Is a full card never recorded on? | 1 caller, a card that fills |
| `capture_partial_start` (violation) | Is nothing recording when `stop_video` finds nothing to stop? | 1 caller, mode Dual, an IR camera that fails |
| `settings_safety` | Do settings, store, camera and render mode agree between commands; does the store keep what `ParamStore` promises? | all six keys, two environments of the mode, two of the resolution, deaths at every step and within a start, every subset of refusing calls, one setting at a time that could not be stored. 3.66 million states |
| `settings_priority` (violation) | Does the environment's camera mode count for more than the store's? | an environment that names video mode |
| `tracking_server` | Are commands delivered, is a stopped server quiet, are restarts safe; does `stop` return, does a dead tracker make room? | 1 controller, 2 senders, 2 indices, hosts that do and do not let the server listen. Also the refinement of `TrackerLink`. 387 thousand states |
| `ai_function` | Do mode, services and server agree; is an AI function that is off quiet; does a tracker act on an old command; is a control point the pixel asked for; does the wait for the server's thread come nearer its end, and every switch end? | every mode, every order of the two services, hosts that fail to stop or start a service or to listen, coordinates before, inside and beyond the picture. 1.05 million states |
| `rpc_camera` | Do client and camera agree on photos and mode; when is a missing camera used, when do two handlers meet in the list of promises? | 3 threads of the client and another client, every kind of command, 1 photo, every outcome of `prepare`, ends and restarts of both processes. 1.62 million states |
| `rpc_reset` (violation) | Are the settings read again after a reset? | resets only |
| `client_process` | Do pointers and libraries agree; does the light show the last request, and a dead client; does an interrupt end the process? | one process after the other, `mav_watch`, 2 modes of the client, 2 threads for each mode. 29 thousand states |
| `tracking_bind` (violation) | Does a start never end the program? | 1 controller, 1 sender |

Why these bounds are enough. *Callers*: the action mutex has one holder; two callers
and the notification give every pair of concurrent commands, and a third caller can
only wait for what the second waits for. The safety theorems hold for any number.
*Reports*: the code looks at two bits of a report; the three kinds give every change
of verdict and both reasons for a bad one. *Modes*: a switch is an action of its own,
so that one caller is enough for every switch between two of its reads; what another
caller adds is exclusion, which is in the other run. *Settings*: an invariant relates
one key to itself and the render mode to three; all of those are present with every
value that is told apart. *Unsaved*: one key at a time, because every set_value writes
all the others again; the theorems have any number. *Indices*: 2 is the smallest
number for which an index wraps and two senders collide; the theorem has any number.
*Senders*: two, because a load and a store race between two. *AI function*: a second
frame on its way would be kept as the first one is. The points have a coordinate
before, one inside and one beyond the picture; the theorem has any. *Photos*: one is
enough to be counted where it was not taken, or taken and not counted. *Threads of the
light*: two for a mode, so that one of them may come late after the other; a third
changes the light to the same mode again.

The `tracking_server` and `ai_function` runs do not check deadlock: on a host that
refuses to let the server listen the program may terminate, and the model then stops.

The properties that are not read off an action:

- `NoStandstill`: two mutexes, the tasks that a dropped future waits for, and a
  notification that takes the second mutex with the first in hand: somebody can
  always go on. TLC's own check for deadlock does not say it: another caller may
  call, or the mode be switched, while those inside are stuck.
- `ResetExcludesCapture` depends on the destructor of a temporary; keeping the
  future, the obvious "fix" of a blocking call, breaks it.
- `SdcardEdge`: the edge detector of the card must never remember another verdict
  than that of the last report, or the next change is taken for none.
- `FlagImpliesDevice`, `StartTruthful`: the flag and the answer against the two
  devices, over partial failures and switches of the mode between any two reads. A
  start that was switched while it ran may answer anything; a switch to Dual leads a
  stop to the IR camera, which may not record: the two exceptions (section 7).
- `RecordingLight` over captures, notifications and failed stops: the one moment in
  which the light outlives the flag is inside of a stop.
- `ImplementsRecorder`: a promise about flag and devices which no switch of the mode
  can break, between whichever of the reads it falls.
- `ImplementsStore`: over starts that die between two defaults, environments that
  name another mode or resolution than the store, stores that find no open file and
  deaths inside of commands, no stored value is overwritten, and none is lost outside
  of a `set_value`.
- `StoreAgrees`, `CameraAgrees`, `RenderFresh`: three copies and a derived value,
  over refusals and deaths at every step. Their exceptions are in the statement:
  the photo resolution is not stored when DNG or the environment sets it; a camera
  that refuses to be reset keeps its mode; a refused DNG leaves the render mode; a
  setting whose `set_value` found no open file differs from the store until it is
  stored again.
- `LatestDelivered`: no command falls between the cache and a tracker that is
  about to be registered.
- `StoppedIsQuiet`, `TerminatesOnlyUnheard`: whatever the loop was doing.
- `ImplementsLink`: no command overtakes the one that a new tracker is handed.
- `QuietWhenOff`: the frame is forgotten before the trackers are stopped, so only
  the join of the server's thread makes sure that nothing arrives any more.
- `FreshCommand`: the cached command outlives a mode; that a tracker never goes on
  with the point of an earlier mode rests on `enable_detection` in mode 2, sent
  whenever the service connects.
- `BoxesWiped`: with its two exceptions in the statement, a failed switch and a
  draw that was under way (section 7).
- `JoinNears`: a client that was accepted before the socket was shut is registered
  all the same; that adds one step to the wait, and no more than one.
- `CountAgrees`: two counters in two processes that start again independently.
- `ModeAgrees` (`RpcCamera`): the server cuts a change short when it believes to be
  in that mode, and the client notes the mode without a look at the result; the two
  agree as long as the camera did what it was told and was not reset.
- `NullOnlyAfterRestart`, `StreamsAlone`: what the missing guards of the server
  need to go wrong. Neither guard is in the server: the client's order of calls and
  its mutex stand in for them, and the properties say how far.
- `PointersHold`: over every prefix of `init` and every place of `deinit`, with the
  uses of something unloaded that the code does have as its exceptions (section 7).
- `LastShown`, `DeadIsTrue`, `DeadIsShown`: the light is written by threads of
  two processes, which are not ordered and not all completed.

## 4. Fairness

`CameraLocalClient`: weak fairness of every step inside a command, a notification
or a task (threads are scheduled, device calls return); strong fairness of the
steps that wait for a mutex, because a waiting thread sees it free again and again
rather than always: that `std::mutex` does not starve a thread for ever is a
property of the platform's implementation and is assumed. Nothing makes a caller
call, a sensor mode change or a report arrive.

`TrackingServer`: weak fairness of the loop's steps except `accept`, which waits
for a tracker that need not come, and of a controller inside a call. `LoopHangUp`
may be relied on because the client's socket has a receive timeout of a second
(`tracking_server.cpp`: `SO_RCVTIMEO`): the loop looks at `_running` even when the
tracker is silent, and sees the end of the stream when it has left. `StopReturns`
fails without the timeout. No fairness is asked of senders and trackers.

`AiFunction`: weak fairness of `set_ai_function` and of the server's steps; nobody
has to call, to connect, to send or to draw. `SwitchReturns` rests on the same
timeout of a second.

`RpcCamera` (`rpc_reset`): every thread of client and server that can go on does.
The counterexample is one under fairness: the thread at `refill` cannot go on.

`ClientProcess`: weak fairness of the main thread, of frames, of the commands of
the light and of `mav_watch`. Nobody has to launch or interrupt a client, or to
kill it. Weak fairness of the whole main thread is enough, since it never waits for
another thread.

## 5. The theorems

TLAPS checks each of these for every set of callers, controllers and senders,
every set of faults, reports and environments, and every number of indices allowed
by the named assumptions of the modules.

**CameraLocalClientProofs** (assumptions: the thread names are distinct, the
parameters are subsets of their types).

- `TypeCorrect`. By groups of variables, one lemma each.
- `LocksNeverCycle` (`NoLockCycle`: no holder of the action mutex waits for the
  storage mutex), `ResetIsExclusive`, by `LockInv`: a thread holds the action
  mutex exactly when its place says so (inside a capture, or joining a reset), the
  storage mutex is held exactly when the notification is under way, and a task of
  reset or format is alive only while its caller joins it. `NoLockCycle` alone is
  not inductive: it does not say who may release.
- `NobodyStandsStill`, from `LockInv` alone: the holder of the action mutex is in a
  step that waits for nothing, or waits for a task that can go on; if nobody holds
  it, whoever waits for it can have it, and whoever waits for the storage mutex
  waits for the notification, which is then one of those.
- `ClientImplementsRecorder`, for any `SwitchModes`, by `AllKnow`: what the holder of
  the mutex knows at each place, above all that a start which is about to succeed
  has turned some device on and a stop some device off. A step inside the critical
  section is one of `Recorder`'s; every other one leaves its four variables alone.
- `ResetIsNeverBusy` (`ResetNeverBusy`: no reset finds another one), by `ResetFlag`:
  the flag is up only while a reset task is alive; its caller then holds the mutex
  that another reset would need.
- `FormatsExclude` (`OneFormat`: at most one format runs, and its flag is up):
  inductive as it stands, with the types and `LockInv`.
- `CardVerdictIsFresh`, by `CardInv`, which adds the verdict of a report whose
  `stop_video` is still running.
- `FlagIsTrue`, `StartIsTruthful`, by `RecInv`, for any `SwitchModes`. `RecInv`
  follows "success" and the result of a start from one read of the mode to the next,
  as long as the mode was not switched under it (`turned`), and says of a raised flag
  that the device on which `stop_video` will decide is among those that record,
  unless a switch to Dual came last (`dualLate`), or a stop has succeeded and is about
  to lower the flag. What a switch does to it is a lemma of its own (`RecSwitch`).

**CameraSettingsProofs** (assumption: environments and faults are of their types).

- `Invariant`: `IInv`, whose parts are the types; `TodoInv` (what is left to
  assign: one assignment, or a suffix of the defaults); `HeadInv` (a committed
  assignment is in the map); `StoreInv` (memory differs from the map at most in the
  assignment on its way, the file from memory only while it is written);
  `CameraInv` (in a set the camera is ahead in one value, in a reset the settings
  are ahead in the mode and then the defaults done so far are the factory's);
  `RenderInv` (the render mode lags only in a command that will refresh it).
- `TypeCorrect`, `StoreKept`, `CameraKept`, `RenderKept` follow.
- `SettingsImplementStore`: a `Truncate` begins, and the `Write` puts; a `Crash`
  replaces the document by the file, which `StoreInv` makes the same thing except
  between `Truncate` and `Write`; a `StoreFails` changes nothing; a start, whole or
  broken off, adds to the file by `BootAdds`.

**TrackingServerProofs** (assumptions: users are either controllers or senders, at
least one index).

- `TypeCorrect`: the racing updates keep the index within its width.
- `CommandsDelivered`, for any users, by `ClientInv`: a client is registered only
  in the loop's serving part, and its socket is open only there.
- `StoppedServerIsQuiet`, `RestartsAreSafe`, for one controller, by `OneInv`: what
  the loop's place says of thread and socket (`ClientInv`), what the controller's
  place says of the loop (`LifeInv`), and that a host which lets the server listen
  never leaves an unjoined thread behind (`ThreadInv`). One controller is what the
  program has: `set_ai_function` runs on MAVSDK's callback thread and in the task
  of a reset which that thread waits for.
- `StopsComeNearer` (`StopNears`), for one controller, by `NearInv`: while `stop`
  waits, every step of the loop lowers `LoopLeft`, a bound of the steps to its end.
  `NearInv` says why none leads back: the flag is down, and an accept finds no
  listening socket.

`ServerImplementsLink`, for any users: each action is a step of `TrackerLink` or
leaves its four variables alone. It needs the invariant of `CommandsDelivered`, so
that what a tracker has seen is what is cached.

**CameraLocalClientProofs**, in addition: `LightIsTrue`, by `AllKnow`. The light
changes to "Recording" after the flag was raised and under the same mutex, so nobody
has lowered it in between; a stop lowers the flag and then changes the light; the
notification's other changes never turn it on.

**AiFunctionProofs** (assumptions: a unit, integer points, kinds of faults).

- `TypeCorrect`, `ControlPointIsPixel`: by a lemma on `Pixel`, about integer
  division, clamping and the last pixel, for every unit and coordinate.
- `QuietWhenOffHolds`, `ServicesAgreeHolds`: by what each place of `set_ai_function`
  says of services, server and thread on the way through a switch, among others
  that a loop is open only while its thread is joinable.
- `FreshCommandHolds`: by `mine`, which is true from the first command of a mode
  on, and `seen = latest` for whoever is connected.
- `JoinNearsHolds` (`JoinNears`): while a switch waits for the server's thread, no step
  raises `ServerLeft`, and each of that thread's own lowers it, from four at most.
- `BoxesWipedHolds`: boxes can come only from a draw that began in a mode.

**RpcCameraProofs** (assumptions: the four callers, the commands, a bound).
`Inv` joins the types, what each thread's place says of its call (`CallInv`) and of
the mutex (`MutexInv`), which camera a server that answered has (`LifeInv`,
`NullInv`), how far an answer on the way is ahead of the count (`CountInv`), and
how far one is ahead of the mode (`ModeInv`: of the server's, of settings that are
being read, and of the client's). The difficulty is that an answer and the change
it reports lie apart, and either process may end in between. `CountAgreesHolds`,
`ModeAgreesHolds`, `NullOnlyAfterRestartHolds`, `StreamsAloneHolds` and `TypeCorrect`
follow.

**ClientProcessProofs** (assumptions: the modes of the light, a bound of threads).

- `PointersAreHeld`, by `PartsInv`: which parts are open at which place of `init`,
  that everything but the part that failed, or the infrared camera that is being
  deleted, is loaded, and that a client that gave up at the render bridge or the
  camera has no camera that draws.
- `LastIsShown`, by `AloneInv`: as long as nothing overtook the last change, no
  other one is under way.
- `DeadLightIsTrue`, by `LiveInv`: beside a client that is not missed nothing is
  under way that turns the light to Dead, and a light that shows it will be changed.

Only model-checked: the liveness properties (`EveryCallReturns`, `StopReturns`,
`GoneTrackerForgotten`, `SwitchReturns`, `DeadIsShown`, `InterruptEnds`), which
TLAPS cannot prove from fairness. `StopsComeNearer` and `JoinNearsHolds` prove the
part of `StopReturns` and `SwitchReturns` that is not fairness: that the steps on
which fairness insists are finitely many. `StopsComeNearer`, `NoLockCycle`,
`ResetNeverBusy` and `OneFormat` are proved for all instances, and no run checks them.
The five violations are counterexamples of TLC.

## 6. Findings

Each is a violation run whose property says what the repository says.

1. **A full card is recorded on** (`capture_full_card`). `start_video` checks the
   space at line 335 under the storage mutex and starts at line 345 under the
   action mutex. A report of a full card in between finds no recording to stop; the
   start succeeds; further reports carry the same verdict and do nothing.
2. **A partial start cannot be stopped** (`capture_partial_start`). In mode Dual
   the IR camera's result overwrites `success` (line 373). When it fails the RGB
   camera records on with the flag down, and `stop_video` answers Success with the
   log line "call stop video without video is recording" (line 394).
3. **A start after a failed listen ends the program** (`tracking_bind`). `run_loop`
   ends by itself and clears `_running`; `stop` then returns without a join; the
   next `start` assigns to a joinable `std::thread`. `set_ai_function` expects
   `start` to report the failure (line 1804).
4. **A reset waits for itself** (`rpc_reset`). `CameraRpcClient::reset_settings`
   calls its callback with `_mutex` in hand (`camera_rpc_client.cpp:228`). That
   callback is to read the settings again ("reset settings need fill param again",
   `mav_client.cpp:215`), and `retrieve_current_settings` locks the same
   `std::mutex` (`camera_rpc_client.cpp:340`). The thread stays there; every later
   command waits for the mutex, and if the reset came during the start, the main
   thread does too.
5. **The store counts for more than the environment** (`settings_priority`). "init
   priority is env > store > default" (line 1003); for the camera mode the code reads
   the environment and then replaces it by the store's value whenever there is one
   (line 1024). For the photo resolution the comment is right, and the environment's
   value is not stored.

## 7. Observations

Behaviour of the code met while modelling, which has no run of its own.

- *Sensor mode.* `set_setting(CAM_SENS_MODE)` writes the mode without a mutex (line
  1234). During a recording, a switch from IR or Dual to Normal makes `stop_video`
  stop the RGB camera alone and lower the flag while the IR camera records on. A
  recording that was started in mode Normal, switched to Dual and stopped ends with
  the flag up and nothing recording: the IR camera's refusal replaces the success of
  the RGB camera (`FlagImpliesDevice` excepts that). Between the reads of one command
  a switch can make a start answer Success with a camera of the mode idle, or, with IR
  or Dual read second and IR or Normal third, with none started at all
  (`StartTruthful` excepts those). A reset during a recording has the first effect
  too, since it restores the mode Normal.
- *Light of the capture commands.* `stop_video` puts the light to Normal whatever it
  shows: a notification that found the flag down and turned it to SDCardError while
  the stop was about to change it is overwritten, and no later report of the same
  verdict repeats it.
- *Mode IR without an IR camera.* Photo and start do nothing and answer Success.
- *Reset.* `camera_client.h:40` calls `reset_settings` asynchronous. The future is
  dropped and waited for with the action mutex held: the call is synchronous, and
  its Busy answer is unreachable (`ResetIsNeverBusy`). "The reset function will
  always success" (line 489) is followed by a branch for its failure (line 537).
- *Format.* Nothing keeps `format_storage` from running during a recording.
- *DNG.* The comment at line 1328 says that DNG needs the full resolution;
  `set_photo_resolution` (line 1262) accepts another one afterwards. The resolution
  that DNG sets reaches the map only, neither camera nor store, and it is set
  before the camera is asked: a refused DNG changes the photo resolution too, against
  "when set success update the settings value and store value" (line 797).
- *Exposure value.* It is given to the camera at the start, in auto exposure only
  (lines 1410, 1437). After a start in manual exposure a switch to auto leaves the
  camera without it.
- *Crash.* `CameraParam::set_value` empties the file before it writes it
  (`camera_param.cc:14`). A death in between loses every setting; `StoreAgrees`
  holds since the next start writes the defaults and uses them.
- *Failed stores.* `set_value` returns false if the file does not open, and its
  callers drop that: the setting is in force and shown, and gone after a restart. A
  write that fails later (a full disk) is not even noticed by `set_value`, and leaves
  the file cut off; it is not modelled.
- *Tracking server.* After the loop ended by itself the destructor's `stop` returns
  early too, and the member `_thread` is destroyed joinable. `_server_fd` is not
  synchronised: `stop` and the end of the loop may both find it valid and close it, the
  second one whatever has that number by then. The model keeps shutdown, close and
  reset of the descriptor together. The packet index is
  incremented by concurrent senders without a mutex: two packets may carry one
  index, and the later packet the older one.
- *Recording time.* `fill_capture_status` reads the flag (line 702) and then the
  start time, which `start_video` writes after the flag: in between the time is that
  of an earlier recording.
- *Parameters.* A changed parameter is passed to `set_setting`, whose result is
  dropped (`mav_client.cpp:290, 298`): after a refusal the parameter server shows
  what was asked for.
- *AI function.* The frame is forgotten at the beginning of a switch only: from mode
  1 to 2 the last frame of the detection may be kept and shown until a new one
  comes. A control point that was sent while nobody was connected goes to
  whichever service connects first. After a service that could not be started, and
  after a draw that was under way, boxes stay on the screen with the AI function
  off. `capture_callback` uses `operator[]` of the settings' map (line 923) from the
  camera's thread, which inserts into the map if a frame comes before `init` has
  set the AI function.
- *Client of the service.* The client notes the mode it asked for also when it was
  refused. The list of promises is changed by two threads while the client starts up,
  or another one subscribes. A server that starts again has no camera and nobody calls
  `Prepare`: `take_photo`, `format_storage`, `set_setting` and `set_mode` then use a
  null pointer. `CameraImpl::init_ir_camera` looks up symbols in the handle of the
  other camera's library.
- *Giving up.* Render bridge and storage manager that do not open are unloaded while
  their pointers stay, and `deinit` calls them (`close`, the destructor).
  `free_mav_camera` is not called:
  if the storage manager fails, the RGB camera draws on in a client that is deleted.
  All this is while the process ends. A render bridge or a storage manager that could
  not be created is used as a null pointer (lines 1848, 1894).
- *No infrared camera.* "camera can init without ir camera" (line 850): an infrared
  camera that does not open is deleted after its library was closed (lines
  1636-1639), in a client that is to go on. That call into an unloaded library, in
  the place `dropIr`, is an exception of `PointersHold`.
- *Mode change after a reset.* `set_mode` does nothing in the "same mode"
  (`camera_impl.cpp:264`), which a reset of the settings does not bring back: asked
  for video after a reset it answers Success, and the camera stays in photo mode
  (`ModeAgrees` excepts a camera that was reset).
- *Interrupt.* SIGINT before `_running` is set, while the libraries are opened, is
  lost. A failed connection is not in the exit code of `main`.
- *Light.* `mav_watch` looks again at once as long as there is no client, and starts
  one thread and one process each time. A change to Dead that is under way when the
  client starts may come last, and Dead then stays beside a client that runs until
  something else is shown.
- *Service.* `CameraImpl::prepare` keeps the camera object when the camera is not
  found (line 85), so that a second Prepare answers Success at once.
  `get_camera_display_mode`, which `prepare` calls once the camera is open (line 181),
  reads a result that nothing has set (line 643); unless that happens to be Success it
  makes a `std::string` of a null pointer and throws, which is one of the ends of the
  process that `Crash` stands for.
  `capture_info_async` keeps its callback and never calls it, and
  `possible_setting_options_async` does nothing: their streams stay open, and
  nothing calls the service's `stop` before the server's `Shutdown`.

## 8. Assumptions about code outside the repository

- A camera whose start or stop succeeds records or does not; one whose start or
  stop fails stays as it was. A reset does not stop a recording.
- A camera's factory values are the program's defaults for the settings modelled.
- The storage manager calls from one thread, one notification at a time.
- MAVSDK calls settings and AI callbacks from one thread; several callers are
  allowed for the capture commands all the same.
- `kTrackingAddress` is a numeric address: `getaddrinfo` gives one result, and the
  loop over results is executed once.
- `accept` fails after `shutdown` and `close` of its socket from another thread.
- A send to a tracker that is there arrives, without blocking for ever: a packet has
  24 bytes, and the socket's buffer holds thousands of them.
- `systemctl stop` ends the service and with it its connection; `systemctl start` of
  a service that runs does nothing.
- gRPC answers a call at once, with an error, when there is no server; `Shutdown`
  lets running handlers end.
- The photos of a camera are counted by the camera from the client's start or the
  last format on.
- A thread that locks a `std::mutex` it holds waits for ever (undefined in C++; what
  the platform's implementation does).
- The command `leds-mode` takes effect whenever it runs: `led_control.cc:25` drops its
  result, so that a light which could not be changed goes unnoticed.
- A command of the light that has begun goes on when its process ends. `pgrep` finds
  a process that is there.

The tracker and the devices appear in the actions that interact with them.

## 9. What is not modelled

Not part of the program's logic: logging and file helpers, templates, camera
definitions, examples, and the protobuf and gRPC code that is generated from the
service's definition. That generated code is some 69 of the 80 thousand lines under
`src/src`, and serialises messages; hence the small share of all lines that the
models translate.

In the modelled components:

- the contents of pictures, of tracking frames (`parse_line`) and of messages; the
  conversions between the enumerations of MAVSDK, gRPC and the camera, which
  `PROJECT.json` maps where a model uses one;
- the ways in which pictures are drawn (five calls to the render bridge), zoom and
  streaming parameters, timestamps, and the `fill_` functions of the local client,
  which read;
- fourteen of the twenty settings, which follow the path of one that is modelled;
- concurrent `set_setting` calls, and the camera thread's read of the settings' map:
  data races on a `std::unordered_map`, without a defined outcome;
- video, streaming, zoom, photo interval and list calls of the RPC client and
  the service: each locks, calls and forwards a result;
- the answers that `MavClient` gives to MAVSDK, and the values in MAVSDK's parameter
  server, which are outside of the repository;
- the interplay of `ClientProcess` with the capture commands: the light's modes come
  from both, and `Shows` lets any of them happen at any time.

## 10. What could come next

The plan of the project is carried out: the capture commands, the settings, the
tracking server, each with its abstraction, the AI function with the control points,
client and service, and the process around the local client. Left are:

- an abstract service, with one photo count and one mode, implemented by
  `CameraService` between two restarts, so that `RpcCamera` could be proved against
  it instead of against the service itself;
- the part of `InterruptEnds` and `DeadIsShown` that is not fairness, as has been
  done for `StopReturns` and `SwitchReturns`;
- the recording time of `fill_capture_status` against the start of the recording;
- a version of `RpcCamera` with two commands' callers, should MAVSDK call back from
  more than one thread.
