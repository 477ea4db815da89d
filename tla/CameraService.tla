----------------------------- MODULE CameraService -----------------------------
(***************************************************************************)
(* mav_server: the gRPC service CameraServiceImpl and the CameraImpl behind *)
(* it.  A call is served by a thread of its own.  Most calls are answered by *)
(* what CameraImpl returns; a Subscribe call registers a promise in          *)
(* _stream_stop_promises, is answered by CameraImpl's callback, removes the *)
(* promise again and waits for it.                                         *)
(*                                                                         *)
(* CAM_MODE stands for the settings.  Results are told apart by success.    *)
(***************************************************************************)
EXTENDS Integers

CONSTANTS
    Callers,    \* the clients' threads, each with one call at a time
    MaxPhotos   \* bound of the photos that are taken

ASSUME MaxPhotosAssumption == MaxPhotos \in Nat

Modes == {"Photo", "Video"}
SettingOf(mode) == IF mode = "Photo" THEN "0" ELSE "1"
ModeOf(value) == IF value = "0" THEN "Photo" ELSE "Video"

Call(op, arg) == [op |-> op, arg |-> arg]
NoCall == Call("none", "none")

\* The Subscribe calls, and those of the others that clients make.
Streams == {"SubscribeInformation", "SubscribeVideoStreamInfo", "SubscribeStatus",
            "SubscribeCurrentSettings", "SubscribeCaptureInfo"}
Calls ==
    {Call(op, "none") :
        op \in Streams \cup {"Prepare", "TakePhoto", "FormatStorage", "ResetSettings"}}
        \cup {Call("SetMode", mode) : mode \in Modes}
        \cup {Call("SetSetting", value) : value \in {"0", "1"}}

VARIABLES
    process,    \* of the server: up, stopping (Shutdown was called) or down
    camera,     \* _mav_camera: none, unready (prepare failed), closed (open
                \* failed) or open
    serverMode, \* CameraImpl::_current_mode
    setting,    \* _settings["CAM_MODE"], if there is one
    cameraMode, \* the mode the camera is in
    photos,     \* photos taken since the client came up or the last format
    wasReset,   \* the camera was reset since the server started
    request,    \* the callers' calls
    handler,    \* how far they are
    reply       \* what they were answered

cameraVars == <<camera, serverMode, setting, cameraMode, photos, wasReset>>
callVars == <<request, handler, reply>>
serviceVars == <<process, cameraVars, callVars>>

----------------------------------------------------------------------------
\* A gRPC call fails at once if the server does not take calls.  A Subscribe call
\* registers its promise right away.
Send(c, call) ==
    /\ handler[c] = "none"
    /\ request' = [request EXCEPT ![c] = call]
    /\ handler' = [handler EXCEPT ![c] =
                        CASE process # "up" -> "done"
                          [] process = "up" /\ call.op \in Streams -> "registering"
                          [] OTHER -> "called"]
    /\ reply' = [reply EXCEPT ![c] = IF process = "up" THEN "none" ELSE "lost"]

\* The caller has its answer.
Fetch(c) ==
    /\ handler[c] = "done"
    /\ request' = [request EXCEPT ![c] = NoCall]
    /\ handler' = [handler EXCEPT ![c] = "none"]
    /\ reply' = [reply EXCEPT ![c] = "none"]

\* CameraImpl has returned; the answer is on its way.
Return(c, result) ==
    /\ handler' = [handler EXCEPT ![c] = "done"]
    /\ reply' = [reply EXCEPT ![c] = result]
    /\ UNCHANGED <<process, request>>

Serving(c, op) == handler[c] = "called" /\ request[c].op = op

Succeeded(ok) == IF ok THEN "Success" ELSE "Error"

\* The calls that are being served are lost with the process, and so may be the
\* answers that are on their way.
Die ==
    /\ process' = "down"
    /\ handler' = [c \in Callers |-> IF handler[c] = "none" THEN "none" ELSE "done"]
    /\ \E delivered \in SUBSET {c \in Callers : handler[c] = "done"} :
          reply' = [c \in Callers |->
                        IF handler[c] = "none" \/ c \in delivered THEN reply[c] ELSE "lost"]
    /\ UNCHANGED <<cameraVars, request>>

\* A handler inside push_back or erase of the vector.
InVector(c) == handler[c] \in {"registering", "unregistering"}

----------------------------------------------------------------------------
(* Plausible faults of this code, each a variant of the definition it names. *)

\* A camera that is not ready is forgotten, and reported ready all the same.
Prepare_ForgetUnready(c) ==
    /\ Serving(c, "Prepare")
    /\ IF camera # "none"
       THEN Return(c, "Success") /\ UNCHANGED cameraVars
       ELSE \E found \in {"none", "open"}, mode \in Modes :
                /\ camera' = found
                /\ setting' = SettingOf(mode)
                /\ cameraMode' = mode
                /\ Return(c, "Success")
                /\ UNCHANGED <<serverMode, photos, wasReset>>

\* The mode is noted before the camera has taken it.
SetMode_NoteFirst(c) ==
    /\ Serving(c, "SetMode")
    /\ camera # "none"
    /\ serverMode' = request[c].arg
    /\ Return(c, "Success")
    /\ UNCHANGED <<camera, setting, cameraMode, photos, wasReset>>

\* A stream is not answered while there is no camera.
Answer_NeedsCamera(c) ==
    /\ handler[c] = "registering"
    /\ IF request[c].op = "SubscribeCaptureInfo" \/ camera = "none"
       THEN /\ handler' = [handler EXCEPT ![c] = "waiting"]
            /\ UNCHANGED reply
       ELSE /\ handler' = [handler EXCEPT ![c] = "unregistering"]
            /\ reply' = [reply EXCEPT ![c] =
                            IF request[c].op = "SubscribeCurrentSettings" THEN setting ELSE "data"]
    /\ UNCHANGED <<process, cameraVars, request>>

----------------------------------------------------------------------------
Init ==
    /\ process = "down"
    /\ camera = "none"
    /\ serverMode = "Unknown"
    /\ setting = "none"
    /\ wasReset = FALSE
    /\ cameraMode = "Photo"
    /\ photos = 0
    /\ request = [c \in Callers |-> NoCall]
    /\ handler = [c \in Callers |-> "none"]
    /\ reply = [c \in Callers |-> "none"]

\* The server starts; it has no camera until somebody calls Prepare.
Start ==
    /\ process = "down"
    /\ process' = "up"
    /\ camera' = "none"
    /\ serverMode' = "Unknown"
    /\ setting' = "none"
    /\ wasReset' = FALSE
    /\ UNCHANGED <<cameraMode, photos, callVars>>

(* the calls that CameraImpl answers *)

\* A camera that was created is kept even if its prepare fails: the next call
\* finds it and succeeds.  A camera that cannot be opened is a success at once.
Prepare(c) ==
    /\ Serving(c, "Prepare")
    /\ IF camera # "none"
       THEN Return(c, "Success") /\ UNCHANGED cameraVars
       ELSE \E found \in {"none", "unready", "closed", "open"}, mode \in Modes :
                /\ camera' = found
                /\ setting' = IF found \in {"closed", "open"} THEN SettingOf(mode) ELSE "none"
                /\ cameraMode' = IF found = "open" THEN mode ELSE cameraMode
                /\ Return(c, Succeeded(found \in {"closed", "open"}))
                /\ UNCHANGED <<serverMode, photos, wasReset>>

\* These use _mav_camera without a look whether there is one.
UsesCamera == {"TakePhoto", "FormatStorage", "SetSetting", "SetMode"}

NullUse(c) ==
    /\ camera = "none"
    /\ \E op \in UsesCamera : Serving(c, op)
    /\ request[c].op = "SetMode" => serverMode # request[c].arg
    /\ Die

TakePhoto(c) ==
    /\ Serving(c, "TakePhoto")
    /\ camera # "none"
    /\ \E ok \in BOOLEAN :
          /\ ok => camera = "open" /\ photos < MaxPhotos
          /\ photos' = IF ok THEN photos + 1 ELSE photos
          /\ Return(c, Succeeded(ok))
    /\ UNCHANGED <<camera, serverMode, setting, cameraMode, wasReset>>

FormatStorage(c) ==
    /\ Serving(c, "FormatStorage")
    /\ camera # "none"
    /\ \E ok \in BOOLEAN :
          /\ ok => camera = "open"
          /\ photos' = IF ok THEN 0 ELSE photos
          /\ Return(c, Succeeded(ok))
    /\ UNCHANGED <<camera, serverMode, setting, cameraMode, wasReset>>

\* set_setting says Success also where the camera refused.
ChangeMode(c, mode) ==
    /\ camera # "none"
    /\ \/ /\ camera = "open"
          /\ serverMode' = mode
          /\ cameraMode' = mode
          /\ setting' = SettingOf(mode)
       \/ UNCHANGED <<serverMode, cameraMode, setting>>
    /\ Return(c, "Success")
    /\ UNCHANGED <<camera, photos, wasReset>>

SetSetting(c) == Serving(c, "SetSetting") /\ ChangeMode(c, ModeOf(request[c].arg))

SetMode(c) ==
    /\ Serving(c, "SetMode")
    /\ IF serverMode = request[c].arg
       THEN Return(c, "Success") /\ UNCHANGED cameraVars
       ELSE ChangeMode(c, request[c].arg)

\* The settings go back to their defaults, and the camera to photo mode;
\* _current_mode does not.
ResetSettings(c) ==
    /\ Serving(c, "ResetSettings")
    /\ IF camera = "none"
       THEN Return(c, "Error") /\ UNCHANGED cameraVars
       ELSE /\ \/ /\ camera = "open"
                  /\ setting' = "0"
                  /\ cameraMode' = "Photo"
                  /\ wasReset' = TRUE
               \/ UNCHANGED <<setting, cameraMode, wasReset>>
            /\ Return(c, "Success")
            /\ UNCHANGED <<camera, serverMode, photos>>

(* the Subscribe calls *)

\* The promise is registered.  CameraImpl calls back at once, except for the
\* capture info, whose callback it only keeps.
Answer(c) ==
    /\ handler[c] = "registering"
    /\ IF request[c].op = "SubscribeCaptureInfo"
       THEN /\ handler' = [handler EXCEPT ![c] = "waiting"]
            /\ UNCHANGED reply
       ELSE /\ handler' = [handler EXCEPT ![c] = "unregistering"]
            /\ reply' = [reply EXCEPT ![c] =
                            IF request[c].op = "SubscribeCurrentSettings" THEN setting ELSE "data"]
    /\ UNCHANGED <<process, cameraVars, request>>

Unregister(c) ==
    /\ handler[c] = "unregistering"
    /\ handler' = [handler EXCEPT ![c] = "done"]
    /\ UNCHANGED <<process, cameraVars, request, reply>>

\* Two threads change the vector at once: anything may happen, for instance this.
VectorRace ==
    /\ \E c, d \in Callers : c # d /\ InVector(c) /\ InVector(d)
    /\ Die

(* the end *)

\* SIGINT: MavServer::stop_runloop calls Shutdown, which takes no calls any more
\* and waits for those that are being served.
Interrupt ==
    /\ process = "up"
    /\ process' = "stopping"
    /\ UNCHANGED <<cameraVars, callVars>>

Exit ==
    /\ process = "stopping"
    /\ \A c \in Callers : handler[c] \in {"none", "done"}
    /\ Die

Crash ==
    /\ process # "down"
    /\ Die

----------------------------------------------------------------------------
Serve(c) ==
    \/ Prepare(c) \/ NullUse(c)
    \/ TakePhoto(c) \/ FormatStorage(c)
    \/ SetSetting(c) \/ SetMode(c) \/ ResetSettings(c)
    \/ Answer(c) \/ Unregister(c)

Service ==
    \/ Start \/ Interrupt \/ Exit \/ Crash \/ VectorRace
    \/ \E c \in Callers : Serve(c)

\* Threads that serve a call run whenever they can, and so does the exit.
ServiceFairness ==
    /\ \A c \in Callers : WF_serviceVars(Serve(c))
    /\ WF_serviceVars(Exit)

ServiceTypes ==
    /\ process \in {"up", "stopping", "down"}
    /\ camera \in {"none", "unready", "closed", "open"}
    /\ serverMode \in Modes \cup {"Unknown"}
    /\ setting \in {"none", "0", "1"}
    /\ cameraMode \in Modes
    /\ photos \in 0 .. MaxPhotos
    /\ wasReset \in BOOLEAN
    /\ request \in [Callers -> Calls \cup {NoCall}]
    /\ handler \in [Callers -> {"none", "called", "registering", "unregistering", "waiting",
                                "done"}]
    /\ reply \in [Callers -> {"none", "lost", "Success", "Error", "data", "0", "1"}]
=============================================================================
