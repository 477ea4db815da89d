------------------------------- MODULE RpcCamera -------------------------------
(***************************************************************************)
(* CameraRpcClient, and MavClient above it, with the camera service.  Three *)
(* threads of the client call the service: the main thread, which brings    *)
(* the client up, MAVSDK's callback thread, which carries commands out, and *)
(* the work thread, which asks for the status.  The first two hold _mutex   *)
(* during their calls, except for the main thread's first ones.             *)
(*                                                                         *)
(* A fourth caller is another client, which subscribes to capture infos.    *)
(***************************************************************************)
EXTENDS CameraService

CONSTANT Commands       \* what the ground station asks for

ASSUME CallersAssumption == Callers = {"main", "callback", "worker", "other"}
ASSUME CommandsAssumption ==
    Commands \subseteq {call \in Calls : call.op \in {"TakePhoto", "FormatStorage", "SetMode",
                                                      "SetSetting", "ResetSettings"}}

VARIABLES
    main,       \* where the main thread is
    callback,   \* where the callback thread is
    command,    \* the command it carries out
    worker,     \* where the work thread is
    mutex,      \* CameraRpcClient::_mutex: the thread that holds it, or free
    mode,       \* CameraRpcClient::_current_mode
    count,      \* _image_count
    shown,      \* _capture_status.image_count
    refill,     \* the settings were reset and not yet read again
    replaced,   \* the server started again since it told the client it is ready
    missed,     \* the answer to a photo or to a format was lost
    doubt       \* the camera's mode is not what was asked for

clientVars == <<main, callback, command, worker, mutex, mode, count, shown, refill>>
ghostVars == <<replaced, missed, doubt>>
vars == <<serviceVars, clientVars, ghostVars>>

ChangesMode == {"SetMode", "SetSetting"}

\* The callbacks are subscribed before the main thread reads the information.
Subscribed == main \notin {"down", "prepare"}

\* The server has answered that there is a camera.
Ready == Subscribed \/ (main = "prepare" /\ reply["main"] = "Success")

----------------------------------------------------------------------------
(* Plausible faults of this code, each a variant of the definition it names. *)

\* Every photo that was asked for is counted.
Answered_CountAlways ==
    /\ callback = "call" /\ handler["callback"] = "done"
    /\ LET answer == reply["callback"]
       IN  /\ count' = CASE answer = "Success" /\ command.op = "FormatStorage" -> 0
                         [] answer # "lost" /\ command.op = "TakePhoto" -> count + 1
                         [] OTHER -> count
           /\ mode' = IF command.op \in ChangesMode /\ answer # "lost"
                      THEN IF command.op = "SetMode" THEN command.arg ELSE ModeOf(command.arg)
                      ELSE mode
           /\ missed' = IF command.op \in {"TakePhoto", "FormatStorage"} /\ answer = "lost"
                        THEN TRUE ELSE missed
           /\ doubt' = (doubt \/ (answer = "lost" /\ command.op \in ChangesMode))
           /\ IF command.op = "ResetSettings" /\ answer = "Success"
              THEN callback' = "refill" /\ refill' = TRUE /\ UNCHANGED mutex
              ELSE callback' = "idle" /\ mutex' = "free" /\ UNCHANGED refill
    /\ command' = NoCall
    /\ Fetch("callback")
    /\ UNCHANGED <<process, cameraVars, main, worker, shown, replaced>>

\* The settings are not waited for: Finish is not called.
SettingsRead_NoFinish ==
    /\ main = "settings" /\ handler["main"] \in {"unregistering", "done"}
    /\ main' = "running"
    /\ mutex' = "free"
    /\ mode' = IF reply["main"] \in {"0", "1"} THEN ModeOf(reply["main"]) ELSE mode
    /\ refill' = FALSE
    /\ doubt' = ~(camera = "open" /\ reply["main"] \in {"0", "1"})
    /\ UNCHANGED <<serviceVars, callback, command, worker, count, shown, replaced,
                   missed>>

----------------------------------------------------------------------------
\* Unknown stands for what a member without an initial value holds.
RpcInit ==
    /\ Init
    /\ main = "down"
    /\ callback = "idle"
    /\ command = NoCall
    /\ worker = "off"
    /\ mutex = "free"
    /\ mode = "Unknown"
    /\ count = 0
    /\ shown = 0
    /\ refill = FALSE
    /\ replaced = FALSE
    /\ missed = FALSE
    /\ doubt = TRUE

(* the main thread: CameraRpcClient::init and MavClient::start_runloop *)

Prepares ==
    /\ main = "down"
    /\ main' = "prepare"
    /\ Send("main", Call("Prepare", "none"))
    /\ UNCHANGED <<process, cameraVars, callback, command, worker, mutex, mode, count,
                   shown, refill, ghostVars>>

\* A client without a camera ends; init starts the work thread of another.
Prepared ==
    /\ main = "prepare" /\ handler["main"] = "done"
    /\ Fetch("main")
    /\ IF reply["main"] = "Success"
       THEN /\ main' = "information"
            /\ worker' = "sleep"
            /\ count' = 0
            /\ UNCHANGED replaced
       ELSE main' = "down" /\ replaced' = FALSE /\ UNCHANGED <<worker, count>>
    /\ UNCHANGED <<process, cameraVars, callback, command, mutex, mode, shown, refill,
                   missed, doubt>>

\* fill_information and fill_video_stream_info do not take the mutex.
ReadsInformation ==
    /\ main \in {"information", "video stream info"}
    /\ Send("main", Call(IF main = "information" THEN "SubscribeInformation"
                                                 ELSE "SubscribeVideoStreamInfo", "none"))
    /\ UNCHANGED <<process, cameraVars, clientVars, ghostVars>>

InformationRead ==
    /\ main \in {"information", "video stream info"} /\ handler["main"] = "done"
    /\ main' = IF main = "information" THEN "video stream info" ELSE "param"
    /\ Fetch("main")
    /\ UNCHANGED <<process, cameraVars, callback, command, worker, mutex, mode, count,
                   shown, refill, ghostVars>>

\* fill_param calls retrieve_current_settings.
ReadsSettings ==
    /\ main = "param"
    /\ mutex = "free"
    /\ main' = "settings"
    /\ mutex' = "main"
    /\ Send("main", Call("SubscribeCurrentSettings", "none"))
    /\ UNCHANGED <<process, cameraVars, callback, command, worker, mode, count, shown,
                   refill, ghostVars>>

SettingsRead ==
    /\ main = "settings" /\ handler["main"] = "done"
    /\ main' = "running"
    /\ mutex' = "free"
    /\ mode' = IF reply["main"] \in {"0", "1"} THEN ModeOf(reply["main"]) ELSE mode
    /\ refill' = FALSE
    /\ doubt' = ~(camera = "open" /\ reply["main"] \in {"0", "1"})
    /\ Fetch("main")
    /\ UNCHANGED <<process, cameraVars, callback, command, worker, count, shown,
                   replaced, missed>>

\* The client is killed, when none of its calls is being served.
Killed ==
    /\ Subscribed
    /\ \A c \in {"main", "callback", "worker"} : handler[c] \in {"none", "done"}
    /\ request' = [c \in Callers |-> IF c = "other" THEN request[c] ELSE NoCall]
    /\ handler' = [c \in Callers |-> IF c = "other" THEN handler[c] ELSE "none"]
    /\ reply' = [c \in Callers |-> IF c = "other" THEN reply[c] ELSE "none"]
    /\ main' = "down" /\ callback' = "idle" /\ command' = NoCall /\ worker' = "off"
    /\ mutex' = "free"
    /\ mode' = "Unknown"
    /\ count' = 0 /\ shown' = 0 /\ photos' = 0
    /\ refill' = FALSE
    /\ replaced' = FALSE /\ missed' = FALSE /\ doubt' = TRUE
    /\ UNCHANGED <<process, camera, serverMode, setting, cameraMode, wasReset>>

(* the callback thread *)

\* Settings come as changed parameters, whose callbacks are subscribed last.
Commanded(call) ==
    /\ Subscribed /\ callback = "idle"
    /\ call.op = "SetSetting" => main \in {"param", "settings", "running"}
    /\ callback' = "lock"
    /\ command' = call
    /\ UNCHANGED <<serviceVars, main, worker, mutex, mode, count, shown, refill,
                   ghostVars>>

Calling ==
    /\ callback = "lock"
    /\ mutex = "free"
    /\ mutex' = "callback"
    /\ callback' = "call"
    /\ Send("callback", command)
    /\ UNCHANGED <<process, cameraVars, main, command, worker, mode, count, shown,
                   refill, ghostVars>>

\* set_mode and set_setting note the mode whatever the answer is.  reset_settings
\* calls back before it releases the mutex, and the callback is to read the
\* settings again, which begins by taking the mutex: a std::mutex is not
\* recursive, so that the thread is left at "refill" for good.
Answered ==
    /\ callback = "call" /\ handler["callback"] = "done"
    /\ LET answer == reply["callback"]
       IN  /\ count' = CASE answer = "Success" /\ command.op = "FormatStorage" -> 0
                         [] answer = "Success" /\ command.op = "TakePhoto" -> count + 1
                         [] OTHER -> count
           /\ mode' = IF command.op \in ChangesMode /\ answer # "lost"
                      THEN IF command.op = "SetMode" THEN command.arg ELSE ModeOf(command.arg)
                      ELSE mode
           /\ missed' = IF command.op \in {"TakePhoto", "FormatStorage"} /\ answer = "lost"
                        THEN TRUE ELSE missed
           /\ doubt' = (doubt \/ (answer = "lost" /\ command.op \in ChangesMode))
           /\ IF command.op = "ResetSettings" /\ answer = "Success"
              THEN callback' = "refill" /\ refill' = TRUE /\ UNCHANGED mutex
              ELSE callback' = "idle" /\ mutex' = "free" /\ UNCHANGED refill
    /\ command' = NoCall
    /\ Fetch("callback")
    /\ UNCHANGED <<process, cameraVars, main, worker, shown, replaced>>

(* the work thread *)

AsksStatus ==
    /\ worker = "sleep"
    /\ worker' = "status"
    /\ Send("worker", Call("SubscribeStatus", "none"))
    /\ UNCHANGED <<process, cameraVars, main, callback, command, mutex, mode, count,
                   shown, refill, ghostVars>>

StatusRead ==
    /\ worker = "status" /\ handler["worker"] = "done"
    /\ worker' = "sleep"
    /\ shown' = IF reply["worker"] = "lost" THEN shown ELSE count
    /\ Fetch("worker")
    /\ UNCHANGED <<process, cameraVars, main, callback, command, mutex, mode, count,
                   refill, ghostVars>>

(* another client *)

OtherSubscribes ==
    /\ Send("other", Call("SubscribeCaptureInfo", "none"))
    /\ UNCHANGED <<process, cameraVars, clientVars, ghostVars>>

OtherFetches ==
    /\ Fetch("other")
    /\ UNCHANGED <<process, cameraVars, clientVars, ghostVars>>

(* the service, with what is noted about it *)

\* The camera took no mode change that it was asked for, or another one.
Doubtful ==
    \/ "down" \in {process, process'}
    \/ \E c \in Callers :
          /\ Serving(c, "SetSetting") \/ Serving(c, "SetMode")
          /\ handler'[c] = "done"
          /\ serverMode' # (IF request[c].op = "SetMode" THEN request[c].arg
                                                         ELSE ModeOf(request[c].arg))
    \/ wasReset' # wasReset

ServiceStep ==
    /\ Service
    /\ replaced' = (replaced \/ (Ready /\ process = "down" /\ process' = "up"))
    /\ doubt' = (doubt \/ Doubtful)
    /\ UNCHANGED <<clientVars, missed>>

----------------------------------------------------------------------------
Main ==
    \/ Prepared \/ ReadsInformation \/ InformationRead
    \/ ReadsSettings \/ SettingsRead
Callback == Calling \/ Answered
Worker == AsksStatus \/ StatusRead

RpcNext ==
    \/ ServiceStep
    \/ Prepares \/ Main \/ Killed
    \/ \E call \in Commands : Commanded(call)
    \/ Callback
    \/ Worker
    \/ OtherSubscribes \/ OtherFetches

RpcSpec == RpcInit /\ [][RpcNext]_vars

\* The client's threads, too, run whenever they can.  Nobody has to start server
\* or client, and nobody has to interrupt them.
RpcFairSpec ==
    /\ RpcSpec
    /\ ServiceFairness
    /\ WF_vars(Main)
    /\ WF_vars(Callback)
    /\ WF_vars(Worker)

----------------------------------------------------------------------------
(* Properties *)

TypeOK ==
    /\ ServiceTypes
    /\ main \in {"down", "prepare", "information", "video stream info", "param", "settings",
                 "running"}
    /\ callback \in {"idle", "lock", "call", "refill"}
    /\ command \in Commands \cup {NoCall}
    /\ worker \in {"off", "sleep", "status"}
    /\ mutex \in {"free", "main", "callback"}
    /\ mode \in Modes \cup {"Unknown"}
    /\ count \in 0 .. MaxPhotos /\ shown \in 0 .. MaxPhotos
    /\ refill \in BOOLEAN
    /\ replaced \in BOOLEAN /\ missed \in BOOLEAN /\ doubt \in BOOLEAN

\* The client counts the photos the camera took: unless an answer was lost the two
\* agree whenever no command is being carried out, over restarts of the server.
CountAgrees == Subscribed /\ mutex # "callback" /\ ~missed => count = photos

\* The mode that the client shows is the camera's, as long as the camera did what
\* it was asked for, although set_mode is cut short at the server and the client
\* notes the mode without a look at the answer.
ModeAgrees ==
    mutex # "callback" /\ ~doubt /\ ~wasReset => camera = "open" /\ mode = cameraMode

\* A command reaches a server that has no camera, and then uses a null pointer, only
\* if the server started again while the client was up: nobody calls Prepare then.
NullOnlyAfterRestart ==
    (\E c \in Callers, op \in UsesCamera : Serving(c, op)) /\ camera = "none" => replaced

\* Two handlers change the vector of promises at once only while the client starts
\* up, or another client subscribes: _mutex does not keep the work thread apart
\* from the main thread.
StreamsAlone ==
    \A c, d \in Callers : c # d /\ InVector(c) /\ InVector(d) =>
        \/ main \in {"information", "video stream info", "settings"}
        \/ InVector("other")

\* "reset settings need fill param again" (mav_client.cpp).
ResetRefills == refill ~> ~refill
=============================================================================
