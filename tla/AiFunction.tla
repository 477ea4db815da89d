------------------------------ MODULE AiFunction ------------------------------
(***************************************************************************)
(* The AI function of CameraLocalClient: set_ai_function switches between   *)
(* no AI ("0"), object detection ("1") and object tracking ("2").  It starts *)
(* and stops two services and the tracking server to which they connect,    *)
(* the server's thread puts the frames it receives into _tracking_frame, the *)
(* camera's thread draws them, and control points go the other way.         *)
(*                                                                         *)
(* The server appears as TrackerLink, which TrackingServer implements.  One  *)
(* thread calls (MAVSDK's callbacks, or the task of a reset for which they  *)
(* wait); the server's thread and the camera's run beside it.               *)
(***************************************************************************)
EXTENDS Integers

CONSTANTS
    Faults,         \* what may fail on a host
    Points,         \* control points, as pairs of multiples of 1 / Unit
    Unit

ASSUME FaultsAssumption == Faults \subseteq {"stop", "start", "listen"}
ASSUME UnitAssumption == Unit \in Nat \ {0}
ASSUME PointsAssumption == Points \subseteq Int \X Int

Modes == {"0", "1", "2"}
Services == {"object_detection", "object_tracking"}
ServiceOf(mode) == IF mode = "1" THEN "object_detection" ELSE "object_tracking"
OtherService(mode) == IF mode = "1" THEN "object_tracking" ELSE "object_detection"

\* kTrackingControlSourceWidth and the two heights
Width == 1920
Height(photo) == IF photo THEN 1440 ELSE 1080

Packets ==
    [command : {"detect"}, x : {0}, y : {0}]
        \cup [command : {"point"}, x : 0 .. Width - 1, y : 0 .. Height(TRUE) - 1]
NoPacket == [command |-> "none", x |-> 0, y |-> 0]

VARIABLES
    pc,         \* where the caller is
    want,       \* the mode it asks for
    ok,         \* the result of the last set_ai_function
    setting,    \* _settings["CAM_AI_FUNC"]
    photo,      \* _settings["CAM_MODE"] = "0"
    mine,       \* the latest command was sent since the last switch began
    services,   \* the services that run
    running,    \* TrackingServer::_running
    joinable,   \* TrackingServer::_thread is to be joined
    listening,  \* the server's loop got its port
    client,     \* the service whose connection the loop accepted
    registered, \* it is in _client_fd and has got the cached command
    peer,       \* that service is still at the other end
    inflight,   \* a frame is on its way through the connection
    reading,    \* handle_client is inside its loop
    frame,      \* _has_tracking_frame
    rpc,        \* where capture_callback is
    held,       \* the copy it made, a frame or none
    boxes,      \* there are boxes on the screen
    late,       \* capture_callback was under way when the boxes were wiped
    crashed,    \* std::terminate was called
    faults      \* what may fail on this host, one thing at most

\* The server's link to the tracker.
VARIABLES open, latest, connected, seen
Link == INSTANCE TrackerLink

callVars == <<pc, want, ok>>
settingVars == <<setting, photo>>
serverVars == <<running, joinable, listening>>
connVars == <<client, registered, peer, inflight, reading>>
drawVars == <<rpc, held, boxes>>
linkVars == <<open, latest, connected, seen>>
hostVars == <<crashed, faults>>
vars == <<callVars, settingVars, mine, services, serverVars, connVars, frame, drawVars, late,
          hostVars, linkVars>>

----------------------------------------------------------------------------
Step(from, to) == pc = from /\ pc' = to

\* systemctl stop: the service's end of the connection closes with it.  A stop
\* that fails is logged and otherwise ignored.
StopService(s) ==
    \/ /\ services' = services \ {s}
       /\ peer' = (peer /\ client # s)
       /\ IF peer /\ client = s /\ registered THEN Link!Disconnect ELSE UNCHANGED linkVars
       /\ UNCHANGED <<client, registered, inflight, reading>>
    \/ /\ "stop" \in faults
       /\ UNCHANGED <<services, connVars, linkVars>>

\* The end of the picture is not taken back to the last pixel (a
\* plausible fault, as the others further down).
Pixel_NoEdge(p, size) ==
    LET clamped == IF p < 0 THEN 0 ELSE IF p > Unit THEN Unit ELSE p
    IN  (clamped * size) \div Unit

\* The pixel of a coordinate: clamped to the picture, scaled, rounded down.
Pixel(p, size) ==
    LET clamped == IF p < 0 THEN 0 ELSE IF p > Unit THEN Unit ELSE p
        pixel   == (clamped * size) \div Unit
    IN  IF pixel >= size THEN size - 1 ELSE pixel

Detect == [command |-> "detect", x |-> 0, y |-> 0]

\* The height of the video picture is used in every mode.
PointOf_VideoHeight(p) ==
    [command |-> "point", x |-> Pixel(p[1], Width), y |-> Pixel(p[2], Height(FALSE))]

PointOf(p) ==
    [command |-> "point", x |-> Pixel(p[1], Width), y |-> Pixel(p[2], Height(photo))]

----------------------------------------------------------------------------
(* Plausible faults of this code, each a variant of the definition it names. *)

\* A service that could not be started leaves the server running.
StartServiceFails_KeepServer ==
    /\ "start" \in faults
    /\ ServiceOf(want) \notin services
    /\ Step("start service", "undo")
    /\ UNCHANGED <<want, ok, settingVars, mine, services, serverVars, connVars, frame,
                   drawVars, late, hostVars, linkVars>>

\* stop does not wait for the server's thread.
JoinServer_NoWait ==
    /\ \/ Step("join", "wipe")
       \/ Step("undo join", "undo")
    /\ joinable' = FALSE
    /\ UNCHANGED <<want, ok, settingVars, mine, services, running, listening, connVars,
                   frame, drawVars, late, hostVars, linkVars>>

\* Mode "2" does not begin with a command of its own.
StartService_NoDetect ==
    /\ Step("start service", "commit")
    /\ services' = services \cup {ServiceOf(want)}
    /\ UNCHANGED <<want, ok, settingVars, mine, serverVars, connVars, frame, drawVars,
                   late, hostVars, linkVars>>

\* The setting is written after the services were stopped only.
Off_SettingLast ==
    /\ Step("off", "stop detection")
    /\ UNCHANGED <<want, ok, settingVars, mine, services, serverVars, connVars, frame,
                   drawVars, late, hostVars, linkVars>>

\* handle_client reads without looking at _running.
ReadBegin_Forever ==
    /\ registered /\ ~reading
    /\ reading' = TRUE
    /\ UNCHANGED <<callVars, settingVars, mine, services, serverVars, client, registered, peer,
                   inflight, frame, drawVars, late, hostVars, linkVars>>

\* stop lowers the flag and does not shut the listening socket.
Accept_NotShut(s) ==
    /\ open /\ listening
    /\ client = "none"
    /\ s \in services
    /\ client' = s
    /\ peer' = TRUE
    /\ inflight' = FALSE
    /\ UNCHANGED <<callVars, settingVars, mine, services, serverVars, registered, reading,
                   frame, drawVars, late, hostVars, linkVars>>

----------------------------------------------------------------------------
\* The program starts: services of an earlier run may still be there, and
\* init_ai_function calls set_ai_function("0").
Init ==
    /\ pc = "off"
    /\ want = "0"
    /\ ok = TRUE
    /\ setting = "0"
    /\ photo = TRUE
    /\ mine = FALSE
    /\ services \in SUBSET Services
    /\ running = FALSE
    /\ joinable = FALSE
    /\ listening = FALSE
    /\ client = "none"
    /\ registered = FALSE
    /\ peer = FALSE
    /\ inflight = FALSE
    /\ reading = FALSE
    /\ frame = FALSE
    /\ rpc = "idle"
    /\ held = FALSE
    /\ boxes = FALSE
    /\ late = FALSE
    /\ crashed = FALSE
    /\ faults \in {{}} \cup {{f} : f \in Faults}
    /\ Link!Init

(* set_ai_function *)

\* The last frame is forgotten first.
Switch(mode) ==
    /\ Step("idle", IF mode = "0" THEN "off" ELSE "stop other")
    /\ want' = mode
    /\ frame' = FALSE
    /\ mine' = FALSE
    /\ UNCHANGED <<ok, settingVars, services, serverVars, connVars, drawVars, late,
                   hostVars, linkVars>>

Off ==
    /\ Step("off", "stop detection")
    /\ setting' = "0"
    /\ UNCHANGED <<want, ok, photo, mine, services, serverVars, connVars, frame,
                   drawVars, late, hostVars, linkVars>>

OffDetection ==
    /\ Step("stop detection", "stop tracking")
    /\ StopService("object_detection")
    /\ UNCHANGED <<want, ok, settingVars, mine, serverVars, frame, drawVars, late,
                   hostVars>>

OffTracking ==
    /\ Step("stop tracking", "stop server")
    /\ StopService("object_tracking")
    /\ UNCHANGED <<want, ok, settingVars, mine, serverVars, frame, drawVars, late,
                   hostVars>>

\* TrackingServer::stop, for a switch to "0" and after a service that could not
\* be started: a server that does not run is left alone ...
StopEarly ==
    /\ ~running
    /\ \/ Step("stop server", "wipe")
       \/ Step("undo server", "undo")
    /\ UNCHANGED <<want, ok, settingVars, mine, services, serverVars, connVars, frame,
                   drawVars, late, hostVars, linkVars>>

StopServer ==
    /\ running
    /\ \/ Step("stop server", "join")
       \/ Step("undo server", "undo join")
    /\ running' = FALSE
    /\ UNCHANGED <<want, ok, settingVars, mine, services, joinable, listening,
                   connVars, frame, drawVars, late, hostVars, linkVars>>

\* ... and one that did is waited for.
JoinServer ==
    /\ ~open
    /\ \/ Step("join", "wipe")
       \/ Step("undo join", "undo")
    /\ joinable' = FALSE
    /\ UNCHANGED <<want, ok, settingVars, mine, services, running, listening, connVars,
                   frame, drawVars, late, hostVars, linkVars>>

Wipe ==
    /\ Step("wipe", "commit")
    /\ boxes' = FALSE
    /\ late' = (rpc # "idle")
    /\ UNCHANGED <<want, ok, settingVars, mine, services, serverVars, connVars, frame,
                   rpc, held, hostVars, linkVars>>

StopOther ==
    /\ Step("stop other", "start server")
    /\ StopService(OtherService(want))
    /\ UNCHANGED <<want, ok, settingVars, mine, serverVars, frame, drawVars, late,
                   hostVars>>

\* TrackingServer::start, which overwrites a thread that was not joined at the
\* price of the program.  (It fails for a port below 1 only.)
StartServer ==
    /\ Step("start server", "start service")
    /\ CASE running ->
              UNCHANGED <<serverVars, crashed, linkVars>>
         [] ~running /\ joinable ->
              running' = TRUE /\ crashed' = TRUE /\ UNCHANGED <<joinable, listening, linkVars>>
         [] OTHER ->
              /\ running' = TRUE
              /\ joinable' = TRUE
              /\ listening' = FALSE
              /\ Link!Open
              /\ UNCHANGED crashed
    /\ UNCHANGED <<want, ok, settingVars, mine, services, connVars, frame, drawVars,
                   late, faults>>

\* systemctl start does nothing for a service that runs.
StartService ==
    /\ Step("start service", IF want = "2" THEN "detect" ELSE "commit")
    /\ services' = services \cup {ServiceOf(want)}
    /\ UNCHANGED <<want, ok, settingVars, mine, serverVars, connVars, frame, drawVars,
                   late, hostVars, linkVars>>

StartServiceFails ==
    /\ "start" \in faults
    /\ ServiceOf(want) \notin services
    /\ Step("start service", "undo server")
    /\ UNCHANGED <<want, ok, settingVars, mine, services, serverVars, connVars, frame,
                   drawVars, late, hostVars, linkVars>>

Undo ==
    /\ Step("undo", "idle")
    /\ setting' = "0"
    /\ ok' = FALSE
    /\ UNCHANGED <<want, photo, mine, services, serverVars, connVars, frame, drawVars,
                   late, hostVars, linkVars>>

EnableDetection ==
    /\ Step("detect", "commit")
    /\ Link!Post(Detect)
    /\ mine' = TRUE
    /\ UNCHANGED <<want, ok, settingVars, services, serverVars, connVars, frame,
                   drawVars, late, hostVars>>

\* set_ai_function and then set_setting write the mode.
Commit ==
    /\ Step("commit", "idle")
    /\ setting' = want
    /\ ok' = TRUE
    /\ UNCHANGED <<want, photo, mine, services, serverVars, connVars, frame, drawVars,
                   late, hostVars, linkVars>>

(* control points, and the camera mode they depend on *)

TrackPoint(p) ==
    /\ Step("idle", "idle")
    /\ Link!Post(PointOf(p))
    /\ mine' = TRUE
    /\ UNCHANGED <<want, ok, settingVars, services, serverVars, connVars, frame,
                   drawVars, late, hostVars>>

DisableTracking ==
    /\ Step("idle", "idle")
    /\ Link!Post(Detect)
    /\ mine' = TRUE
    /\ UNCHANGED <<want, ok, settingVars, services, serverVars, connVars, frame,
                   drawVars, late, hostVars>>

SetCameraMode ==
    /\ Step("idle", "idle")
    /\ photo' = ~photo
    /\ UNCHANGED <<want, ok, setting, mine, services, serverVars, connVars, frame,
                   drawVars, late, hostVars, linkVars>>

(* run_loop, handle_client and the services at the other end *)

Listen ==
    /\ open /\ running /\ ~listening
    /\ listening' = TRUE
    /\ UNCHANGED <<callVars, settingVars, mine, services, running, joinable, connVars,
                   frame, drawVars, late, hostVars, linkVars>>

ListenFails ==
    /\ "listen" \in faults
    /\ open /\ ~listening
    /\ running' = FALSE
    /\ Link!Close
    /\ UNCHANGED <<callVars, settingVars, mine, services, joinable, listening,
                   connVars, frame, drawVars, late, hostVars>>

\* One connection is handled until it ends.  accept may return just before stop
\* shuts the listening socket ...
Accept(s) ==
    /\ open /\ running /\ listening
    /\ client = "none"
    /\ s \in services
    /\ client' = s
    /\ peer' = TRUE
    /\ inflight' = FALSE
    /\ UNCHANGED <<callVars, settingVars, mine, services, serverVars, registered, reading,
                   frame, drawVars, late, hostVars, linkVars>>

\* ... and the client is registered, and handed the cached command if it is still
\* there, whether or not the server is still to run.
Register ==
    /\ client # "none" /\ ~registered
    /\ registered' = TRUE
    /\ IF peer THEN Link!Connect ELSE UNCHANGED linkVars
    /\ UNCHANGED <<callVars, settingVars, mine, services, serverVars, client, peer, inflight,
                   reading, frame, drawVars, late, hostVars>>

\* A service may also leave by itself, and come again.
PeerLeaves ==
    /\ peer
    /\ peer' = FALSE
    /\ IF registered THEN Link!Disconnect ELSE UNCHANGED linkVars
    /\ UNCHANGED <<callVars, settingVars, mine, services, serverVars, client, registered,
                   inflight, reading, frame, drawVars, late, hostVars>>

\* One frame at a time is on its way.
PeerSends ==
    /\ peer /\ ~inflight
    /\ inflight' = TRUE
    /\ UNCHANGED <<callVars, settingVars, mine, services, serverVars, client, registered, peer,
                   reading, frame, drawVars, late, hostVars, linkVars>>

ReadBegin ==
    /\ registered /\ ~reading
    /\ running
    /\ reading' = TRUE
    /\ UNCHANGED <<callVars, settingVars, mine, services, serverVars, client, registered, peer,
                   inflight, frame, drawVars, late, hostVars, linkVars>>

\* recv returns a frame: tracking_callback keeps it.
Receive ==
    /\ reading /\ inflight
    /\ frame' = TRUE
    /\ inflight' = FALSE
    /\ reading' = FALSE
    /\ UNCHANGED <<callVars, settingVars, mine, services, serverVars, client, registered, peer,
                   drawVars, late, hostVars, linkVars>>

\* recv returns after a second without a frame.
ReceiveNothing ==
    /\ reading /\ ~inflight /\ peer
    /\ reading' = FALSE
    /\ UNCHANGED <<callVars, settingVars, mine, services, serverVars, client, registered, peer,
                   inflight, frame, drawVars, late, hostVars, linkVars>>

\* handle_client ends: the stream is at its end, or the server is to stop.
HangUp ==
    /\ registered
    /\ IF reading THEN ~peer ELSE ~running
    /\ client' = "none"
    /\ registered' = FALSE
    /\ peer' = FALSE
    /\ inflight' = FALSE
    /\ reading' = FALSE
    /\ IF peer THEN Link!Disconnect ELSE UNCHANGED linkVars
    /\ UNCHANGED <<callVars, settingVars, mine, services, serverVars, frame, drawVars,
                   late, hostVars>>

LoopEnds ==
    /\ ~running
    /\ client = "none"
    /\ Link!Close
    /\ UNCHANGED <<callVars, settingVars, mine, services, serverVars, connVars, frame,
                   drawVars, late, hostVars>>

(* capture_callback, after the picture itself was drawn *)

RenderTest ==
    /\ rpc = "idle"
    /\ setting # "0"
    /\ rpc' = "copy"
    /\ UNCHANGED <<callVars, settingVars, mine, services, serverVars, connVars, frame,
                   held, boxes, late, hostVars, linkVars>>

\* Under the frame's mutex.
RenderCopy ==
    /\ rpc = "copy"
    /\ rpc' = "draw"
    /\ held' = frame
    /\ UNCHANGED <<callVars, settingVars, mine, services, serverVars, connVars, frame,
                   boxes, late, hostVars, linkVars>>

RenderDraw ==
    /\ rpc = "draw"
    /\ rpc' = "idle"
    /\ boxes' = held
    /\ held' = FALSE
    /\ UNCHANGED <<callVars, settingVars, mine, services, serverVars, connVars, frame,
                   late, hostVars, linkVars>>

----------------------------------------------------------------------------
SetAiFunction ==
    \/ Off \/ OffDetection \/ OffTracking
    \/ StopEarly \/ StopServer \/ JoinServer \/ Wipe
    \/ StopOther \/ StartServer \/ StartService \/ StartServiceFails \/ Undo
    \/ EnableDetection \/ Commit

Control ==
    \/ \E p \in Points : TrackPoint(p)
    \/ DisableTracking
    \/ SetCameraMode

Server ==
    \/ Listen \/ ListenFails \/ Register
    \/ ReadBegin \/ Receive \/ ReceiveNothing \/ HangUp \/ LoopEnds

Render == RenderTest \/ RenderCopy \/ RenderDraw

Next ==
    /\ ~crashed
    /\ \/ \E mode \in Modes : Switch(mode)
       \/ SetAiFunction
       \/ Control
       \/ Server
       \/ \E s \in Services : Accept(s)
       \/ PeerSends \/ PeerLeaves
       \/ Render

Spec == Init /\ [][Next]_vars

\* Caller and server thread run whenever they can.  Nobody has to call, and no
\* service has to connect or to send.
Fairness ==
    /\ WF_vars(~crashed /\ SetAiFunction)
    /\ WF_vars(~crashed /\ Server)

FairSpec == Spec /\ Fairness

----------------------------------------------------------------------------
(* Properties *)

TypeOK ==
    /\ pc \in {"idle", "off", "stop detection", "stop tracking", "stop server", "join", "wipe",
               "stop other", "start server", "start service", "undo server", "undo join", "undo",
               "detect", "commit"}
    /\ want \in Modes /\ setting \in Modes
    /\ ok \in BOOLEAN /\ photo \in BOOLEAN /\ mine \in BOOLEAN
    /\ services \subseteq Services
    /\ running \in BOOLEAN /\ joinable \in BOOLEAN /\ listening \in BOOLEAN
    /\ client \in Services \cup {"none"}
    /\ registered \in BOOLEAN
    /\ peer \in BOOLEAN /\ inflight \in BOOLEAN /\ reading \in BOOLEAN
    /\ frame \in BOOLEAN /\ held \in BOOLEAN /\ boxes \in BOOLEAN
    /\ rpc \in {"idle", "copy", "draw"}
    /\ late \in BOOLEAN /\ crashed \in BOOLEAN
    /\ faults \subseteq Faults
    /\ open \in BOOLEAN /\ connected \in BOOLEAN
    /\ latest \in Packets \cup {NoPacket} /\ seen \in Packets \cup {NoPacket}

\* Between calls the services are those of the mode shown, and the server runs
\* exactly if there is a mode, also after a service that could not be started.
ServicesAgree ==
    pc = "idle" =>
        /\ "listen" \notin faults => (running <=> setting # "0")
        /\ "stop" \notin faults =>
              services = IF setting = "0" THEN {} ELSE {ServiceOf(setting)}

\* With the AI function off the server's thread is gone, whatever connection it
\* was handling, so that no frame of an old mode can arrive any more.
QuietWhenOff == pc = "idle" /\ setting = "0" => ~open /\ client = "none"

\* In mode "2" a tracker that is connected was told something since the mode was
\* chosen: it does not go on with a point of an earlier mode, although the cached
\* command outlives the mode and the tracker connects whenever it likes.
FreshCommand ==
    pc = "idle" /\ setting = "2" /\ connected => mine /\ seen = latest

\* Boxes stay on the screen with the AI function off only if a switch failed, or
\* the camera's thread was drawing when they were wiped.
BoxesWiped == pc = "idle" /\ setting = "0" /\ ok /\ ~late => ~boxes

\* The pixel that a coordinate is in, by its meaning; the end of the picture
\* belongs to the last.
IsPixelOf(i, p, size) ==
    /\ i \in 0 .. size - 1
    /\ \/ i * Unit <= p * size /\ p * size < (i + 1) * Unit
       \/ i = 0 /\ p < 0
       \/ i = size - 1 /\ p >= Unit

\* The point that trackers are given is the pixel asked for, in the picture that
\* the camera's mode has.
PointIsPixel ==
    [][\A p \in Points : TrackPoint(p) =>
          /\ IsPixelOf(latest'.x, p[1], Width)
          /\ IsPixelOf(latest'.y, p[2], Height(photo))]_vars

\* What the server's thread has left to do once it is to end: a client that was
\* accepted is registered first and dropped then.
ServerLeft ==
    (IF open THEN 1 ELSE 0) + (IF client = "none" THEN 0 ELSE IF registered THEN 1 ELSE 2)
        + (IF reading THEN 1 ELSE 0)

\* While the caller waits for the server's thread, every step of that thread
\* brings its end nearer, whatever the service at the other end sends and although
\* a client may be registered late, and no other step puts it off.
JoinNears ==
    [][pc' = pc /\ pc \in {"join", "undo join"} =>
          /\ ServerLeft' <= ServerLeft
          /\ Server => ServerLeft' < ServerLeft]_vars

\* Every switch ends, whatever the tracker at the other end does.
SwitchReturns == pc # "idle" ~> pc = "idle" \/ crashed
=============================================================================
