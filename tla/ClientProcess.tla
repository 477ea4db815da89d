---------------------------- MODULE ClientProcess ----------------------------
(***************************************************************************)
(* The life of the mav_client process with a local camera: main, MavClient  *)
(* and CameraLocalClient load four shared libraries one after the other,    *)
(* run until they are interrupted, or give up and take down what they have. *)
(* The cameras' threads draw frames with the render bridge all the while.   *)
(*                                                                         *)
(* Beside it runs mav_watch, which turns the light on for a dead client.    *)
(* Every change of the light is a thread that runs a command (led_control). *)
(*                                                                         *)
(* A call through a pointer to something that is gone ends the process or   *)
(* goes unnoticed.                                                         *)
(***************************************************************************)
EXTENDS Integers

CONSTANTS
    ClientLights,   \* what the client asks the light to show
    MaxThreads      \* bound of the threads that change the light to the same mode

ASSUME LightsAssumption ==
    "Normal" \in ClientLights
        /\ ClientLights \subseteq {"Normal", "SDCardError", "Recording", "TakePhoto"}
ASSUME MaxThreadsAssumption == MaxThreads \in Nat \ {0}

Lights == ClientLights \cup {"Dead"}
Parts == {"render", "camera", "storage", "ir"}
Cameras == {"camera", "ir"}

VARIABLES
    main,       \* where the main thread is; over: there is no process
    object,     \* what each part's pointer points to: nothing, an object that is
                \* shut, or an open one
    library,    \* the part's library is loaded
    client,     \* the memory of CameraLocalClient is allocated
    frame,      \* the camera's thread is in capture_callback
    running,    \* MavClient::_running
    refused,    \* the part whose failure made init fail
    asked,      \* an interrupt came while the loop ran
    watch,      \* mav_watch: looks, or has found no client
    pending,    \* threads that will change the light, for each mode
    light,      \* what it shows
    last,       \* the mode that was asked for last
    alone,      \* no other change was under way then or has been since
    stale       \* a change to Dead was under way when the client started

processVars == <<main, object, library, client, frame, running, refused, asked>>
lightVars == <<watch, pending, light, last, alone, stale>>
vars == <<processVars, lightVars>>

Settled == \A mode \in Lights : pending[mode] = 0

\* What an object or a thread is when the process starts or ends.
Nothing == [part \in Parts |-> "none"]
Unloaded == [part \in Parts |-> FALSE]
NoFrame == [source \in Cameras |-> FALSE]

----------------------------------------------------------------------------
(* Plausible faults of this code, each a variant of the definition it names. *)

\* A mode without a command.
Ask_NoCommand(mode) ==
    /\ pending[mode] < MaxThreads
    /\ pending' = IF mode = "Normal" THEN pending ELSE [pending EXCEPT ![mode] = @ + 1]
    /\ last' = mode
    /\ alone' = Settled

\* A client that finds no infrared camera gives up, as without the other parts.
InitIr_GiveUp ==
    /\ main = "ir"
    /\ \/ /\ object' = [object EXCEPT !["ir"] = "open"]
          /\ library' = [library EXCEPT !["ir"] = TRUE]
          /\ main' = "connect"
          /\ UNCHANGED refused
       \/ /\ main' = "aiOff" /\ refused' = "ir"
          /\ UNCHANGED <<object, library>>
    /\ UNCHANGED <<client, frame, running, asked, lightVars>>

\* mav_watch asks for one change only, to spare threads.
Warns_IfChanged ==
    /\ watch = "gone"
    /\ last # "Dead"
    /\ pending["Dead"] < MaxThreads
    /\ pending' = [pending EXCEPT !["Dead"] = @ + 1]
    /\ last' = "Dead"
    /\ alone' = Settled
    /\ watch' = "look"
    /\ UNCHANGED <<processVars, light, stale>>

\* MavClient::init leaves the light as it finds it.
Launch_KeepLight ==
    /\ main = "over"
    /\ main' = "render"
    /\ client' = TRUE
    /\ stale' = (watch = "gone" \/ pending["Dead"] > 0)
    /\ UNCHANGED <<object, library, frame, running, refused, asked, watch,
                   pending, light, last, alone>>

\* An infrared camera that does not open keeps its pointer, as the others do.
DropIr_KeepPointer ==
    /\ main = "dropIr"
    /\ main' = "connect"
    /\ UNCHANGED <<object, library, client, frame, running, refused, asked, lightVars>>

\* The loop ends when no camera draws.
LoopEnds_WaitsForFrames ==
    /\ main = "loop" /\ ~running
    /\ \A source \in Cameras : ~frame[source]
    /\ main' = "over"
    /\ object' = Nothing /\ library' = Unloaded /\ client' = FALSE
    /\ refused' = "none" /\ asked' = FALSE
    /\ UNCHANGED <<frame, running, lightVars>>

----------------------------------------------------------------------------
(* the light: switch_led_mode *)

Ask(mode) ==
    /\ pending[mode] < MaxThreads
    /\ pending' = [pending EXCEPT ![mode] = @ + 1]
    /\ last' = mode
    /\ alone' = Settled

\* The threads are detached: their commands take effect in any order.
Change(mode) ==
    /\ pending[mode] > 0
    /\ pending' = [pending EXCEPT ![mode] = @ - 1]
    /\ light' = mode
    /\ UNCHANGED <<processVars, watch, last, alone, stale>>

----------------------------------------------------------------------------
(* mav_client *)

Init ==
    /\ main = "over"
    /\ object = Nothing /\ library = Unloaded
    /\ client = FALSE
    /\ frame = NoFrame
    /\ running = FALSE
    /\ refused = "none"
    /\ asked = FALSE
    /\ watch = "look"
    /\ pending = [mode \in Lights |-> 0]
    /\ light \in Lights
    /\ last = light
    /\ alone = TRUE
    /\ stale = FALSE

\* MavClient::init turns the light to normal and makes the camera client.
Launch ==
    /\ main = "over"
    /\ main' = "render"
    /\ client' = TRUE
    /\ Ask("Normal")
    /\ stale' = (watch = "gone" \/ pending["Dead"] > 0)
    /\ UNCHANGED <<object, library, frame, running, refused, asked, watch, light>>

\* The process is over.  A thread that has not started its command is lost with
\* it; the command of another one goes on.
End ==
    /\ main' = "over"
    /\ object' = Nothing /\ library' = Unloaded
    /\ client' = FALSE
    /\ frame' = NoFrame
    /\ running' = FALSE
    /\ refused' = "none"
    /\ asked' = FALSE
    /\ \E kept \in [Lights -> 0 .. MaxThreads] :
          /\ \A mode \in Lights : kept[mode] <= pending[mode]
          /\ kept["Dead"] = pending["Dead"]
          /\ pending' = kept
          /\ alone' = (alone /\ kept = pending)
    /\ UNCHANGED <<watch, light, last, stale>>

\* A crash, for one of the uses of something that is gone or any other cause.
Killed == main # "over" /\ End

(* CameraLocalClient::init *)

Open(part) ==
    /\ object' = [object EXCEPT ![part] = "open"]
    /\ library' = [library EXCEPT ![part] = TRUE]

\* The library or its symbol is missing, or the object of a camera: the pointer
\* stays null.
Missing == UNCHANGED <<object, library>>

\* The object does not open: its library is unloaded, but the pointer stays.
Refuse(part) ==
    /\ object' = [object EXCEPT ![part] = "shut"]
    /\ UNCHANGED library

\* init returns false, and CreateLocalCameraClient deletes the client.
GiveUp(part) == main' = "aiOff" /\ refused' = part

InitRender ==
    /\ main = "render"
    /\ \/ Open("render") /\ main' = "camera" /\ UNCHANGED refused
       \/ (Missing \/ Refuse("render")) /\ GiveUp("render")
    /\ UNCHANGED <<client, frame, running, asked, lightVars>>

\* Here an object that is prepared and then does not open keeps its library.
InitCamera ==
    /\ main = "camera"
    /\ \/ Open("camera") /\ main' = "storage" /\ UNCHANGED refused
       \/ (Missing \/ Refuse("camera")) /\ GiveUp("camera")
       \/ /\ object' = [object EXCEPT !["camera"] = "shut"]
          /\ library' = [library EXCEPT !["camera"] = TRUE]
          /\ GiveUp("camera")
    /\ UNCHANGED <<client, frame, running, asked, lightVars>>

InitStorage ==
    /\ main = "storage"
    /\ \/ Open("storage") /\ main' = "ir" /\ UNCHANGED refused
       \/ (Missing \/ Refuse("storage")) /\ GiveUp("storage")
    /\ UNCHANGED <<client, frame, running, asked, lightVars>>

\* "camera can init without ir camera"
InitIr ==
    /\ main = "ir"
    /\ \/ (Open("ir") \/ Missing) /\ main' = "connect"
       \/ Refuse("ir") /\ main' = "dropIr"
    /\ UNCHANGED <<client, frame, running, refused, asked, lightVars>>

\* An infrared camera that did not open is deleted after its library was unloaded.
DropIr ==
    /\ main = "dropIr"
    /\ main' = "connect"
    /\ object' = [object EXCEPT !["ir"] = "none"]
    /\ UNCHANGED <<library, client, frame, running, refused, asked, lightVars>>

(* MavClient::start_runloop *)

Connect ==
    /\ main = "connect"
    /\ main' = "loop"
    /\ running' = TRUE
    /\ UNCHANGED <<object, library, client, frame, refused, asked, lightVars>>

\* There is no connection: main returns without a look at the result.
ConnectFails == main = "connect" /\ End

LoopEnds == main = "loop" /\ ~running /\ End

\* SIGINT: stop_runloop, which is of no use before the loop has begun.
Interrupt ==
    /\ main # "over"
    /\ running' = FALSE
    /\ asked' = (asked \/ main = "loop")
    /\ UNCHANGED <<main, object, library, client, frame, refused, lightVars>>

(* CameraLocalClient::deinit: the camera is not taken down *)

\* set_ai_function("0") draws no boxes, if there is a render bridge.
AiOff ==
    /\ main = "aiOff"
    /\ main' = "freeIr"
    /\ UNCHANGED <<object, library, client, frame, running, refused, asked, lightVars>>

\* The places of the main thread, and the part it frees there.
FreedAt == [place \in {"freeIr", "freeRender", "freeStorage"} |->
                CASE place = "freeIr" -> "ir"
                  [] place = "freeRender" -> "render"
                  [] OTHER -> "storage"]

Free ==
    /\ main \in DOMAIN FreedAt
    /\ main' = CASE main = "freeIr" -> "freeRender"
                 [] main = "freeRender" -> "freeStorage"
                 [] OTHER -> "delete"
    /\ object' = [object EXCEPT ![FreedAt[main]] = "none"]
    /\ library' = [library EXCEPT ![FreedAt[main]] = FALSE]
    /\ UNCHANGED <<client, frame, running, refused, asked, lightVars>>

Delete ==
    /\ main = "delete"
    /\ main' = "return"
    /\ client' = FALSE
    /\ UNCHANGED <<object, library, frame, running, refused, asked, lightVars>>

Return == main = "return" /\ End

(* the other threads *)

\* capture_callback returns if there is no render bridge; in a client that was
\* deleted it finds anything.
FrameBegins(source) ==
    /\ object[source] = "open"
    /\ ~frame[source]
    /\ client => object["render"] # "none"
    /\ frame' = [frame EXCEPT ![source] = TRUE]
    /\ UNCHANGED <<main, object, library, client, running, refused, asked, lightVars>>

FrameEnds(source) ==
    /\ frame[source]
    /\ frame' = [frame EXCEPT ![source] = FALSE]
    /\ UNCHANGED <<main, object, library, client, running, refused, asked, lightVars>>

\* A command, or the storage manager's notification.
Shows(mode) ==
    /\ object["storage"] = "open"
    /\ Ask(mode)
    /\ UNCHANGED <<processVars, watch, light, stale>>

----------------------------------------------------------------------------
(* mav_watch *)

Looks ==
    /\ watch = "look"
    /\ main = "over"
    /\ watch' = "gone"
    /\ UNCHANGED <<processVars, pending, light, last, alone, stale>>

\* pgrep could not be run: the client counts as gone.
LookFails ==
    /\ watch = "look"
    /\ main # "over"
    /\ watch' = "gone"
    /\ stale' = TRUE
    /\ UNCHANGED <<processVars, pending, light, last, alone>>

\* It looks again at once.
Warns ==
    /\ watch = "gone"
    /\ Ask("Dead")
    /\ watch' = "look"
    /\ UNCHANGED <<processVars, light, stale>>

----------------------------------------------------------------------------
Main ==
    \/ InitRender \/ InitCamera \/ InitStorage \/ InitIr \/ DropIr
    \/ Connect \/ ConnectFails \/ LoopEnds
    \/ AiOff \/ Free \/ Delete \/ Return

Next ==
    \/ Launch \/ Main \/ Interrupt \/ Killed
    \/ \E source \in Cameras : FrameBegins(source) \/ FrameEnds(source)
    \/ \E mode \in ClientLights : Shows(mode)
    \/ \E mode \in Lights : Change(mode)
    \/ Looks \/ LookFails \/ Warns

Spec == Init /\ [][Next]_vars

\* Threads go on, and mav_watch does.  Nobody has to launch or interrupt a client.
FairSpec ==
    /\ Spec
    /\ WF_vars(Main)
    /\ \A source \in Cameras : WF_vars(FrameEnds(source))
    /\ \A mode \in Lights : WF_vars(Change(mode))
    /\ WF_vars(Looks \/ Warns)

----------------------------------------------------------------------------
(* Properties *)

\* Every variable has its type; in particular init fails for three of the four
\* parts only.
TypeOK ==
    /\ main \in {"over", "render", "camera", "storage", "ir", "dropIr", "connect", "loop",
                 "aiOff", "freeIr", "freeRender", "freeStorage", "delete", "return"}
    /\ object \in [Parts -> {"none", "shut", "open"}]
    /\ library \in [Parts -> BOOLEAN]
    /\ frame \in [Cameras -> BOOLEAN]
    /\ client \in BOOLEAN /\ running \in BOOLEAN /\ asked \in BOOLEAN
    /\ refused \in {"none", "render", "camera", "storage"}
    /\ watch \in {"look", "gone"}
    /\ pending \in [Lights -> 0 .. MaxThreads]
    /\ light \in Lights /\ last \in Lights
    /\ alone \in BOOLEAN /\ stale \in BOOLEAN

\* The main thread is about to call an object whose library was unloaded.
CallsUnloaded(part) ==
    /\ object[part] # "none" /\ ~library[part]
    /\ \/ main = "aiOff" /\ part = "render"
       \/ main = "dropIr" /\ part = "ir"
       \/ main \in DOMAIN FreedAt /\ FreedAt[main] = part

\* A camera draws with a render bridge that is gone, or in a client that is.
DrawsOnGone ==
    \E source \in Cameras :
        frame[source] /\ (~client \/ object["render"] # "open" \/ ~library["render"])

\* A client that works has no pointer to anything that is not open and loaded,
\* with or without an infrared camera, except while it deletes one that did not
\* open.  Any client calls into a library that it has unloaded only where that
\* part itself did not open, and takes the render bridge from under a frame only
\* if the storage manager failed, since the camera goes on.
PointersHold ==
    /\ main # "over" /\ refused = "none" =>
           /\ client
           /\ \A part \in Parts : object[part] # "none" =>
                  \/ object[part] = "open" /\ library[part]
                  \/ main = "dropIr" /\ part = "ir"
    /\ \A part \in Parts : CallsUnloaded(part) =>
           refused = part \/ (main = "dropIr" /\ part = "ir")
    /\ DrawsOnGone => refused = "storage"

\* A change of the light that nothing overtook is the one that is seen, over the
\* ends and starts of the client.
LastShown == Settled /\ alone => light = last

\* The light shows Dead beside a client that runs only if mav_watch took it for
\* gone, before it started or since ("first init set led status to normal").
DeadIsTrue == main # "over" /\ Settled /\ light = "Dead" => stale

\* When the client stays away the light shows it for good, whatever was under way.
DeadIsShown == <>[](main = "over") => <>[](light = "Dead")

\* An interrupt that finds the loop running ends the process.
InterruptEnds == asked ~> main = "over"
=============================================================================
