--------------------------- MODULE CameraSettings ---------------------------
(***************************************************************************)
(* The settings of CameraLocalClient and their store: the map _settings,    *)
(* the in-memory copy and the file of CameraParam (src/src/camera_param),   *)
(* the values the camera really uses, and the render mode derived from the  *)
(* map (src/src/mav_client/camera_local_client.cpp: set_setting,            *)
(* reset_settings, init and the init_... and set_... helpers).              *)
(*                                                                         *)
(* One thread runs the commands one after the other; the program may die    *)
(* between any two steps, and while it starts, and is then started again on *)
(* the file it left.                                                        *)
(* Six settings stand for the twenty: those that are coupled to each other  *)
(* or to the render mode, and CAM_VIDRES also for the ones that are not.    *)
(***************************************************************************)
EXTENDS Naturals, Sequences, FiniteSets

CONSTANTS
    EnvModes,       \* values MAVCAM_INIT_CAMERA_MODE may have, or "unset"
    EnvResolutions, \* values MAVCAM_INIT_PHOTO_RESOLUTION may have, or "unset"
    Faults,         \* calls to the camera that may fail: "set" and "reset"
    MaxUnsaved      \* (bound) how many settings may at a time be without a good store

Keys == {"CAM_MODE", "CAM_PHOTO_RES", "CAM_PHOTO_FMT", "CAM_VIDRES", "CAM_EXPMODE", "CAM_EV"}

\* CAM_MODE: photo, video.  CAM_PHOTO_RES: full, quarter.  CAM_PHOTO_FMT: JPEG,
\* DNG.  CAM_VIDRES: two of four.  CAM_EXPMODE: auto, manual.  CAM_EV: 0, not 0.
Values == {"0", "1"}
Absent == "absent"

ASSUME SettingsAssumption ==
    /\ EnvModes \subseteq Values \cup {"unset"}
    /\ EnvResolutions \subseteq Values \cup {"unset"}
    /\ Faults \subseteq {"set", "reset"}
    /\ MaxUnsaved \in Nat

VARIABLES
    pc,        \* "down" or the next step of the one thread
    op,        \* the command it executes: "set" or "reset"
    todo,      \* the assignments to the map and the store it has yet to make
    settings,  \* _settings
    root,      \* CameraParam::_root
    file,      \* the parameter file
    hw,        \* the values the camera uses
    render,    \* _render_mode
    envMode,   \* the environment of this start
    envRes,
    faulty,    \* what this camera may refuse, a subset of Faults
    unsaved    \* (history) the settings whose last store found no open file

vars == <<pc, op, todo, settings, root, file, hw, render, envMode, envRes, faulty, unsaved>>
envVars == <<envMode, envRes, faulty>>

----------------------------------------------------------------------------
\* A fresh camera and the defaults of the program.
Factory == [k \in Keys |-> IF k = "CAM_PHOTO_RES" \/ k = "CAM_VIDRES" THEN "1" ELSE "0"]
EmptyFile == [k \in Keys |-> Absent]

\* init_render_mode.  (Its second branch repeats the condition of the first
\* one, but the value it would set is the initial one.)
RenderOf(s) ==
    IF s["CAM_MODE"] = "0"
      THEN IF s["CAM_PHOTO_RES"] = "0" THEN "photo full" ELSE "photo quarter"
      ELSE IF s["CAM_VIDRES"] = "0" THEN "video 4k60" ELSE "video 4k30"

\* A plausible fault: a change of the photo format does not refresh the mode.
RenderKeys_NoFormat == {"CAM_MODE", "CAM_PHOTO_RES", "CAM_VIDRES"}
RenderKeys == {"CAM_MODE", "CAM_PHOTO_RES", "CAM_VIDRES", "CAM_PHOTO_FMT"}

Assignment(k, v) == [key |-> k, value |-> v]

\* What reset_settings assigns once the camera was reset, in its order.
Defaults == <<Assignment("CAM_PHOTO_RES", "1"), Assignment("CAM_PHOTO_FMT", "0"),
              Assignment("CAM_EXPMODE", "0"), Assignment("CAM_EV", "0"),
              Assignment("CAM_VIDRES", "1")>>

----------------------------------------------------------------------------
Outcomes == IF "set" \in faulty THEN BOOLEAN ELSE {TRUE}

\* Where a command is once its first assignment was stored: at the next one, at
\* the camera's own reset, at the end.
AfterWrite ==
    IF Tail(todo) # <<>> THEN "commit"
    ELSE IF op = "set" THEN "idle"
    ELSE IF Head(todo).key = "CAM_MODE" THEN "device" ELSE "refresh"

\* The render mode then: set_setting computes it again for four of the settings.
Rendered == IF op = "set" /\ Head(todo).key \in RenderKeys THEN RenderOf(settings) ELSE render

\* The photo resolution of the environment counts for more than the store.
FromEnvironment(k) == k = "CAM_PHOTO_RES" /\ envRes # "unset"

----------------------------------------------------------------------------
(* Plausible faults of this code, each a variant of the definition it names. *)

\* init takes the store for complete: a key it does not hold has no default.
BootValue_NoDefault(k) == file[k]

\* set_setting keeps a value that the camera refused.
SetApply_IgnoresResult(k, v) ==
    /\ pc = "idle"
    /\ op' = "set"
    /\ settings' = IF k = "CAM_PHOTO_FMT" /\ v = "1"
                     THEN [settings EXCEPT !["CAM_PHOTO_RES"] = "0"] ELSE settings
    /\ \E good \in Outcomes : hw' = IF good THEN [hw EXCEPT ![k] = v] ELSE hw
    /\ pc' = "commit"
    /\ todo' = <<Assignment(k, v)>>
    /\ UNCHANGED <<root, file, render, unsaved, envVars>>

\* CameraParam::set_value writes the values back before it changes the one.
Write_TooEarly ==
    /\ pc = "write"
    /\ root' = [root EXCEPT ![Head(todo).key] = Head(todo).value]
    /\ file' = root
    /\ todo' = Tail(todo)
    /\ pc' = AfterWrite
    /\ render' = Rendered
    /\ unsaved' = unsaved \ {Head(todo).key}
    /\ UNCHANGED <<op, settings, hw, envVars>>

\* init stores the photo resolution of the environment like the values it chose.
Missing_Environment == {k \in Keys : file[k] = Absent \/ FromEnvironment(k)}

----------------------------------------------------------------------------
(* The start of the program: init_mav_camera and init. *)

\* The camera mode: the environment counts for an empty store only.
BootMode == IF file["CAM_MODE"] # Absent THEN file["CAM_MODE"]
            ELSE IF envMode # "unset" THEN envMode ELSE "0"

\* The other settings: the store, or a default.
BootValue(k) == IF file[k] = Absent THEN Factory[k] ELSE file[k]

\* The settings after init.
BootSettings ==
    [k \in Keys |-> IF k = "CAM_MODE" THEN BootMode
                    ELSE IF FromEnvironment(k) THEN envRes ELSE BootValue(k)]

\* What init stores: the values that the store lacks, but for the one of the
\* environment.  Those whose set_value opens no file are missed.
Missing == {k \in Keys : file[k] = Absent /\ ~FromEnvironment(k)}
Kept == {kept \in SUBSET Missing : Cardinality(Missing \ kept) <= MaxUnsaved}
BootStore(kept) == [k \in Keys |-> IF k \in kept THEN BootSettings[k] ELSE file[k]]

\* The camera is opened with the mode, the resolutions and the format.  The
\* exposure mode, and in auto exposure the exposure value, are set afterwards,
\* and the result of that is not looked at.
BootHardware(expGood, evGood) ==
    [k \in Keys |->
        LET given == /\ k = "CAM_EXPMODE" => expGood
                     /\ k = "CAM_EV" => evGood /\ BootSettings["CAM_EXPMODE"] = "0"
        IN  IF given THEN BootSettings[k] ELSE Factory[k]]

Boot ==
    /\ pc = "down"
    /\ pc' = "idle"
    /\ settings' = BootSettings
    /\ \E kept \in Kept :
          /\ root' = BootStore(kept)
          /\ file' = BootStore(kept)
          /\ unsaved' = Missing \ kept
    /\ \E expGood, evGood \in Outcomes : hw' = BootHardware(expGood, evGood)
    /\ render' = RenderOf(BootSettings)
    /\ UNCHANGED <<op, todo, envVars>>

\* The next start may have another environment.
NewEnvironment == envMode' \in EnvModes /\ envRes' \in EnvResolutions

\* The missing values are stored in this order, one set_value for each.
BootOrder == <<"CAM_MODE", "CAM_PHOTO_RES", "CAM_VIDRES", "CAM_PHOTO_FMT", "CAM_EXPMODE", "CAM_EV">>
BootedTo(n) == {BootOrder[i] : i \in 1 .. n}

\* A start that does not get through: the program dies, or a device does not
\* open, between two of the values, or inside of a set_value.
BootFails ==
    /\ pc = "down"
    /\ \/ \E n \in 0 .. 6, kept \in Kept : file' = BootStore(kept \cap BootedTo(n))
       \/ Missing # {} /\ file' = EmptyFile
    /\ NewEnvironment
    /\ UNCHANGED <<pc, op, todo, settings, root, hw, render, faulty, unsaved>>

\* The program dies, or the camera loses power: nothing but the file is left.
Crash ==
    /\ pc # "down"
    /\ pc' = "down"
    /\ op' = "set"
    /\ todo' = <<>>
    /\ settings' = Factory
    /\ root' = EmptyFile
    /\ hw' = Factory
    /\ render' = RenderOf(Factory)
    /\ unsaved' = {}
    /\ NewEnvironment
    /\ UNCHANGED <<file, faulty>>

Init ==
    /\ pc = "down"
    /\ op = "set"
    /\ todo = <<>>
    /\ settings = Factory
    /\ root = EmptyFile
    /\ file = EmptyFile
    /\ hw = Factory
    /\ render = RenderOf(Factory)
    /\ envMode \in EnvModes
    /\ envRes \in EnvResolutions
    /\ faulty \in SUBSET Faults
    /\ unsaved = {}

----------------------------------------------------------------------------
(* set_setting, and set_mode which calls it. *)

\* The value is given to the camera.  set_photo_format first puts the photo
\* resolution to full in the map, for DNG, and nowhere else.
SetApply(k, v) ==
    /\ pc = "idle"
    /\ op' = "set"
    /\ settings' = IF k = "CAM_PHOTO_FMT" /\ v = "1"
                     THEN [settings EXCEPT !["CAM_PHOTO_RES"] = "0"] ELSE settings
    /\ \E good \in Outcomes :
          /\ hw' = IF good THEN [hw EXCEPT ![k] = v] ELSE hw
          /\ pc' = IF good THEN "commit" ELSE "idle"
          /\ todo' = IF good THEN <<Assignment(k, v)>> ELSE <<>>
    /\ UNCHANGED <<root, file, render, unsaved, envVars>>

\* The map gets the value.
Commit ==
    /\ pc = "commit"
    /\ settings' = [settings EXCEPT ![Head(todo).key] = Head(todo).value]
    /\ pc' = "truncate"
    /\ UNCHANGED <<op, todo, root, file, hw, render, unsaved, envVars>>

\* CameraParam::set_value finds no open file and leaves the store as it was.
\* Its result is not looked at: the setting stays in the map, and in the camera.
StoreFails ==
    /\ pc = "truncate"
    /\ unsaved' = unsaved \cup {Head(todo).key}
    /\ Cardinality(unsaved') <= MaxUnsaved
    /\ todo' = Tail(todo)
    /\ pc' = AfterWrite
    /\ render' = Rendered
    /\ UNCHANGED <<op, settings, root, file, hw, envVars>>

\* Or it opens the file, which empties it ...
Truncate ==
    /\ pc = "truncate"
    /\ file' = EmptyFile
    /\ pc' = "write"
    /\ UNCHANGED <<op, todo, settings, root, hw, render, unsaved, envVars>>

\* ... and writes all values.  Then the next assignment follows, or the camera's
\* own reset, or the command is over.
Write ==
    /\ pc = "write"
    /\ root' = [root EXCEPT ![Head(todo).key] = Head(todo).value]
    /\ file' = root'
    /\ todo' = Tail(todo)
    /\ pc' = AfterWrite
    /\ render' = Rendered
    /\ unsaved' = unsaved \ {Head(todo).key}
    /\ UNCHANGED <<op, settings, hw, envVars>>

(* reset_settings *)

\* The camera mode is put to photo before anything else.
ResetBegin ==
    /\ pc = "idle"
    /\ op' = "reset"
    /\ todo' = <<Assignment("CAM_MODE", "0")>>
    /\ pc' = "commit"
    /\ UNCHANGED <<settings, root, file, hw, render, unsaved, envVars>>

\* The camera resets itself to its factory values and the defaults follow, or
\* it does not and the task is over.
ResetDevice ==
    /\ pc = "device"
    /\ \/ /\ hw' = Factory
          /\ todo' = Defaults
          /\ pc' = "commit"
       \/ /\ "reset" \in faulty
          /\ pc' = "idle"
          /\ UNCHANGED <<hw, todo>>
    /\ UNCHANGED <<op, settings, root, file, render, unsaved, envVars>>

ResetRefresh ==
    /\ pc = "refresh"
    /\ render' = RenderOf(settings)
    /\ pc' = "idle"
    /\ UNCHANGED <<op, todo, settings, root, file, hw, unsaved, envVars>>

Next ==
    \/ Boot \/ BootFails \/ Crash
    \/ \E k \in Keys, v \in Values : SetApply(k, v)
    \/ Commit \/ Truncate \/ StoreFails \/ Write
    \/ ResetBegin \/ ResetDevice \/ ResetRefresh

Spec == Init /\ [][Next]_vars

----------------------------------------------------------------------------
(* Properties *)

Stored == [Keys -> Values \cup {Absent}]

TypeOK ==
    /\ pc \in {"down", "idle", "commit", "truncate", "write", "device", "refresh"}
    /\ op \in {"set", "reset"}
    /\ todo \in Seq([key : Keys, value : Values])
    /\ settings \in [Keys -> Values]
    /\ root \in Stored
    /\ file \in Stored
    /\ hw \in [Keys -> Values]
    /\ render \in {"photo full", "photo quarter", "video 4k60", "video 4k30"}
    /\ envMode \in Values \cup {"unset"}
    /\ envRes \in Values \cup {"unset"}
    /\ faulty \subseteq {"set", "reset"}
    /\ unsaved \subseteq Keys

\* Between commands the store holds the settings in force, so that a restart
\* then finds what the ground station was told, also if the program died inside
\* a command before.  There are two exceptions.  The photo resolution: the
\* environment and a change to DNG set it in the map alone.  And a setting whose
\* last store found no open file: nobody looks at the result of set_value.
StoreAgrees ==
    pc = "idle" => \A k \in Keys \ ({"CAM_PHOTO_RES"} \cup unsaved) : file[k] = settings[k]

\* Between commands the camera works in the format and video resolution that the
\* settings show, whatever it refused, and in the mode they show unless it may
\* refuse to be reset.
CameraAgrees ==
    pc = "idle" =>
        \A k \in {"CAM_MODE", "CAM_PHOTO_FMT", "CAM_VIDRES"} :
            hw[k] = settings[k] \/ (k = "CAM_MODE" /\ "reset" \in faulty)

\* Between commands the picture of a camera that refuses nothing is rendered for
\* the settings in force, whether or not they could be stored.  (After a refused
\* change to DNG, and a refused reset, the settings have changed and the render
\* mode has not.)
RenderFresh == pc = "idle" /\ faulty = {} => render = RenderOf(settings)

\* What the store holds: the copy in memory, or between two runs of the program
\* what the next one will find.
Store == INSTANCE ParamStore WITH
    content <- IF pc = "down" THEN file ELSE root,
    running <- pc # "down",
    writing <- pc = "write"

\* The settings are stored as ParamStore promises: no start, in whatever
\* environment and whether or not it gets through, changes a value that was
\* stored, and neither a set_value that finds no open file nor a death outside of
\* a set_value loses one.
ImplementsStore == Store!Spec

=============================================================================
