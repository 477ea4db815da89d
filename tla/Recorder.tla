------------------------------- MODULE Recorder -------------------------------
(***************************************************************************)
(* What the capture commands promise of the cameras and of the flag "is     *)
(* recording", without their steps: one user at a time; a device turns on   *)
(* only for the one that starts and off only for the one that stops while   *)
(* the flag is up; the flag rises only in a start with a device at work,    *)
(* and falls only in a stop with one at rest.                               *)
(* CameraLocalClient implements this, in whatever way the sensor mode is    *)
(* changed meanwhile and whatever the devices fail to do.                   *)
(***************************************************************************)
CONSTANTS
    Users,
    Nobody,
    Tasks,      \* what a user may do, "start" and "stop" among it
    Devices

VARIABLES
    holder,     \* who uses the cameras
    doing,      \* for what
    rec,        \* which devices record
    flag        \* what is shown of it

recorderVars == <<holder, doing, rec, flag>>

----------------------------------------------------------------------------
Init ==
    /\ holder = Nobody
    /\ doing = "none"
    /\ rec = [d \in Devices |-> FALSE]
    /\ flag = FALSE

Enter(u, t) ==
    /\ holder = Nobody
    /\ holder' = u
    /\ doing' = t
    /\ UNCHANGED <<rec, flag>>

TurnOn(d) ==
    /\ doing = "start"
    /\ rec' = [rec EXCEPT ![d] = TRUE]
    /\ UNCHANGED <<holder, doing, flag>>

TurnOff(d) ==
    /\ doing = "stop" /\ flag
    /\ rec' = [rec EXCEPT ![d] = FALSE]
    /\ UNCHANGED <<holder, doing, flag>>

\* A start or a stop shows its success, while the cameras are still in use.
ShowStart ==
    /\ doing = "start"
    /\ \E d \in Devices : rec[d]
    /\ flag' = TRUE
    /\ UNCHANGED <<holder, doing, rec>>

ShowStop ==
    /\ doing = "stop"
    /\ \E d \in Devices : ~rec[d]
    /\ flag' = FALSE
    /\ UNCHANGED <<holder, doing, rec>>

Leave ==
    /\ holder # Nobody
    /\ holder' = Nobody
    /\ doing' = "none"
    /\ UNCHANGED <<rec, flag>>

Next ==
    \/ \E u \in Users, t \in Tasks : Enter(u, t)
    \/ \E d \in Devices : TurnOn(d) \/ TurnOff(d)
    \/ ShowStart \/ ShowStop
    \/ Leave

Spec == Init /\ [][Next]_recorderVars
=============================================================================
