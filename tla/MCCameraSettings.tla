-------------------------- MODULE MCCameraSettings --------------------------
(***************************************************************************)
(* A statement of the repository about the settings that the code does not  *)
(* keep, for the small instances of CameraSettings.                         *)
(***************************************************************************)
EXTENDS CameraSettings

\* init_mav_camera: "init priority is env > store > default".  So a start takes
\* the camera mode that the environment gives.
EnvironmentFirst ==
    [][pc = "down" /\ pc' = "idle" /\ envMode # "unset"
          => settings'["CAM_MODE"] = envMode]_vars
=============================================================================
