-------------------------- MODULE MCTrackingServer --------------------------
(***************************************************************************)
(* The small instances of TrackingServer, and a statement of the repository *)
(* that the code does not keep.                                             *)
(***************************************************************************)
EXTENDS TrackingServer

\* set_ai_function logs "Failed to start tracking server" and returns false when
\* the server cannot be started.  So a start never ends the program.
NeverTerminates == ~crashed
=============================================================================
