------------------------- MODULE MCCameraLocalClient -------------------------
(***************************************************************************)
(* The small instances of CameraLocalClient: one or two callers and the     *)
(* notification thread, and what the storage manager may report.            *)
(***************************************************************************)
EXTENDS CameraLocalClient, TLC

\* The callers run the same code: any permutation of them is a symmetry.
CallerSymmetry == Permutations(Callers)

Fine == [formatted |-> TRUE, low |-> FALSE]
Full == [formatted |-> TRUE, low |-> TRUE]
Unformatted == [formatted |-> FALSE, low |-> FALSE]

AllReports == {Fine, Full, Unformatted}
FillingCard == {Fine, Full}
GoodCard == {Fine}

----------------------------------------------------------------------------
(* Statements of the repository that the code does not keep. *)

\* check_sdcard_status: "SD card becomes invalid or full", and then it stops
\* the recording.  So when no command runs and the last report says that the
\* card is full, nothing records.
FullCardNotRecording ==
    (\A t \in Threads : At(t, "idle")) /\ storageInfo.low => ~isRecording

\* stop_video answers Success with the log line "call stop video without video
\* is recording".  So at that early return no device records.
NothingToStop ==
    \A t \in Threads : At(t, "flag") /\ ~isRecording => \A d \in Devices : ~rec[d]
=============================================================================
