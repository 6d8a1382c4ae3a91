-------------------------- MODULE MCRecordingRows --------------------------
(* RecordingRows on two paths of one folder and one path of another.       *)
EXTENDS RecordingRows, TLC

CONSTANTS a1, a2, b1

MCFolder == a1 :> "A" @@ a2 :> "A" @@ b1 :> "B"
=============================================================================
