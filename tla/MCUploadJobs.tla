---------------------------- MODULE MCUploadJobs ----------------------------
(***************************************************************************)
(* TLC instance of UploadJobs: a batch of two recordings and a stitch of   *)
(* the same two, sent by two overlapping calls.                            *)
(***************************************************************************)
EXTENDS UploadJobs

CONSTANTS r1, r2

MCPhases == {"handing_off"}

MCShapes ==
    {[items |-> <<r1, r2>>, stitch |-> FALSE],
     [items |-> <<r1, r2>>, stitch |-> TRUE]}
=============================================================================
