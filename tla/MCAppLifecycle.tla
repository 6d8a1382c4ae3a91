--------------------------- MODULE MCAppLifecycle ---------------------------
(***************************************************************************)
(* TLC instance of AppLifecycle: two work threads, two bridge calls of     *)
(* install_update and two downloads, the fewest for which a second         *)
(* installation can meet the tail of a first one and a fresh file the      *)
(* removal of an old one.                                                  *)
(***************************************************************************)
EXTENDS AppLifecycle

MCPhases == {"handing_off", "revalidating", "launching"}
=============================================================================
