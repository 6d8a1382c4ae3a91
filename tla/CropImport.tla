--------------------------- MODULE CropImport ---------------------------
(***************************************************************************)
(* CropWindows with a settings import on a bridge thread                   *)
(* (src/wingman/settingssharing/controller.py): the imported document is   *)
(* saved first, under the settings lock, and adopted by the running        *)
(* previews afterwards (_on_settings_import_applied in                     *)
(* src/wingman/ui/api.py), from the section read in between.               *)
(***************************************************************************)
EXTENDS CropWindows

VARIABLES importPc, section

importVars == <<importPc, section>>

ImportSave ==
    /\ importPc = "none" /\ imports < MaxImports /\ LockFree
    /\ disk' \in [Names -> {NoCrop, [source |-> Imported, window |-> 0, enabled |-> TRUE]}]
    /\ importPc' = "saved" /\ UNCHANGED <<section, hostVars>>
    /\ UNCHANGED <<defs, gens, reserved, ops, queue, started, worker, epoch, fenced, rosterSeen,
                   sessions, dirty, seqs, flushOk, barriers, closing, saved, owed, faults, imports>>

ImportRead ==
    /\ importPc = "saved"
    /\ importPc' = "read" /\ section' = disk
    /\ UNCHANGED <<storeVars, hostVars>>

ImportAdopt ==
    /\ importPc = "read"
    /\ Reload(section)
    /\ importPc' = "done" /\ UNCHANGED <<section, hostVars>>

ImportInit == Init /\ importPc = "none" /\ section = [n \in Names |-> NoCrop]
ImportNext ==
    \/ Next /\ UNCHANGED importVars
    \/ ImportSave \/ ImportRead \/ ImportAdopt
ImportSpec == ImportInit /\ [][ImportNext]_<<vars, importVars>>

(* What reload promises (cropstore.py:255-259): the moves of a window that *)
(* was opened before the import are refused.                               *)
PreImportMoveRefused ==
    \A n \in Names : dirty[n] # NoMove => dirty[n].era = imports
=============================================================================
